-------------------------- MODULE ChaoticIteration --------------------------
(***************************************************************************)
(* What FlowAnalyzer::run of src/src/cand.cpp promises of its fixed point, *)
(* for any state space, transfer function and join: the entry states of    *)
(* the blocks start at the state of the function's entry and grow, one     *)
(* reached block at a time and in any order, by what that block makes of   *)
(* its own entry state; and the iteration is settled only when nothing is  *)
(* left to add.  There is no worklist here and no memory of earlier        *)
(* results: those are how FlowAnalyzer avoids work, and it must not skip   *)
(* any that matters.                                                       *)
(***************************************************************************)
CONSTANTS
    Blocks,               \* the blocks of every program
    Programs,             \* records with an entry block and successors succ
    Seed(_),              \* the state a program is entered with
    Transfer(_, _, _, _), \* what a block of a program makes of a state, for
                          \*   one of its successors
    Join(_, _)            \* the state two states are merged into

VARIABLES
    program,      \* the function under analysis
    in_states,    \* block id -> flow state, for the blocks reached so far
    settled       \* whether the entry states are handed to the later passes

vars == <<program, in_states, settled>>

Out(b, s) == Transfer(program, b, s, in_states[b])

\* An edge into s that brings nothing new.
Absorbed(s, out) ==
    s \in DOMAIN in_states /\ Join(in_states[s], out) = in_states[s]

Init ==
    /\ program \in Programs
    /\ in_states = [b \in {program.entry} |-> Seed(program)]
    /\ settled = FALSE

Grow(b) ==
    /\ ~settled
    /\ b \in DOMAIN in_states
    /\ in_states' = [s \in DOMAIN in_states \cup program.succ[b] |->
                        IF s \notin program.succ[b] THEN in_states[s]
                        ELSE IF s \notin DOMAIN in_states THEN Out(b, s)
                        ELSE Join(in_states[s], Out(b, s))]
    /\ UNCHANGED <<program, settled>>

Settle ==
    /\ \A b \in DOMAIN in_states : \A s \in program.succ[b] : Absorbed(s, Out(b, s))
    /\ settled' = TRUE
    /\ UNCHANGED <<program, in_states>>

Next == Settle \/ \E b \in Blocks : Grow(b)

Spec == Init /\ [][Next]_vars
=============================================================================
