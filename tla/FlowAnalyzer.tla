---------------------------- MODULE FlowAnalyzer ----------------------------
(***************************************************************************)
(* FlowAnalyzer::run of src/src/cand.cpp: the analysis of one function.    *)
(*                                                                         *)
(* A worklist iteration over the blocks of the control-flow graph joins    *)
(* the state each block leaves into the entry states of its successors     *)
(* until nothing changes; a backward iteration then computes which borrows *)
(* are still used after each statement; only then one more pass over the   *)
(* blocks emits diagnostics, from the converged entry states.              *)
(*                                                                         *)
(* The function under analysis is chosen in Init from the set Programs.    *)
(***************************************************************************)
EXTENDS ProgramTransfer

VARIABLES
    program,                 \* the function under analysis
    phase,                   \* "fixpoint", "liveness", "emit" or "done"
    in_states, out_states,   \* block id -> flow state, filled in on demand
    worklist,                \* block ids
    known_borrow_storages,   \* storages that ever held a borrow
    borrow_live_in,          \* block id -> storages whose borrow is used after its
    borrow_live_out,         \*   start, or after its end
    sweep,                   \* the blocks this turn of the liveness loop has left
    changed,                 \* whether this turn has changed borrow_live_in
    notes                    \* what the Collector received

livenessVars == <<borrow_live_in, borrow_live_out, sweep, changed>>
vars == <<program, phase, in_states, out_states, worklist,
          known_borrow_storages, livenessVars, notes>>

-----------------------------------------------------------------------------
(* Backward liveness of borrows *)

\* An assignment mentions its left-hand side, which therefore counts as used;
\* a declaration mentions only its initialiser.
StmtUses(e) ==
    CASE e.op \in {"free", "use", "return", "borrow"} -> {e.src}
      [] e.op \in {"copy", "move"} -> {e.src} \cup Assigned(e)
      [] e.op \in {"null", "alloc"} -> Assigned(e)
      [] e.op = "step"   -> {e.dst}
      [] e.op = "call"   -> Passed(e)
      [] e.op = "produce" -> Passed(e) \cup {e.dst}
      [] e.op = "set"    -> {}
      [] e.op = "result" -> Passed(e) \cup Assigned(e)

StmtKills(e) ==
    IF e.op \in {"null", "alloc", "copy", "move", "borrow", "result", "step"}
    THEN {e.dst} ELSE {}

\* Walking back from the end of a block, where out is live, to statement k:
\* each statement takes its kills off before it puts its uses on.
LiveBefore(code, k, out) ==
    LET Survives(s, n) == \A i \in k .. n : s \notin StmtKills(code[i])
    IN  {s \in out : Survives(s, Len(code))} \cup
        {s \in known_borrow_storages :
            \E i \in k .. Len(code) : s \in StmtUses(code[i]) /\ Survives(s, i - 1)}

LiveOut(b) == UNION {borrow_live_in[s] : s \in program.succ[b]}

\* The condition is the last event of a block.
Tested(b) == program.cond[b].mentions \cap known_borrow_storages

borrowLivenessTransfer(b, out) == LiveBefore(program.code[b], 1, out \cup Tested(b))

LiveAfter(b) ==
    [i \in DOMAIN program.code[b] |->
        LiveBefore(program.code[b], i + 1, borrow_live_out[b] \cup Tested(b))]

-----------------------------------------------------------------------------
(* The run *)

Init ==
    /\ program \in Programs
    /\ phase = "fixpoint"
    /\ in_states = [b \in {program.entry} |-> seedParameterState(program.params)]
    /\ out_states = [b \in {} |-> EmptyFlow]
    /\ worklist = {program.entry}
    /\ known_borrow_storages = {}
    /\ borrow_live_in = [b \in Blocks |-> {}]
    /\ borrow_live_out = [b \in Blocks |-> {}]
    /\ sweep = {}
    /\ changed = FALSE
    /\ notes = {}

Reached == DOMAIN in_states

\* Fault: the last edge to arrive decides.
ArrivedLast(s, out) == out

\* What the entry state of s becomes when the state out arrives on an edge.
Arrived(s, out) ==
    IF s \in Reached THEN joinFlow(in_states[s], out) ELSE out

\* Fault: a block is put on the worklist when it is reached, and never again.
UnsettledAtFirst(s, out) == s \notin Reached

Unsettled(s, out) == s \notin Reached \/ Arrived(s, out) # in_states[s]

\* What block b, which leaves the state out, sends to its successor s.
Sent(b, s, out) == AlongEdge(program.cond[b], s, out)

Delivered(b, out) ==
    [s \in Reached \cup program.succ[b] |->
        IF s \in program.succ[b] THEN Arrived(s, Sent(b, s, out)) ELSE in_states[s]]

\* Fault: having a result counts as having the same result.
HasResult(b, out) == b \in DOMAIN out_states

Unchanged(b, out) == b \in DOMAIN out_states /\ out_states[b] = out

Registrations(ns) == {n.note.id : n \in {m \in ns : m.note.kind = "borrow"}}

\* One turn of the worklist loop on block b.  Every block of the worklist was
\* reached over an edge or is the entry, so the pred_empty() skip never bites.
\* r is the result of the one call of transfer.
Propagate(b) ==
    \E r \in {TransferBlock(program, b, in_states[b])} :
        /\ known_borrow_storages' = known_borrow_storages \cup Registrations(r.notes)
        /\ \/ /\ Unchanged(b, r.st)
              /\ worklist' = worklist \ {b}
              /\ UNCHANGED <<in_states, out_states>>
           \/ /\ ~Unchanged(b, r.st)
              /\ out_states' = With(out_states, b, r.st)
              /\ in_states' = Delivered(b, r.st)
              /\ worklist' = (worklist \ {b}) \cup
                              {s \in program.succ[b] : Unsettled(s, Sent(b, s, r.st))}

LowestIn(ids, b) == b \in ids /\ \A x \in ids : b <= x

\* Fault: emitting_ is left at its default while the states still change.
ProcessBlockEmitting(b) ==
    /\ phase = "fixpoint"
    /\ b \in worklist
    /\ Propagate(b)
    /\ notes' = notes \cup
           {[block |-> b, index |-> n.index, note |-> n.note] :
               n \in TransferBlock(program, b, in_states[b]).notes}
    /\ UNCHANGED <<program, phase, livenessVars>>

\* The worklist is a std::set: the lowest block id goes first.
ProcessBlock(b) ==
    /\ phase = "fixpoint"
    /\ LowestIn(worklist, b)
    /\ Propagate(b)
    /\ UNCHANGED <<program, phase, livenessVars, notes>>

Converged ==
    /\ phase = "fixpoint"
    /\ worklist = {}
    /\ phase' = "liveness"
    /\ sweep' = Blocks
    /\ UNCHANGED <<program, in_states, out_states, worklist,
                   known_borrow_storages, borrow_live_in, borrow_live_out, changed, notes>>

\* computeBorrowLiveness: a turn takes the blocks in ascending order ...
SweepBlock(b) ==
    /\ phase = "liveness"
    /\ LowestIn(sweep, b)
    /\ sweep' = sweep \ {b}
    /\ LET out == LiveOut(b)
           in  == borrowLivenessTransfer(b, out)
       IN  /\ borrow_live_out' = [borrow_live_out EXCEPT ![b] = out]
           /\ borrow_live_in' = [borrow_live_in EXCEPT ![b] = in]
           /\ changed' = (changed \/ out # borrow_live_out[b] \/ in # borrow_live_in[b])
    /\ UNCHANGED <<program, phase, in_states, out_states, worklist,
                   known_borrow_storages, notes>>

\* Fault: one turn is taken to be enough ...
EndSweepAtOnce ==
    /\ phase = "liveness"
    /\ sweep = {}
    /\ phase' = "emit"
    /\ UNCHANGED <<program, in_states, out_states, worklist, known_borrow_storages,
                   livenessVars, notes>>

\* ... or changed is not reset before the next turn.
EndSweepStillChanged ==
    /\ phase = "liveness"
    /\ sweep = {}
    /\ IF changed THEN sweep' = Blocks /\ phase' = phase
                  ELSE sweep' = sweep /\ phase' = "emit"
    /\ UNCHANGED <<program, in_states, out_states, worklist, known_borrow_storages,
                   borrow_live_in, borrow_live_out, changed, notes>>

\* ... and another turn follows one that changed something.
EndSweep ==
    /\ phase = "liveness"
    /\ sweep = {}
    /\ changed' = FALSE
    /\ IF changed THEN sweep' = Blocks /\ phase' = phase
                  ELSE sweep' = sweep /\ phase' = "emit"
    /\ UNCHANGED <<program, in_states, out_states, worklist,
                   known_borrow_storages, borrow_live_in, borrow_live_out, notes>>

BlockNotes(b) ==
    {[block |-> b, index |-> n.index, note |-> n.note] :
        n \in transfer(program.code[b], LiveAfter(b), in_states[b]).notes}

\* emitting_ is set for the last pass only.  It may register borrows that the
\* other passes did not: one that was refused there, for a conflict with a
\* borrow that has expired here.
Emit ==
    /\ phase = "emit"
    /\ notes' = UNION {BlockNotes(b) : b \in DOMAIN in_states}
    /\ known_borrow_storages' = known_borrow_storages \cup Registrations(notes')
    /\ phase' = "done"
    /\ UNCHANGED <<program, in_states, out_states, worklist, livenessVars>>

Next ==
    \/ \E b \in Blocks : ProcessBlock(b) \/ SweepBlock(b)
    \/ Converged \/ EndSweep \/ Emit

Spec == Init /\ [][Next]_vars

\* run() is sequential code: it takes its next step whenever it has one.
FairSpec == Spec /\ WF_vars(Next)

-----------------------------------------------------------------------------
(* Verdict: Collector::exitCode *)

Findings == {n \in notes : n.note.kind = "finding"}
Obligations == {n \in notes : n.note.kind = "unsupported"}

exitCode == IF Findings # {} THEN 1 ELSE IF Obligations # {} THEN 3 ELSE 0
PASS == phase = "done" /\ exitCode = 0

-----------------------------------------------------------------------------
(* Properties *)

TypeOK ==
    /\ program \in Programs
    /\ phase \in {"fixpoint", "liveness", "emit", "done"}
    /\ DOMAIN in_states \subseteq Blocks
    /\ \A b \in DOMAIN in_states : IsFlowState(in_states[b], Storages)
    /\ DOMAIN out_states \subseteq DOMAIN in_states
    /\ \A b \in DOMAIN out_states : IsFlowState(out_states[b], Storages)
    /\ worklist \subseteq DOMAIN in_states
    /\ known_borrow_storages \subseteq Storages
    /\ borrow_live_in \in [Blocks -> SUBSET Storages]
    /\ borrow_live_out \in [Blocks -> SUBSET Storages]
    /\ sweep \subseteq Blocks
    /\ changed \in BOOLEAN
    /\ \A n \in notes : n.block \in Blocks /\ IsNote(n.note)

EnteredWith(p) == seedParameterState(p.params)
LeftWith(p, b, st) == TransferBlock(p, b, st).st
SentAfter(p, b, s, st) == AlongEdge(p.cond[b], s, LeftWith(p, b, st))

Absorbs(s, out) == s \in Reached /\ joinFlow(in_states[s], out) = in_states[s]

\* The worklist holds every block whose last result is out of date: any other
\* reached block has its current result in out_states, and every result there
\* is already part of the entry states of the block's successors.
WorklistCovers ==
    /\ program.entry \in Reached
    /\ phase # "fixpoint" => worklist = {}
    /\ \A b \in Reached \ worklist :
          b \in DOMAIN out_states /\ out_states[b] = LeftWith(program, b, in_states[b])
    /\ \A b \in DOMAIN out_states : \A s \in program.succ[b] :
          Absorbs(s, Sent(b, s, out_states[b]))

\* When the worklist has run dry, the entry states are a solution of the flow
\* equations: the entry block is reached, and what a reached block makes of its
\* entry state is already part of the entry state of each of its successors,
\* so the emission pass sees every path.
PostFixpoint ==
    phase # "fixpoint" =>
        /\ program.entry \in Reached
        /\ \A b \in Reached : \A s \in program.succ[b] :
              Absorbs(s, SentAfter(program, b, s, in_states[b]))

\* The iteration only ever climbs: an entry state, once there, absorbs what it
\* was before every later step, and registered borrows stay registered.
EntryStatesAscend ==
    [][/\ known_borrow_storages \subseteq known_borrow_storages'
       /\ \A b \in Reached :
             b \in DOMAIN in_states' /\ joinFlow(in_states'[b], in_states[b]) = in_states'[b]]_vars

\* Diagnostics come from converged state only: once the worklist has run dry
\* nothing the emission pass reads of the flow states changes any more, the
\* borrows whose liveness is computed are settled, and nothing is emitted
\* before that liveness is known (ADR-0011).
EmissionFollowsConvergence ==
    [][/\ phase # "fixpoint" => UNCHANGED <<in_states, out_states>>
       /\ phase = "liveness" => UNCHANGED known_borrow_storages
       /\ notes' # notes => phase = "emit" /\ UNCHANGED livenessVars]_vars

\* A path from statement k of block b to a use of the borrow in s that no
\* statement kills on the way: the meaning of "used later".
Exposed(s, b) == s \in LiveBefore(program.code[b], 1, Tested(b))
Transparent(s, b) == s \in LiveBefore(program.code[b], 1, {s})
Nearer(s, ahead) == {b \in Blocks : Transparent(s, b) /\ program.succ[b] \cap ahead # {}}

\* Element n: where a path of at most n steps to another block leads to a use.
UsesWithin(s) ==
    LET within[n \in 0 .. Cardinality(Blocks)] ==
            IF n = 0 THEN {b \in Blocks : Exposed(s, b)}
            ELSE within[n - 1] \cup Nearer(s, within[n - 1])
    IN  within
UsedWithin(s) == UsesWithin(s)[Cardinality(Blocks)]

\* The sweeps hand the emission pass exactly the borrows some path still uses,
\* both at the start of every block and at its end.
LivenessIsReachableUse ==
    phase = "emit" =>
        /\ \A s \in Storages :
              {b \in Blocks : s \in borrow_live_in[b]} =
                  IF s \in known_borrow_storages THEN UsedWithin(s) ELSE {}
        /\ \A b \in Blocks : borrow_live_out[b] = LiveOut(b)

\* No two pointers are the authoritative owner of one object on any path: a
\* copy is an alias, a move takes the capability away from its source, and a
\* site that allocates again in a loop does so under another id.
UniqueOwner ==
    \A b \in Reached : \A s, t \in DOMAIN in_states[b].storages :
        LET bind == in_states[b].storages
        IN  (/\ s # t
             /\ bind[s].relation = "Owner"
             /\ bind[t].relation = "Owner") => bind[s].object_id # bind[t].object_id

\* The worklist and the comparison with the previous result skip no work that
\* matters: the run is a chaotic iteration of the flow equations.
Iteration == INSTANCE ChaoticIteration
    WITH Seed <- EnteredWith, Transfer <- SentAfter, Join <- joinFlow,
         settled <- (phase # "fixpoint")
RefinesChaoticIteration == Iteration!Spec

\* The analysis of a function ends, loops or not.
Termination == <>(phase = "done")
=============================================================================
