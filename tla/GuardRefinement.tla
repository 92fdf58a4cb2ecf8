--------------------------- MODULE GuardRefinement ---------------------------
(***************************************************************************)
(* What a branch tells the analysis about a pointer-output call            *)
(* (applyOutOwnerRefinement of src/src/cand.cpp): on one edge out of the   *)
(* branch the object is known to be there, on the other it is known not to *)
(* be, and a binding that carries produced_maybe is refined accordingly.   *)
(*                                                                         *)
(* A condition is given in the normal form the code reduces it to.  It is  *)
(* true iff (subject = K) is eq, where K is 0 or NULL when zero is TRUE    *)
(* and some other constant when it is not, and the subject is the call     *)
(* itself ("call"), a variable that received a result ("result") or a      *)
(* pointer ("pointer").  Every other condition, compound ones included, is *)
(* "other" and refines nothing.  A block without a branch has one, too.    *)
(***************************************************************************)
EXTENDS OwnershipTransfer

\* then: the successor the condition is true for; loop: it is that of a while,
\* for or do; mentions: the pointers it names, which count as uses of borrows.
IsCondition(c) ==
    /\ c.loop \in BOOLEAN
    /\ c.mentions \subseteq Storages
    /\ \/ c.form = "other"
       \/ /\ c.eq \in BOOLEAN /\ c.zero \in BOOLEAN
          /\ \/ c.form = "call"    /\ c.fn \in DOMAIN OutOwners /\ c.dest \in Storages
             \/ c.form = "result"  /\ c.name \in Results
             \/ c.form = "pointer" /\ c.name \in Storages /\ c.zero

MarkedNull == [object_id |-> kNullObjectId, relation |-> "Null", produced_maybe |-> TRUE]

\* Only a binding that carries the mark is refined.  An edge may say neither.
Refined(dest, present, absent, st) ==
    LET b == st.storages[dest]
    IN  IF ~Bound(st, dest) \/ ~b.produced_maybe THEN st
        ELSE IF present /\ b.object_id \notin {kNullObjectId, kUnknownObjectId}
        THEN Bind(st, dest, Binding(b.object_id, "Owner"))
        ELSE IF absent THEN Bind(st, dest, MarkedNull)
        ELSE st

\* Fault: the constant the result is compared with is taken to be 0.
refineByTruth(dest, success_nonzero, this_eq, zero, st) ==
    Refined(dest, success_nonzero # this_eq, success_nonzero = this_eq, st)

\* this_eq: the result equals K on this edge.  When it does not and K is not 0,
\* the result may be a success or a failure.
refineByGuardPolarity(dest, success_nonzero, this_eq, zero, st) ==
    IF this_eq THEN Refined(dest, success_nonzero # zero, success_nonzero = zero, st)
    ELSE Refined(dest, zero /\ success_nonzero, zero /\ ~success_nonzero, st)

refineByDestNullCheck(dest, non_null_edge, st) ==
    Refined(dest, non_null_edge, ~non_null_edge, st)

applyOutOwnerRefinement(c, true_edge, st) ==
    LET this_eq == (true_edge = c.eq)
        pending == {guard \in st.pending_out_guards : guard.result = c.name}
        guard   == CHOOSE g \in pending : TRUE
    IN  CASE c.form = "other" -> st
          [] c.form = "call" ->
                refineByGuardPolarity(c.dest, OutOwners[c.fn].success_nonzero,
                                      this_eq, c.zero, st)
          [] c.form = "result" ->
                IF pending = {} THEN st
                ELSE refineByGuardPolarity(guard.dest, guard.success_nonzero,
                                           this_eq, c.zero, st)
          [] c.form = "pointer" -> refineByDestNullCheck(c.name, ~this_eq, st)

\* The state out as it arrives at successor s of a block that ends in c: behind
\* the condition of a loop no guard is left.
AlongEdge(c, s, out) ==
    LET refined == applyOutOwnerRefinement(c, c.form # "other" /\ s = c.then, out)
    IN  IF c.loop THEN [refined EXCEPT !.pending_out_guards = {}] ELSE refined
=============================================================================
