-------------------------- MODULE OwnershipTransfer --------------------------
(***************************************************************************)
(* What one statement of the analysed C function does to the flow state:   *)
(* the handlers of FlowAnalyzer (src/src/cand.cpp, handleFree .. processStmt). *)
(*                                                                         *)
(* A handler takes the flow state before the statement and returns the     *)
(* state after it together with the notes it hands to the Collector.  The  *)
(* expression classifiers (storageFor, isExplicitMove, isNullConstant ...) *)
(* have run: a statement already says which handler it reaches and which   *)
(* storages it names.  Pointers live in local variables; fields, array     *)
(* elements and globals either behave like one of those or are unsupported *)
(* in every profile.                                                       *)
(***************************************************************************)
EXTENDS OwnershipLattice, FunctionSummaries, Sequences, FiniteSets, SequencesExt

CONSTANTS
    Storages,                 \* the local pointer variables
    Cand1,                    \* --level=cand1
    Strict,                   \* strictOwnershipProfile(): agent, generated or cand1
    Summaries,                \* FunctionSummary of every summarised callee
    OutOwners,                \* OutOwnerContract of the callees that have one,
                              \*   empty unless --pointer-output-contracts
    Results,                  \* the local variables that receive their results
    kGenerationStride,        \* distance between two generations of a site
    kParameterObjectIdBase    \* first id of the parameter-entry objects

\* By callee name.
ASSUME SummaryAssumption ==
    \A f \in DOMAIN Summaries : Summaries[f] \in FunctionSummary

\* write: on_success or always; success: nonzero or zero; a nullable object.
OutOwnerContract ==
    [write_on_success : BOOLEAN, success_nonzero : BOOLEAN, nullable : BOOLEAN]

ASSUME OutOwnerAssumption ==
    /\ DOMAIN OutOwners \subseteq DOMAIN Summaries
    /\ \A f \in DOMAIN OutOwners : OutOwners[f] \in OutOwnerContract
    /\ DOMAIN OutOwners # {} => Cand1

ASSUME ProfileAssumption == Cand1 \in BOOLEAN /\ Strict \in BOOLEAN /\ (Cand1 => Strict)
ASSUME IdAssumption ==
    /\ kGenerationStride \in Nat \ {0}
    /\ kParameterObjectIdBase \in Nat
    /\ kParameterObjectIdBase < kUnknownObjectId

-----------------------------------------------------------------------------
(* Statements *)

Declared(e) == e.decl \in BOOLEAN
Allocates(e) == e.site \in Nat \ {0} /\ e.in_loop \in BOOLEAN
Passes(e) == e.args \in Seq([s : Storages, move : BOOLEAN])

\* A call whose result goes to no local variable, or to one whose address is
\* taken, so that what it holds says nothing about the call.
NoResult == "no_result"

\* f(<args>, &dst): the callee's last parameter is the slot of its contract.
\* escaped: the address of dst is taken elsewhere, or dst receives the result.
Produces(e) ==
    /\ e.dst \in Storages /\ Allocates(e) /\ Passes(e)
    /\ e.fn \in DOMAIN OutOwners
    /\ Len(Summaries[e.fn].params) = Len(e.args) + 1
    /\ e.result \in Results \cup {NoResult}
    /\ e.escaped \in BOOLEAN

IsStatement(e) ==
    \/ e.op = "null"   /\ e.dst \in Storages /\ Declared(e)
    \/ e.op = "alloc"  /\ e.dst \in Storages /\ Declared(e) /\ Allocates(e)
    \/ e.op = "copy"   /\ {e.dst, e.src} \subseteq Storages /\ Declared(e)
                       /\ e.own \in BOOLEAN
    \/ e.op = "move"   /\ {e.dst, e.src} \subseteq Storages /\ Declared(e)
    \/ e.op = "borrow" /\ {e.dst, e.src} \subseteq Storages /\ e.borrow \in BorrowKind
    \/ e.op = "result" /\ e.dst \in Storages /\ Declared(e) /\ Allocates(e) /\ Passes(e)
                       /\ e.borrow \in BorrowKind \cup {"none"}
    \/ e.op = "return" /\ e.src \in Storages /\ e.effect \in ReturnEffect
    \/ e.op = "free"   /\ e.src \in Storages
    \/ e.op = "use"    /\ e.src \in Storages /\ e.point \in BOOLEAN
    \/ e.op = "call"   /\ Passes(e) /\ e.fn \notin DOMAIN OutOwners
    \/ e.op = "produce" /\ Produces(e)
    \/ e.op = "set"    /\ e.result \in Results
    \/ e.op = "step"   /\ e.dst \in Storages /\ e.point \in BOOLEAN

\* What a call is passed, and what an assignment is to; a declaration
\* introduces a variable and does not count as one.
Passed(e) == {e.args[i].s : i \in DOMAIN e.args}
Assigned(e) == IF e.decl THEN {} ELSE {e.dst}

-----------------------------------------------------------------------------
(* Notes and results *)

NoteKind == {"finding", "unsupported", "borrow"}

IsNote(n) == n.kind \in NoteKind /\ (n.kind = "borrow" => n.id \in Storages)

Finding(id, certainty) ==
    {[kind |-> "finding", id |-> id, certainty |-> certainty]}
Unsupported(id) ==
    {[kind |-> "unsupported", id |-> id, certainty |-> "none"]}
\* createBorrow registers the storage in known_borrow_storages_.
Registered(storage) ==
    {[kind |-> "borrow", id |-> storage, certainty |-> "none"]}

DefiniteIf(P) == IF P THEN "definite" ELSE "possible"
PossibleIf(P) == IF P THEN "possible" ELSE "definite"

Result(st, notes) == [st |-> st, notes |-> notes]

\* r, with notes made besides.
Noting(notes, r) == Result(r.st, notes \cup r.notes)

-----------------------------------------------------------------------------
(* Reading and updating a flow state *)

\* m[k] = v on a std::map.
With(m, k, v) == [x \in DOMAIN m \cup {k} |-> IF x = k THEN v ELSE m[x]]

Bind(st, s, b) == [st EXCEPT !.storages = With(@, s, b)]

SetState(st, o, state) == [st EXCEPT !.objects[o].state = state]

Bound(st, s) == s \in DOMAIN st.storages
Borrowed(st, s) == s \in DOMAIN st.borrows

\* objectFor(binding) # nullptr
HasObject(st, b) ==
    /\ b.object_id \notin {kNullObjectId, kUnknownObjectId}
    /\ b.object_id \in DOMAIN st.objects

\* containsTrackedStorage of a variable: bound, and not to a known NULL.
Tracked(st, s) == Bound(st, s) /\ ~KnownNull(st.storages[s])

StateOf(st, b) == st.objects[b.object_id].state

\* A parameter whose declared effect does not hand the object to the callee.
ParameterWithout(st, b, capability) ==
    /\ st.objects[b.object_id].origin = "Parameter"
    /\ st.objects[b.object_id].capability # capability

BorrowedParameter(st, b) ==
    /\ st.objects[b.object_id].origin = "Parameter"
    /\ st.objects[b.object_id].capability = "Borrow"

LiveBorrows(st, parent) ==
    {s \in DOMAIN st.borrows : /\ st.borrows[s].parent_object_id = parent
                               /\ st.borrows[s].state = "Live"}

-----------------------------------------------------------------------------
(* Borrows *)

\* Fault: a shared borrow is granted whatever the others are.
ConflictOfNew(kind, other) == kind = "Mutable"

Conflict(kind, other) == "Mutable" \in {kind, other}

createBorrow(s, parent, kind, st) ==
    LET conflicting == {x \in LiveBorrows(st, parent) \ {s} :
                            Conflict(kind, st.borrows[x].kind)}
    IN  IF \/ parent = kUnknownObjectId
           \/ parent \notin DOMAIN st.objects
           \/ st.objects[parent].state \in {"Dead", "MaybeDead"}
        THEN Result(st, Unsupported("borrow-unknown-parent"))
        ELSE IF conflicting # {}
        THEN Result(st, Finding("CAND-B004", "definite"))
        ELSE Result([st EXCEPT !.borrows =
                        With(@, s, [parent_object_id |-> parent, kind |-> kind,
                                    state |-> "Live"])],
                    Registered(s))

invalidateBorrows(parent, st) ==
    [st EXCEPT !.borrows =
        [s \in DOMAIN @ |-> IF s \in LiveBorrows(st, parent)
                            THEN [@[s] EXCEPT !.state = "Invalid"] ELSE @[s]]]

\* live: the borrow storages still used after the statement.
expireBorrowUses(live, st) ==
    [st EXCEPT !.borrows = [s \in DOMAIN @ \cap live |-> @[s]]]

\* The notes of checkBorrowAccess; it stops checkAccess when it has any.
checkBorrowAccess(s, st) ==
    IF ~Borrowed(st, s) THEN {}
    ELSE LET borrow == st.borrows[s]
             parent == borrow.parent_object_id
         IN  IF \/ borrow.state \in {"Invalid", "MaybeInvalid"}
                \/ /\ parent \in DOMAIN st.objects
                   /\ st.objects[parent].state \in {"Dead", "MaybeDead"}
             THEN Finding("CAND-B002", "definite")
             ELSE IF borrow.state = "Unknown"
             THEN Unsupported("unknown-borrow-state")
             ELSE {}

\* borrowLiveAfter is asked about an operand, which is never a recorded
\* program point, so every borrow counts as live here.
checkMutableOwnerAccess(s, st) ==
    IF /\ ~Borrowed(st, s)
       /\ Bound(st, s)
       /\ st.storages[s].relation = "Owner"
       /\ \E x \in LiveBorrows(st, st.storages[s].object_id) :
             st.borrows[x].kind = "Mutable"
    THEN Finding("CAND-B004", "definite") ELSE {}

OwnerDestroyed(parent, live, st) ==
    IF LiveBorrows(st, parent) \cap live # {}
    THEN Finding("CAND-B001", "definite") ELSE {}

-----------------------------------------------------------------------------
(* Reading through a pointer *)

checkTarget(s, st) ==
    LET b == st.storages[s]
    IN  CASE ~Bound(st, s) -> {}
          [] Bound(st, s) /\ b.produced_maybe ->
                Unsupported("unrefined-out-owner-use")
          [] Bound(st, s) /\ ~b.produced_maybe /\ Unresolved(b) ->
                Unsupported("ambiguous-alias-target")
          [] Bound(st, s) /\ ~b.produced_maybe /\ KnownNull(b) -> {}
          [] OTHER ->
                IF ~HasObject(st, b)
                THEN Unsupported("access-unknown-ownership-state")
                ELSE IF MovedRelation(b.relation)
                THEN Finding("CAND-O001", PossibleIf(b.relation = "MaybeMoved"))
                ELSE IF StateOf(st, b) \in {"Dead", "MaybeDead"}
                THEN Finding("CAND-T002",
                        DefiniteIf(StateOf(st, b) = "Dead" /\ b.relation # "MaybeNull"))
                ELSE IF StateOf(st, b) = "Unknown"
                THEN Unsupported("access-unknown-ownership-state")
                ELSE {}

checkAccess(s, st) ==
    LET borrow == checkBorrowAccess(s, st)
    IN  IF borrow # {} THEN borrow
        ELSE checkMutableOwnerAccess(s, st) \cup checkTarget(s, st)

-----------------------------------------------------------------------------
(* Destroying an object *)

\* Fault: the borrows die and their owner does not.
DestroyedForBorrows(b, live, st) ==
    IF StateOf(st, b) = "Owned"
    THEN Result(invalidateBorrows(b.object_id, st), OwnerDestroyed(b.object_id, live, st))
    ELSE Result(st, Finding("CAND-T003", DefiniteIf(StateOf(st, b) = "Dead")))

\* The outcomes handleFree and destroyBinding share once the storage is known
\* to name one tracked object: what the destruction does to its state.  (No
\* handler puts an object in state Null, which free() would accept.)
Destroyed(b, live, st) ==
    CASE StateOf(st, b) = "Owned" ->
            Result(invalidateBorrows(b.object_id, SetState(st, b.object_id, "Dead")),
                   OwnerDestroyed(b.object_id, live, st))
      [] StateOf(st, b) \in {"Dead", "MaybeDead"} ->
            Result(st, OwnerDestroyed(b.object_id, live, st)
                       \cup Finding("CAND-T003", DefiniteIf(StateOf(st, b) = "Dead")))
      [] OTHER ->
            Result(st, OwnerDestroyed(b.object_id, live, st)
                       \cup Unsupported("destroy-unknown-ownership-state"))

\* free() of a pointer that may be NULL destroys the object on some paths only.
FreedMaybeNull(b, live, st) ==
    CASE StateOf(st, b) = "Owned" ->
            Result(SetState(st, b.object_id, "MaybeDead"),
                   OwnerDestroyed(b.object_id, live, st))
      [] StateOf(st, b) \in {"Dead", "MaybeDead"} ->
            Result(st, OwnerDestroyed(b.object_id, live, st)
                       \cup Finding("CAND-T003", "possible"))
      [] OTHER -> Destroyed(b, live, st)

MovedDestroyed(b) ==
    Finding("CAND-O003", PossibleIf(b.relation = "MaybeMoved"))

handleFree(s, live, st) ==
    LET b == st.storages[s]
    IN  IF ~Bound(st, s) THEN Result(st, Unsupported("free-untracked-pointer"))
        ELSE IF b.produced_maybe
        THEN Result(st, Unsupported("unrefined-out-owner-use"))
        ELSE IF KnownNull(b) THEN Result(st, {})
        ELSE IF b.object_id \in {kUnknownObjectId, kNullObjectId}
        THEN Result(st, Unsupported("ambiguous-alias-target"))
        ELSE IF ~HasObject(st, b)
        THEN Result(st, Unsupported("free-unknown-ownership-state"))
        ELSE IF BorrowedParameter(st, b)
        THEN Result(st, Finding("CAND-O006", "definite"))
        ELSE IF MovedRelation(b.relation)
        THEN Result(st, OwnerDestroyed(b.object_id, live, st) \cup MovedDestroyed(b))
        ELSE IF b.relation = "MaybeNull"
        THEN FreedMaybeNull(b, live, st)
        ELSE Destroyed(b, live, st)

\* A call of a function that destroys its argument.  Unlike handleFree it
\* reports a moved-from argument before the live borrows, and it has no case
\* of its own for a pointer that may be NULL.
destroyBinding(s, live, st) ==
    LET b == st.storages[s]
    IN  IF ~Bound(st, s) THEN Result(st, Unsupported("destroy-untracked-pointer"))
        ELSE IF KnownNull(b) THEN Result(st, {})
        ELSE IF b.object_id \in {kUnknownObjectId, kNullObjectId}
        THEN Result(st, Unsupported("ambiguous-alias-target"))
        ELSE IF ~HasObject(st, b)
        THEN Result(st, Unsupported("destroy-unknown-ownership-state"))
        ELSE IF BorrowedParameter(st, b)
        THEN Result(st, Finding("CAND-O006", "definite"))
        ELSE IF MovedRelation(b.relation)
        THEN Result(st, MovedDestroyed(b))
        ELSE Destroyed(b, live, st)

-----------------------------------------------------------------------------
(* Transferring ownership *)

NoDestination == "none"

\* A live object that a move into dest would leave without an owner.
Overwritten(dest, st) ==
    /\ dest # NoDestination
    /\ Bound(st, dest)
    /\ HasObject(st, st.storages[dest])
    /\ StateOf(st, st.storages[dest]) \in {"Owned", "MaybeDead", "Unknown"}

\* What moveBinding finds wrong with moving the tracked object of src.
MoveViolation(src, dest, st) ==
    LET b == st.storages[src]
    IN  CASE MovedRelation(b.relation) ->
                Finding("CAND-O002", PossibleIf(b.relation = "MaybeMoved"))
          [] ~MovedRelation(b.relation) /\ StateOf(st, b) \in {"Dead", "MaybeDead"} ->
                Finding("CAND-O003", PossibleIf(StateOf(st, b) = "MaybeDead"))
          [] ~MovedRelation(b.relation) /\ StateOf(st, b) \notin {"Dead", "MaybeDead"}
             /\ (b.relation # "Owner" \/ dest = src) ->
                Finding("CAND-O004", "definite")
          [] ~MovedRelation(b.relation) /\ StateOf(st, b) \notin {"Dead", "MaybeDead"}
             /\ b.relation = "Owner" /\ dest # src /\ Overwritten(dest, st) ->
                Finding("CAND-O004",
                    PossibleIf(StateOf(st, st.storages[dest]) = "MaybeDead"))
          [] OTHER -> {}

\* CAND_MOVE(src), into dest or (dest = NoDestination) into a call, which
\* reports what it cannot resolve: a declaration or an assignment does not.
moveBinding(src, dest, st) ==
    LET b       == st.storages[src]
        in_call == dest = NoDestination
        InCall(kind) == IF in_call THEN Unsupported(kind) ELSE {}
    IN  IF ~Bound(st, src) \/ b.object_id = kUnknownObjectId
        THEN Result(st, InCall("move-unknown-ownership-state"))
        ELSE IF Borrowed(st, src)
        THEN Result(st, Unsupported("move-borrowed-storage"))
        ELSE IF KnownNull(b)
        THEN Result(IF in_call THEN st ELSE Bind(st, dest, NullBinding), {})
        ELSE IF b.object_id \notin DOMAIN st.objects
        THEN Result(st, InCall("move-unknown-ownership-state"))
        ELSE IF ParameterWithout(st, b, "TakeOwnership")
        THEN Result(st, InCall("parameter-capability-transfer"))
        ELSE IF MoveViolation(src, dest, st) # {}
        THEN Result(st, MoveViolation(src, dest, st))
        ELSE LET moved == Bind(st, src, [b EXCEPT !.relation = "Moved"])
             IN  Result(IF in_call THEN moved
                        ELSE Bind(moved, dest, Binding(b.object_id, "Owner")), {})

\* An argument in a consuming position; from_body: the callee's summary was
\* verified from its body.
transferBinding(s, explicit_move, from_body, st) ==
    LET b == st.storages[s]
        boundary == IF from_body THEN Unsupported("missing-explicit-transfer") ELSE {}
    IN  IF ~Bound(st, s) \/ b.object_id = kUnknownObjectId
        THEN Result(st, Unsupported("transfer-unknown-ownership-state"))
        ELSE IF KnownNull(b) THEN Result(st, {})
        ELSE IF /\ b.object_id \in DOMAIN st.objects
                /\ ParameterWithout(st, b, "TakeOwnership")
        THEN Result(st, Unsupported("parameter-capability-transfer"))
        ELSE IF explicit_move THEN moveBinding(s, NoDestination, st)
        ELSE IF Strict
        THEN Result(st, IF b.object_id \in DOMAIN st.objects
                        THEN Finding("CAND-O005", "definite")
                        ELSE Unsupported("missing-explicit-transfer"))
        ELSE IF b.object_id \notin DOMAIN st.objects
        THEN Result(st, boundary \cup Unsupported("transfer-unknown-ownership-state"))
        ELSE IF StateOf(st, b) # "Owned"
        THEN Result(st, boundary \cup Unsupported("transfer-unknown-ownership-state"))
        ELSE Result(SetState(st, b.object_id, "Unknown"), boundary)

-----------------------------------------------------------------------------
(* Allocation *)

\* The division is the code's guard against the overflow of the product.
objectIdForAllocation(site, generation) ==
    LET id == site + generation * kGenerationStride
    IN  IF /\ id < kParameterObjectIdBase
           /\ generation = 0 \/ site <= kUnknownObjectId \div kGenerationStride
        THEN id ELSE kUnknownObjectId

\* Fault: only borrows are taken to keep an object of the site in reach.
retainedByBorrow(site, dest, st) ==
    \E s \in DOMAIN st.borrows : st.borrows[s].parent_object_id % kGenerationStride = site

hasRetainedGenerationReference(site, dest, st) ==
    LET belongsToSite(id) == /\ id \notin {kNullObjectId, kUnknownObjectId}
                             /\ id % kGenerationStride = site
    IN  \/ \E s \in DOMAIN st.storages \ {dest} :
              belongsToSite(st.storages[s].object_id)
        \/ \E s \in DOMAIN st.borrows :
              belongsToSite(st.borrows[s].parent_object_id)

\* The site is out of generations: its objects can no longer be told apart.
Widened(dest, st) == Result(Bind(st, dest, DefaultBinding),
                            Unsupported("loop-heap-instance-widening"))

\* The object id of a site is reused: bringing it forth again makes the object
\* Owned again, whatever it was.
Born(id, st) ==
    IF id \in DOMAIN st.objects THEN SetState(st, id, "Owned")
    ELSE [st EXCEPT !.objects =
            With(@, id, [state |-> "Owned", origin |-> "Allocation", capability |-> "None"])]

\* A fresh object of the site in dest.
Allocated(dest, site, generation, st) ==
    LET id == objectIdForAllocation(site, generation)
    IN  IF id = kUnknownObjectId
        THEN Result(Bind(st, dest, DefaultBinding),
                    Unsupported("allocation-object-id-exhausted"))
        ELSE Result(Born(id, Bind(st, dest, Binding(id, "Owner"))), {})

bindAllocation(dest, site, in_loop, st) ==
    LET generation == IF site \in st.allocation_generations THEN 1 ELSE 0
        retained   == hasRetainedGenerationReference(site, dest, st)
    IN  IF ~Cand1
        THEN LET a == Allocated(dest, site, generation, st)
             IN  Result(a.st, a.notes \cup
                     IF in_loop THEN Unsupported("loop-allocation-site") ELSE {})
        ELSE IF site \in st.widened_allocation_sites THEN Widened(dest, st)
        ELSE IF retained /\ generation = 1
        THEN Widened(dest, [st EXCEPT !.widened_allocation_sites = @ \cup {site}])
        ELSE IF retained
        THEN Allocated(dest, site, 1,
                       [st EXCEPT !.allocation_generations = @ \cup {site}])
        ELSE Allocated(dest, site, generation, st)

\* dest holds what call e returned.  A call of a function without a summary
\* falls through to the same obligation, and leaves dest as it was.
bindSummaryReturn(dest, e, st) ==
    LET summary == Summaries[e.fn]
        unknown == Result(st, Unsupported("unknown-pointer-return-ownership"))
        i       == summary.return_borrow_arg
    IN  IF e.fn \notin DOMAIN Summaries THEN unknown
        ELSE IF summary.conflict \/ summary.origin = "Unknown" THEN unknown
        ELSE IF summary.return_effect = "Owned"
        THEN bindAllocation(dest, e.site, e.in_loop, st)
        ELSE IF /\ summary.return_effect = "BorrowFromArg"
                /\ i \in DOMAIN e.args
                /\ Bound(st, e.args[i].s)
                /\ st.storages[e.args[i].s].object_id # kUnknownObjectId
        THEN LET parent == st.storages[e.args[i].s].object_id
             IN  createBorrow(dest, parent, "Shared",
                              Bind(st, dest, Binding(parent, "Alias")))
        ELSE unknown

-----------------------------------------------------------------------------
(* Assignments and declarations.  e.decl says which of the two it is.       *)

\* An assignment of a fresh object over a live one; a declaration introduces
\* a fresh variable and is not checked.
OwnerOverwrite(e, st) ==
    IF ~e.decl /\ Overwritten(e.dst, st)
    THEN Unsupported("tracked-owner-overwrite") ELSE {}

assignAllocation(e, st) ==
    Noting(OwnerOverwrite(e, st), bindAllocation(e.dst, e.site, e.in_loop, st))

\* A declaration of an annotated borrow of the result: bindSummaryReturn, which
\* led to r, has made it a shared one; CAND_BORROW_MUT makes it again as mutable.
borrowResult(e, r) ==
    LET without == [r.st EXCEPT !.borrows = [s \in DOMAIN @ \ {e.dst} |-> @[s]]]
        again   == createBorrow(e.dst, r.st.storages[e.dst].object_id, "Mutable", without)
    IN  IF e.borrow = "Mutable" /\ Borrowed(r.st, e.dst)
        THEN Noting(r.notes, again)
        ELSE r

assignResult(e, st) ==
    LET summarised == e.fn \in DOMAIN Summaries
        bound      == bindSummaryReturn(e.dst, e, st)
    IN  IF ~(e.decl /\ e.borrow # "none")
        THEN Noting(IF summarised THEN OwnerOverwrite(e, st) ELSE {}, bound)
        ELSE IF summarised /\ Summaries[e.fn].return_effect = "BorrowFromArg"
        THEN borrowResult(e, bound)
        ELSE Result(st, Unsupported("borrow-unknown-parent"))

\* Fault: the copy of an owner is a second owner.
assignCopyOfOwner(e, st) ==
    IF ~Bound(st, e.src) \/ Unresolved(st.storages[e.src])
    THEN Result(st, Unsupported("ambiguous-alias-target"))
    ELSE Result(Bind(st, e.dst, st.storages[e.src]), {})

\* q = p.  A moved-from source stays moved-from in its copy; every other
\* relation, MaybeNull included, becomes Alias.  e.own: the declaration is
\* annotated CAND_OWN and wanted a move.
assignCopy(e, st) ==
    LET b        == st.storages[e.src]
        relation == IF MovedRelation(b.relation) THEN b.relation ELSE "Alias"
    IN  IF ~Bound(st, e.src) \/ Unresolved(b)
        THEN Result(st, Unsupported("ambiguous-alias-target"))
        ELSE IF b.object_id = kNullObjectId
        THEN Result(Bind(st, e.dst, NullBinding), {})
        ELSE Result(Bind(st, e.dst, Binding(b.object_id, relation)),
                    IF e.own /\ b.object_id \in DOMAIN st.objects
                    THEN Finding("CAND-O004", "definite") ELSE {})

\* A declaration annotated CAND_BORROW or CAND_BORROW_MUT.
declareBorrow(e, st) ==
    LET parent == st.storages[e.src].object_id
    IN  IF /\ Bound(st, e.src)
           /\ parent \notin {kNullObjectId, kUnknownObjectId}
        THEN createBorrow(e.dst, parent, e.borrow, Bind(st, e.dst, Binding(parent, "Alias")))
        ELSE Result(st, Unsupported("borrow-unknown-parent"))

-----------------------------------------------------------------------------
(* Calls *)

\* One argument of a call of a summarised function, by the effect the summary
\* gives its parameter.
passArgument(arg, effect, from_body, live, st) ==
    CASE effect = "Destroy" -> destroyBinding(arg.s, live, st)
      [] effect = "Borrow" ->
            Result(st, IF arg.move THEN Unsupported("move-to-non-consuming-parameter")
                                   ELSE checkAccess(arg.s, st))
      [] effect = "TakeOwnership" /\ (arg.move \/ Tracked(st, arg.s)) ->
            transferBinding(arg.s, arg.move, from_body, st)
      [] effect \in {"None", "Unknown"} /\ arg.move ->
            Result(st, Unsupported("move-to-non-consuming-parameter"))
      [] effect = "Unknown" /\ ~arg.move /\ Tracked(st, arg.s) ->
            Result(st, Unsupported("unknown-call-with-tracked-pointer"))
      [] OTHER -> Result(st, {})

\* Arguments a callee receives outside every known effect: all those of an
\* unknown callee, or the one in a position beyond the summary's parameters.
escapingArguments(args, st) ==
    IF \E a \in args : Tracked(st, a.s)
    THEN Unsupported("unknown-call-with-tracked-pointer") \cup
         IF \E a \in args : Borrowed(st, a.s)
         THEN Unsupported("unknown-call-borrow-retention") ELSE {}
    ELSE {}

Argument(args, i) == args[i]

\* The arguments in order: element n is the result of passing the first n.
passArguments(args, summary, live, st) ==
    LET passed[n \in 0 .. Len(args)] ==
            IF n = 0 THEN Result(st, {})
            ELSE LET before == passed[n - 1]
                     r == passArgument(args[n], summary.params[n],
                                       summary.origin = "BodyVerified", live, before.st)
                 IN  Noting(before.notes, r)
    IN  passed

\* Arguments in positions beyond the summary's parameters, after those of r.
passBeyond(beyond, r) ==
    Noting(UNION {escapingArguments({a}, r.st) : a \in beyond}, r)

handleCall(e, live, st) ==
    LET summary   == Summaries[e.fn]
        positions == 1 .. Len(e.args)
        beyond    == {Argument(e.args, i) : i \in positions \ DOMAIN summary.params}
        last      == IF Len(e.args) < Len(summary.params) THEN Len(e.args)
                                                          ELSE Len(summary.params)
        covered   == passArguments(e.args, summary, live, st)[last]
    IN  IF e.fn \notin DOMAIN Summaries
        THEN Result(st, escapingArguments({Argument(e.args, i) : i \in positions}, st))
        ELSE IF summary.conflict THEN Result(st, Unsupported("contract-body-conflict"))
        ELSE IF summary.return_effect = "Unknown"
        THEN Result(st, Unsupported("unknown-pointer-return-ownership"))
        ELSE passBeyond(beyond, covered)

-----------------------------------------------------------------------------
(* Calls that hand an object out through a slot: f(<args>, &dst)            *)

\* A slot that is only written on success must hold NULL, so that the other
\* edge still knows what it holds; any other slot must hold no object.
acceptsOutOwnerProduce(e, st) ==
    /\ ~e.in_loop
    /\ ~e.escaped
    /\ IF OutOwners[e.fn].write_on_success
       THEN Bound(st, e.dst) /\ st.storages[e.dst].relation = "Null"
       ELSE Bound(st, e.dst) => st.storages[e.dst].relation = "Null"
                                \/ MovedRelation(st.storages[e.dst].relation)

\* The object is at hand if the slot is always written and never with NULL.
\* Otherwise the binding carries produced_maybe until a guard refines it.
applyOutOwnerProduce(e, st) ==
    LET contract == OutOwners[e.fn]
        marked   == contract.write_on_success \/ contract.nullable
        id       == objectIdForAllocation(e.site, 0)
        binding  == [object_id      |-> id,
                     relation       |-> IF marked THEN "MaybeNull" ELSE "Owner",
                     produced_maybe |-> marked]
        unknown  == [object_id |-> id, relation |-> "Unknown", produced_maybe |-> TRUE]
    IN  IF id = kUnknownObjectId
        THEN Result(Bind(st, e.dst, unknown), Unsupported("allocation-object-id-exhausted"))
        ELSE Result(Born(id, Bind(st, e.dst, binding)), {})

\* The result of a call that may leave its slot alone testifies about it.
RecordGuard(e, st) ==
    IF OutOwners[e.fn].write_on_success /\ e.result # NoResult
    THEN [st EXCEPT !.pending_out_guards = @ \cup
            {[result |-> e.result, dest |-> e.dst, call |-> e.site,
              success_nonzero |-> OutOwners[e.fn].success_nonzero]}]
    ELSE st

Recorded(e, r) == Result(RecordGuard(e, r.st), r.notes)

\* The slot, after the other arguments, which led to r.  The effect of its own
\* parameter is Unknown.
passSlot(e, r) ==
    LET unknown  == IF Tracked(r.st, e.dst)
                    THEN Unsupported("unknown-call-with-tracked-pointer") ELSE {}
        produced == applyOutOwnerProduce(e, r.st)
        recorded == Recorded(e, produced)
    IN  Noting(r.notes \cup unknown, recorded)

handleProduce(e, live, st) ==
    LET summary  == Summaries[e.fn]
        siblings == passArguments(e.args, summary, live, st)[Len(e.args)]
        passed   == {Argument(e.args, i) : i \in 1 .. Len(e.args)}
    IN  IF ~acceptsOutOwnerProduce(e, st)
        THEN Result(st, Unsupported("unknown-call-with-pointer-output") \cup
                        escapingArguments(passed \cup {[s |-> e.dst, move |-> FALSE]}, st))
        ELSE IF summary.conflict THEN Result(st, Unsupported("contract-body-conflict"))
        ELSE IF summary.return_effect = "Unknown"
        THEN Result(st, Unsupported("unknown-pointer-return-ownership"))
        ELSE passSlot(e, siblings)

\* Fault: a guard outlives the result it was recorded for.
KillsOnWriting(e, guard) ==
    \/ e.op \in {"call", "produce"} /\ guard.dest \in Passed(e)
    \/ e.op \in {"null", "alloc", "copy", "move", "result"} /\ guard.dest \in Assigned(e)
    \/ e.op \in {"produce", "step"} /\ guard.dest = e.dst

\* A guard is void once its destination is written or passed to a callee, or
\* once its result holds something else.
Kills(e, guard) ==
    \/ e.op \in {"call", "produce"} /\ guard.dest \in Passed(e)
    \/ e.op \in {"null", "alloc", "copy", "move", "result"} /\ guard.dest \in Assigned(e)
    \/ e.op \in {"produce", "step"} /\ guard.dest = e.dst
    \/ e.op \in {"produce", "set"} /\ guard.result = e.result

killPendingGuards(e, st) ==
    [st EXCEPT !.pending_out_guards = {guard \in @ : ~Kills(e, guard)}]

\* A pointer that still carries the mark may not be passed on.
noteUnrefinedOutOwnerUsesInArgs(e, st) ==
    LET refused == e.op = "produce" /\ ~acceptsOutOwnerProduce(e, st)
        passed  == Passed(e) \cup IF refused THEN {e.dst} ELSE {}
    IN  IF \E s \in passed : Bound(st, s) /\ st.storages[s].produced_maybe
        THEN Unsupported("unrefined-out-owner-use") ELSE {}

-----------------------------------------------------------------------------
(* Returns *)

\* return p; in a function whose own summary promises e.effect.
handleReturn(e, st) ==
    LET b == st.storages[e.src]
        tracked_return == Unsupported("tracked-pointer-return")
    IN  IF Borrowed(st, e.src) /\ e.effect # "BorrowFromArg"
        THEN Finding("CAND-B003", "definite")
        ELSE IF ~Tracked(st, e.src) THEN {}
        ELSE CASE e.effect = "BorrowFromArg" ->
                    IF ~HasObject(st, b) THEN Unsupported("return-unknown-ownership-state")
                    ELSE IF StateOf(st, b) = "Unknown"
                    THEN Unsupported("return-unknown-ownership-state")
                    ELSE IF StateOf(st, b) \in {"Dead", "MaybeDead"}
                    THEN Finding("CAND-T002", DefiniteIf(StateOf(st, b) = "Dead"))
                    ELSE {}
               [] e.effect = "Owned" ->
                    IF b.object_id \notin DOMAIN st.objects THEN tracked_return
                    ELSE IF StateOf(st, b) = "Owned" THEN {}
                    ELSE tracked_return
               [] OTHER -> tracked_return

-----------------------------------------------------------------------------
(* One statement.  Reads, frees and calls end with expireBorrowUses, which  *)
(* expires nothing at an expression that is no element of the control-flow  *)
(* graph (e.point is FALSE): borrow_live_after_stmt_ does not know it.      *)

Expiring(live, r) == Result(expireBorrowUses(live, r.st), r.notes)

handleStmt(e, live, st) ==
    CASE e.op = "null"   -> Result(Bind(st, e.dst, NullBinding), {})
      [] e.op = "alloc"  -> assignAllocation(e, st)
      [] e.op = "copy"   -> assignCopy(e, st)
      [] e.op = "move"   -> moveBinding(e.src, e.dst, st)
      [] e.op = "borrow" -> declareBorrow(e, st)
      [] e.op = "result" -> assignResult(e, st)
      [] e.op = "return" -> Result(st, handleReturn(e, st))
      [] e.op = "free"   -> Expiring(live, handleFree(e.src, live, st))
      [] e.op = "use"    -> Expiring(IF e.point THEN live ELSE Storages,
                                     Result(st, checkAccess(e.src, st)))
      [] e.op = "call"   -> Expiring(live, handleCall(e, live, st))
      [] e.op = "produce" -> Expiring(live, handleProduce(e, live, st))
      [] e.op = "set"    -> Result(st, {})
      [] e.op = "step"   ->   \* p++ and its kind, and p += n, which is no point
            Expiring(IF e.point THEN live ELSE Storages,
                     Result(Bind(st, e.dst, DefaultBinding),
                            Unsupported("pointer-arithmetic-reassignment")))

processStmt(e, live, st) ==
    LET r == handleStmt(e, live, killPendingGuards(e, st))
    IN  IF e.op \in {"call", "produce"}
        THEN Noting(noteUnrefinedOutOwnerUsesInArgs(e, st), r)
        ELSE r
=============================================================================
