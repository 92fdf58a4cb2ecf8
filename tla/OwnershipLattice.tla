-------------------------- MODULE OwnershipLattice --------------------------
(***************************************************************************)
(* The abstract domain of the flow analysis of src/src/cand.cpp: object    *)
(* states, storage bindings, borrows and the flow state attached to a      *)
(* program point, with the join that merges the states of two incoming     *)
(* edges (joinState, joinBinding, joinBorrowState, joinFlow).              *)
(*                                                                         *)
(* Source locations and the names kept for messages are left out: they are *)
(* joined by minimum and decide nothing but the text of a diagnostic.      *)
(***************************************************************************)
EXTENDS Naturals

CONSTANT
    kUnknownObjectId    \* UINT_MAX in the code: an unresolved target

kNullObjectId == 0

ASSUME UnknownIdAssumption == kUnknownObjectId \in Nat \ {kNullObjectId}

-----------------------------------------------------------------------------
(* Domains *)

ObjectState == {"Untracked", "Null", "Owned", "Dead", "MaybeDead", "Unknown"}
ObjectOrigin == {"Allocation", "Parameter", "Unknown"}
ParameterCapability == {"None", "Borrow", "TakeOwnership", "Destroy", "Unknown"}
PointerRelation ==
    {"Owner", "Alias", "Moved", "MaybeMoved", "Null", "MaybeNull", "Unknown"}
BorrowKind == {"Shared", "Mutable"}
BorrowState == {"Live", "Invalid", "MaybeInvalid", "Unknown"}

ObjectIds == 0 .. kUnknownObjectId

ObjectInfo == [state : ObjectState, origin : ObjectOrigin,
               capability : ParameterCapability]
StorageBinding == [object_id : ObjectIds, relation : PointerRelation,
                   produced_maybe : BOOLEAN]
BorrowInfo == [parent_object_id : ObjectIds, kind : BorrowKind,
               state : BorrowState]

\* A binding to no object at all says nothing more than Null or Unknown: what
\* the handlers build, and what makes the join a semilattice.
CoherentBinding ==
    {b \in StorageBinding :
        /\ b.object_id = kUnknownObjectId => b.relation = "Unknown"
        /\ b.object_id = kNullObjectId => b.relation \in {"Null", "Alias", "Unknown"}}

\* A std::map with keys in K and values in V.
IsMap(m, K, V) == DOMAIN m \subseteq K /\ m \in [DOMAIN m -> V]

\* FlowState over the storages S.
IsFlowState(st, S) ==
    /\ st = [storages |-> st.storages, objects |-> st.objects, borrows |-> st.borrows,
             allocation_generations   |-> st.allocation_generations,
             widened_allocation_sites |-> st.widened_allocation_sites,
             pending_out_guards       |-> st.pending_out_guards]
    /\ IsMap(st.storages, S, CoherentBinding)
    /\ IsMap(st.objects, ObjectIds \ {kNullObjectId, kUnknownObjectId}, ObjectInfo)
    /\ IsMap(st.borrows, S, BorrowInfo)
    /\ \A guard \in st.pending_out_guards : guard.dest \in S

Binding(id, relation) ==
    [object_id |-> id, relation |-> relation, produced_maybe |-> FALSE]

NullBinding == Binding(kNullObjectId, "Null")

\* StorageBinding{}: what a storage holds on a path that never bound it.
DefaultBinding == Binding(kUnknownObjectId, "Unknown")

\* The two tests every handler of the analyzer repeats on a binding.
Unresolved(b) ==
    \/ b.object_id = kUnknownObjectId
    \/ b.object_id = kNullObjectId /\ b.relation = "Unknown"

KnownNull(b) == b.object_id = kNullObjectId /\ b.relation = "Null"

\* Fault: a pointer moved on one path only passes for one that was not moved.
MovedForSure(relation) == relation = "Moved"

MovedRelation(relation) == relation \in {"Moved", "MaybeMoved"}

-----------------------------------------------------------------------------
(* Joins *)

\* Fault: an object that is dead on one path only stays Owned.
joinStateHopefully(a, b) ==
    IF {a, b} = {"Owned", "Dead"} THEN "Owned"
    ELSE IF a = b THEN a ELSE "Unknown"

joinState(a, b) ==
    CASE a = b                              -> a
      [] a # b /\ "Unknown" \in {a, b}      -> "Unknown"
      [] a # b /\ "Unknown" \notin {a, b} /\ "Untracked" \in {a, b} -> "Unknown"
      [] {a, b} = {"Null", "Owned"}         -> "Owned"
      [] OTHER                              -> "MaybeDead"

joinRelation(a, b) ==
    CASE a = b                                        -> a
      [] a # b /\ "MaybeNull" \in {a, b}              -> "MaybeNull"
      [] a # b /\ "MaybeNull" \notin {a, b}
               /\ (MovedRelation(a) \/ MovedRelation(b)) -> "MaybeMoved"
      [] OTHER                                        -> "Unknown"

\* Fault: two targets are merged into none, under the relation of the first ...
joinTargetByRelation(a, b) ==
    IF a.object_id = b.object_id
    THEN <<a.object_id, joinRelation(a.relation, b.relation)>>
    ELSE <<kUnknownObjectId, a.relation>>

\* ... or into the first one.
joinTargetFirst(a, b) ==
    IF a.object_id = b.object_id
    THEN <<a.object_id, joinRelation(a.relation, b.relation)>>
    ELSE <<a.object_id, a.relation>>

\* The object and the relation two bindings of one storage agree on.
joinTarget(a, b) ==
    CASE a.object_id = b.object_id ->
             <<a.object_id, joinRelation(a.relation, b.relation)>>
      [] /\ a.object_id # b.object_id
         /\ ~Unresolved(a) /\ ~Unresolved(b)
         /\ KnownNull(a) -> <<b.object_id, "MaybeNull">>
      [] /\ a.object_id # b.object_id
         /\ ~Unresolved(a) /\ ~Unresolved(b)
         /\ KnownNull(b) /\ ~KnownNull(a) -> <<a.object_id, "MaybeNull">>
      [] OTHER -> <<kUnknownObjectId, "Unknown">>

joinBinding(a, b) ==
    [object_id      |-> joinTarget(a, b)[1],
     relation       |-> joinTarget(a, b)[2],
     produced_maybe |-> a.produced_maybe \/ b.produced_maybe]

joinBorrowState(a, b) ==
    CASE a = b                         -> a
      [] a # b /\ "Unknown" \in {a, b} -> "Unknown"
      [] OTHER                         -> "MaybeInvalid"

joinObject(a, b) ==
    [state      |-> joinState(a.state, b.state),
     origin     |-> IF a.origin = b.origin THEN a.origin ELSE "Unknown",
     capability |-> IF a.capability = b.capability THEN a.capability
                                                   ELSE "Unknown"]

\* Only the state is joined: parent and kind stay those of the first operand.
joinBorrow(a, b) ==
    [parent_object_id |-> a.parent_object_id, kind |-> a.kind,
     state |-> joinBorrowState(a.state, b.state)]

-----------------------------------------------------------------------------
(* Flow states.  A std::map is a function whose domain is its set of keys.  *)
(* allocation_generations maps a site to 0 or 1 and is the set of the sites *)
(* that map to 1; pending_out_guards is the set of its entries.             *)

\* joinFlow copies an object or a borrow that one side does not have ...
joinCommon(f, g, Join(_, _)) ==
    [k \in DOMAIN f \cup DOMAIN g |->
        IF k \notin DOMAIN g THEN f[k]
        ELSE IF k \notin DOMAIN f THEN g[k]
        ELSE Join(f[k], g[k])]

\* ... and joins a storage that one side does not have with StorageBinding{}.
BindingOr(f, s) == IF s \in DOMAIN f THEN f[s] ELSE DefaultBinding

joinStorages(f, g) ==
    [s \in DOMAIN f \cup DOMAIN g |-> joinBinding(BindingOr(f, s), BindingOr(g, s))]

joinFlow(a, b) ==
    [storages  |-> joinStorages(a.storages, b.storages),
     objects   |-> joinCommon(a.objects, b.objects, joinObject),
     borrows   |-> joinCommon(a.borrows, b.borrows, joinBorrow),
     allocation_generations   |->
        a.allocation_generations \cup b.allocation_generations,
     widened_allocation_sites |->
        a.widened_allocation_sites \cup b.widened_allocation_sites,
     pending_out_guards |-> a.pending_out_guards \cap b.pending_out_guards]

EmptyFlow ==
    [storages |-> [s \in {} |-> DefaultBinding], objects |-> [o \in {} |-> {}],
     borrows |-> [s \in {} |-> {}], allocation_generations |-> {},
     widened_allocation_sites |-> {}, pending_out_guards |-> {}]
=============================================================================
