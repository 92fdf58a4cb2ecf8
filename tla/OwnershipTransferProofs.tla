---------------------- MODULE OwnershipTransferProofs ----------------------
(***************************************************************************)
(* Every handler of the flow analysis maps a flow state over the declared  *)
(* storages to one, and hands the Collector notes of the known kinds: one  *)
(* lemma per handler, up to a whole block of statements (transfer).        *)
(***************************************************************************)
EXTENDS ProgramTransfer, FiniteRecursion, TLAPS

FlowOK(st) == IsFlowState(st, Storages)
NotesOK(ns) == \A n \in ns : IsNote(n)
ResultOK(r) == FlowOK(r.st) /\ NotesOK(r.notes)

-----------------------------------------------------------------------------
(* Notes *)

LEMMA NotesFacts ==
    /\ NotesOK({})
    /\ \A id, certainty : NotesOK(Finding(id, certainty))
    /\ \A id : NotesOK(Unsupported(id))
    /\ \A s \in Storages : NotesOK(Registered(s))
    /\ \A ns, ms : NotesOK(ns) /\ NotesOK(ms) => NotesOK(ns \cup ms)
  BY DEF NotesOK, IsNote, NoteKind, Finding, Unsupported, Registered

-----------------------------------------------------------------------------
(* Reading and updating a flow state *)

LEMMA BindingFacts ==
    ASSUME NEW st, FlowOK(st), NEW s, Bound(st, s)
    PROVE  s \in Storages /\ st.storages[s] \in CoherentBinding
  BY DEF FlowOK, IsFlowState, IsMap, Bound

LEMMA NewBindings ==
    /\ NullBinding \in CoherentBinding
    /\ DefaultBinding \in CoherentBinding
    /\ \A id \in ObjectIds \ {kNullObjectId, kUnknownObjectId} :
          \A relation \in PointerRelation : Binding(id, relation) \in CoherentBinding
    /\ \A id \in ObjectIds \ {kUnknownObjectId} : Binding(id, "Alias") \in CoherentBinding
  BY UnknownIdAssumption
     DEF NullBinding, DefaultBinding, Binding, CoherentBinding, StorageBinding,
         PointerRelation, ObjectIds, kNullObjectId

LEMMA BindOK ==
    ASSUME NEW st, FlowOK(st), NEW s \in Storages, NEW b \in CoherentBinding
    PROVE  /\ FlowOK(Bind(st, s, b))
           /\ Bind(st, s, b).objects = st.objects
           /\ Bind(st, s, b).borrows = st.borrows
           /\ Bound(Bind(st, s, b), s)
           /\ Bind(st, s, b).storages[s] = b
<1>1. IsMap(With(st.storages, s, b), Storages, CoherentBinding)
  BY DEF FlowOK, IsFlowState, IsMap, With
<1>2. /\ Bind(st, s, b) = [st EXCEPT !.storages = With(st.storages, s, b)]
      /\ With(st.storages, s, b)[s] = b
      /\ s \in DOMAIN With(st.storages, s, b)
  BY DEF Bind, With
<1>3. QED
  BY <1>1, <1>2 DEF FlowOK, IsFlowState, Bound

LEMMA SetStateOK ==
    ASSUME NEW st, FlowOK(st), NEW o \in DOMAIN st.objects, NEW state \in ObjectState
    PROVE  FlowOK(SetState(st, o, state))
<1> DEFINE objects == [st.objects EXCEPT ![o].state = state]
<1>1. SetState(st, o, state) = [st EXCEPT !.objects = objects]
  BY DEF SetState, FlowOK, IsFlowState
<1>2. IsMap(objects, ObjectIds \ {kNullObjectId, kUnknownObjectId}, ObjectInfo)
  BY DEF FlowOK, IsFlowState, IsMap, ObjectInfo
<1> HIDE DEF objects
<1>3. QED
  BY <1>1, <1>2 DEF FlowOK, IsFlowState

LEMMA NewObjectOK ==
    ASSUME NEW st, FlowOK(st), NEW o \in ObjectIds \ {kNullObjectId, kUnknownObjectId},
           NEW object \in ObjectInfo
    PROVE  FlowOK([st EXCEPT !.objects = With(@, o, object)])
<1>1. IsMap(With(st.objects, o, object), ObjectIds \ {kNullObjectId, kUnknownObjectId},
            ObjectInfo)
  BY DEF FlowOK, IsFlowState, IsMap, With
<1>2. QED
  BY <1>1 DEF FlowOK, IsFlowState

LEMMA BorrowsOK ==
    ASSUME NEW st, FlowOK(st), NEW borrows, IsMap(borrows, Storages, BorrowInfo)
    PROVE  FlowOK([st EXCEPT !.borrows = borrows])
  BY DEF FlowOK, IsFlowState

-----------------------------------------------------------------------------
(* Borrows *)

LEMMA CreateBorrowOK ==
    ASSUME NEW st, FlowOK(st), NEW s \in Storages, NEW parent, NEW kind \in BorrowKind
    PROVE  ResultOK(createBorrow(s, parent, kind, st))
<1> DEFINE borrow == [parent_object_id |-> parent, kind |-> kind, state |-> "Live"]
<1>1. ASSUME parent \in DOMAIN st.objects
      PROVE  IsMap(With(st.borrows, s, borrow), Storages, BorrowInfo)
  <2>1. parent \in ObjectIds
    BY <1>1 DEF FlowOK, IsFlowState, IsMap
  <2>2. borrow \in BorrowInfo
    BY <2>1 DEF BorrowInfo, BorrowState
  <2> HIDE DEF borrow
  <2>3. QED
    BY <2>2 DEF FlowOK, IsFlowState, IsMap, With
<1>2. parent \in DOMAIN st.objects =>
        FlowOK([st EXCEPT !.borrows = With(st.borrows, s, borrow)])
  BY <1>1, BorrowsOK
<1>3. QED
  BY <1>2, NotesFacts DEF ResultOK, Result, createBorrow, FlowOK, IsFlowState

LEMMA InvalidateBorrowsOK ==
    ASSUME NEW st, FlowOK(st), NEW parent
    PROVE  FlowOK(invalidateBorrows(parent, st))
<1> DEFINE borrows == [s \in DOMAIN st.borrows |->
                         IF s \in LiveBorrows(st, parent)
                         THEN [st.borrows[s] EXCEPT !.state = "Invalid"]
                         ELSE st.borrows[s]]
<1>1. invalidateBorrows(parent, st) = [st EXCEPT !.borrows = borrows]
  BY DEF invalidateBorrows
<1>2. IsMap(borrows, Storages, BorrowInfo)
  BY DEF FlowOK, IsFlowState, IsMap, BorrowInfo, BorrowState
<1> HIDE DEF borrows
<1>3. QED
  BY <1>1, <1>2, BorrowsOK

LEMMA ExpireBorrowsOK ==
    ASSUME NEW st, FlowOK(st), NEW live
    PROVE  FlowOK(expireBorrowUses(live, st))
<1> DEFINE borrows == [s \in DOMAIN st.borrows \cap live |-> st.borrows[s]]
<1>1. expireBorrowUses(live, st) = [st EXCEPT !.borrows = borrows]
  BY DEF expireBorrowUses
<1>2. IsMap(borrows, Storages, BorrowInfo)
  BY DEF FlowOK, IsFlowState, IsMap
<1> HIDE DEF borrows
<1>3. QED
  BY <1>1, <1>2, BorrowsOK

LEMMA CheckAccessOK ==
    ASSUME NEW s, NEW st
    PROVE  NotesOK(checkAccess(s, st))
<1>1. NotesOK(checkBorrowAccess(s, st))
  BY NotesFacts DEF checkBorrowAccess
<1>2. NotesOK(checkMutableOwnerAccess(s, st))
  BY NotesFacts DEF checkMutableOwnerAccess
<1>3. NotesOK(checkTarget(s, st))
  BY NotesFacts DEF checkTarget
<1>4. QED
  BY <1>1, <1>2, <1>3, NotesFacts DEF checkAccess

LEMMA OwnerDestroyedOK ==
    ASSUME NEW parent, NEW live, NEW st
    PROVE  NotesOK(OwnerDestroyed(parent, live, st))
  BY NotesFacts DEF OwnerDestroyed

-----------------------------------------------------------------------------
(* Destroying an object *)

LEMMA DestroyedOK ==
    ASSUME NEW st, FlowOK(st), NEW b, b.object_id \in DOMAIN st.objects, NEW live
    PROVE  /\ ResultOK(Destroyed(b, live, st))
           /\ ResultOK(FreedMaybeNull(b, live, st))
<1>1. /\ FlowOK(SetState(st, b.object_id, "MaybeDead"))
      /\ FlowOK(invalidateBorrows(b.object_id, SetState(st, b.object_id, "Dead")))
  BY SetStateOK, InvalidateBorrowsOK DEF ObjectState
<1>2. ResultOK(Destroyed(b, live, st))
  BY <1>1, NotesFacts, OwnerDestroyedOK DEF ResultOK, Result, Destroyed
<1>3. ResultOK(FreedMaybeNull(b, live, st))
  BY <1>1, <1>2, NotesFacts, OwnerDestroyedOK DEF ResultOK, Result, FreedMaybeNull
<1>4. QED
  BY <1>2, <1>3

LEMMA UnchangedOK ==
    ASSUME NEW st, FlowOK(st), NEW notes, NotesOK(notes)
    PROVE  ResultOK(Result(st, notes))
  BY DEF ResultOK, Result

LEMMA DestructionOK ==
    ASSUME NEW st, FlowOK(st), NEW s, NEW live
    PROVE  /\ ResultOK(handleFree(s, live, st))
           /\ ResultOK(destroyBinding(s, live, st))
<1> DEFINE b == st.storages[s]
<1>1. HasObject(st, b) => /\ ResultOK(Destroyed(b, live, st))
                          /\ ResultOK(FreedMaybeNull(b, live, st))
  BY DestroyedOK DEF HasObject
<1>2. /\ NotesOK(MovedDestroyed(b))
      /\ NotesOK(OwnerDestroyed(b.object_id, live, st) \cup MovedDestroyed(b))
  BY NotesFacts, OwnerDestroyedOK DEF MovedDestroyed
<1>3. ResultOK(handleFree(s, live, st))
  BY <1>1, <1>2, NotesFacts, UnchangedOK DEF handleFree
<1>4. ResultOK(destroyBinding(s, live, st))
  BY <1>1, <1>2, NotesFacts, UnchangedOK DEF destroyBinding
<1>5. QED
  BY <1>3, <1>4

-----------------------------------------------------------------------------
(* Transferring ownership *)

LEMMA ObjectBinding ==
    ASSUME NEW st, FlowOK(st), NEW o \in DOMAIN st.objects
    PROVE  o \in ObjectIds \ {kNullObjectId, kUnknownObjectId}
  BY DEF FlowOK, IsFlowState, IsMap

LEMMA MoveOK ==
    ASSUME NEW st, FlowOK(st), NEW src, NEW dest \in Storages \cup {NoDestination}
    PROVE  ResultOK(moveBinding(src, dest, st))
<1> DEFINE b == st.storages[src]
           moved == Bind(st, src, [b EXCEPT !.relation = "Moved"])
<1>1. NotesOK(MoveViolation(src, dest, st))
  BY NotesFacts DEF MoveViolation
<1>2. dest # NoDestination => FlowOK(Bind(st, dest, NullBinding))
  BY BindOK, NewBindings
<1>3. ASSUME Bound(st, src), b.object_id \in DOMAIN st.objects
      PROVE  /\ FlowOK(moved)
             /\ dest # NoDestination => FlowOK(Bind(moved, dest, Binding(b.object_id, "Owner")))
  <2>1. src \in Storages /\ b \in CoherentBinding
    BY <1>3, BindingFacts
  <2>2. b.object_id \in ObjectIds \ {kNullObjectId, kUnknownObjectId}
    BY <1>3, ObjectBinding
  <2>3. [b EXCEPT !.relation = "Moved"] \in CoherentBinding
    BY <2>1, <2>2 DEF CoherentBinding, StorageBinding, PointerRelation
  <2>4. Binding(b.object_id, "Owner") \in CoherentBinding
    BY <2>2, NewBindings DEF PointerRelation
  <2> HIDE DEF b
  <2>5. QED
    BY <2>1, <2>3, <2>4, BindOK
<1> HIDE DEF moved
<1>4. QED
  BY <1>1, <1>2, <1>3, NotesFacts, UnchangedOK DEF moveBinding, moved

LEMMA TransferOK ==
    ASSUME NEW st, FlowOK(st), NEW s, NEW explicit_move, NEW from_body
    PROVE  ResultOK(transferBinding(s, explicit_move, from_body, st))
<1>1. ResultOK(moveBinding(s, NoDestination, st))
  BY MoveOK
<1>2. st.storages[s].object_id \in DOMAIN st.objects =>
        FlowOK(SetState(st, st.storages[s].object_id, "Unknown"))
  BY SetStateOK DEF ObjectState
<1>3. QED
  BY <1>1, <1>2, NotesFacts, UnchangedOK DEF transferBinding

-----------------------------------------------------------------------------
(* Allocation *)

LEMMA BornOK ==
    ASSUME NEW st, FlowOK(st), NEW id \in ObjectIds \ {kNullObjectId, kUnknownObjectId}
    PROVE  FlowOK(Born(id, st))
<1> DEFINE fresh == [state |-> "Owned", origin |-> "Allocation", capability |-> "None"]
<1>1. fresh \in ObjectInfo
  BY DEF ObjectInfo, ObjectState, ObjectOrigin, ParameterCapability
<1> HIDE DEF fresh
<1>2. FlowOK([st EXCEPT !.objects = With(@, id, fresh)])
  BY <1>1, NewObjectOK
<1>3. id \in DOMAIN st.objects => FlowOK(SetState(st, id, "Owned"))
  BY SetStateOK DEF ObjectState
<1>4. QED
  BY <1>2, <1>3 DEF Born, fresh

LEMMA AllocationId ==
    ASSUME NEW site \in Nat \ {0}, NEW generation \in {0, 1}
    PROVE  \/ objectIdForAllocation(site, generation) = kUnknownObjectId
           \/ objectIdForAllocation(site, generation) \in
                 ObjectIds \ {kNullObjectId, kUnknownObjectId}
  BY UnknownIdAssumption, IdAssumption DEF objectIdForAllocation, ObjectIds, kNullObjectId

LEMMA AllocatedOK ==
    ASSUME NEW st, FlowOK(st), NEW dest \in Storages, NEW site \in Nat \ {0},
           NEW generation \in {0, 1}
    PROVE  ResultOK(Allocated(dest, site, generation, st))
<1> DEFINE id == objectIdForAllocation(site, generation)
<1>1. FlowOK(Bind(st, dest, DefaultBinding))
  BY BindOK, NewBindings
<1>2. CASE id = kUnknownObjectId
  BY <1>1, <1>2, NotesFacts, UnchangedOK DEF Allocated
<1>3. CASE id \in ObjectIds \ {kNullObjectId, kUnknownObjectId}
  <2> HIDE DEF id
  <2>1. FlowOK(Born(id, Bind(st, dest, Binding(id, "Owner"))))
    BY <1>3, BindOK, NewBindings, BornOK DEF PointerRelation
  <2>2. id # kUnknownObjectId
    BY <1>3
  <2>3. QED
    BY <2>1, <2>2, NotesFacts, UnchangedOK DEF Allocated, id
<1>4. QED
  BY <1>2, <1>3, AllocationId

LEMMA BindAllocationOK ==
    ASSUME NEW st, FlowOK(st), NEW dest \in Storages, NEW site \in Nat \ {0}, NEW in_loop
    PROVE  ResultOK(bindAllocation(dest, site, in_loop, st))
<1> DEFINE widened  == [st EXCEPT !.widened_allocation_sites = @ \cup {site}]
           advanced == [st EXCEPT !.allocation_generations = @ \cup {site}]
<1>1. FlowOK(widened) /\ FlowOK(advanced)
  <2>1. ASSUME NEW sites
        PROVE  /\ FlowOK([st EXCEPT !.widened_allocation_sites = sites])
               /\ FlowOK([st EXCEPT !.allocation_generations = sites])
    BY DEF FlowOK, IsFlowState
  <2>2. QED
    BY <2>1
<1> HIDE DEF widened, advanced
<1>2. ResultOK(Widened(dest, st)) /\ ResultOK(Widened(dest, widened))
  BY <1>1, BindOK, NewBindings, NotesFacts, UnchangedOK DEF Widened
<1>3. \A generation \in {0, 1} : ResultOK(Allocated(dest, site, generation, st))
  BY AllocatedOK
<1>4. ResultOK(Allocated(dest, site, 1, advanced))
  BY <1>1, AllocatedOK
<1>5. QED
  BY <1>2, <1>3, <1>4, NotesFacts DEF bindAllocation, ResultOK, Result, widened, advanced

LEMMA AliasOK ==
    ASSUME NEW st, FlowOK(st), NEW s, Bound(st, s), NEW dest \in Storages,
           st.storages[s].object_id # kUnknownObjectId
    PROVE  FlowOK(Bind(st, dest, Binding(st.storages[s].object_id, "Alias")))
<1>1. st.storages[s].object_id \in ObjectIds \ {kUnknownObjectId}
  BY BindingFacts DEF CoherentBinding, StorageBinding
<1>2. QED
  BY <1>1, BindOK, NewBindings

\* e: a statement "result".
LEMMA BindSummaryReturnOK ==
    ASSUME NEW st, FlowOK(st), NEW e, IsStatement(e), e.op = "result"
    PROVE  ResultOK(bindSummaryReturn(e.dst, e, st))
<1> DEFINE source == e.args[Summaries[e.fn].return_borrow_arg].s
           parent == st.storages[source].object_id
<1>1. e.dst \in Storages /\ e.site \in Nat \ {0}
  BY DEF IsStatement, Allocates
<1>2. ResultOK(bindAllocation(e.dst, e.site, e.in_loop, st))
  BY <1>1, BindAllocationOK
<1>3. Bound(st, source) /\ parent # kUnknownObjectId =>
        ResultOK(createBorrow(e.dst, parent, "Shared",
                              Bind(st, e.dst, Binding(parent, "Alias"))))
  BY <1>1, AliasOK, CreateBorrowOK DEF BorrowKind
<1>4. QED
  BY <1>2, <1>3, NotesFacts, UnchangedOK DEF bindSummaryReturn

-----------------------------------------------------------------------------
(* Assignments and declarations *)

LEMMA OwnerOverwriteOK ==
    ASSUME NEW e, NEW st
    PROVE  NotesOK(OwnerOverwrite(e, st))
  BY NotesFacts DEF OwnerOverwrite

LEMMA MoreNotesOK ==
    ASSUME NEW r, ResultOK(r), NEW notes, NotesOK(notes)
    PROVE  ResultOK(Noting(notes, r))
  BY NotesFacts DEF ResultOK, Noting, Result

LEMMA BorrowResultOK ==
    ASSUME NEW r, ResultOK(r), NEW e, e.dst \in Storages
    PROVE  ResultOK(borrowResult(e, r))
<1> DEFINE borrows == [s \in DOMAIN r.st.borrows \ {e.dst} |-> r.st.borrows[s]]
           without == [r.st EXCEPT !.borrows = borrows]
           again   == createBorrow(e.dst, r.st.storages[e.dst].object_id, "Mutable", without)
<1>1. FlowOK(without)
  <2>1. IsMap(borrows, Storages, BorrowInfo)
    BY DEF ResultOK, FlowOK, IsFlowState, IsMap
  <2> HIDE DEF borrows
  <2>2. QED
    BY <2>1, BorrowsOK DEF ResultOK
<1>2. ResultOK(again)
  <2> HIDE DEF without
  <2>1. QED
    BY <1>1, CreateBorrowOK DEF BorrowKind
<1>3. ResultOK(Noting(r.notes, again))
  <2> HIDE DEF again
  <2>1. QED
    BY <1>2, MoreNotesOK DEF ResultOK
<1>4. QED
  BY <1>3 DEF borrowResult

LEMMA AssignOK ==
    ASSUME NEW st, FlowOK(st), NEW e, IsStatement(e)
    PROVE  /\ e.op = "alloc"  => ResultOK(assignAllocation(e, st))
           /\ e.op = "copy"   => ResultOK(assignCopy(e, st))
           /\ e.op = "result" => ResultOK(assignResult(e, st))
           /\ e.op = "borrow" => ResultOK(declareBorrow(e, st))
<1>1. ASSUME e.op = "alloc" PROVE ResultOK(assignAllocation(e, st))
  <2>1. e.dst \in Storages /\ e.site \in Nat \ {0}
    BY <1>1 DEF IsStatement, Allocates
  <2>2. ResultOK(bindAllocation(e.dst, e.site, e.in_loop, st))
    BY <2>1, BindAllocationOK
  <2>3. QED
    BY <2>2, MoreNotesOK, OwnerOverwriteOK DEF assignAllocation
<1>2. ASSUME e.op = "copy" PROVE ResultOK(assignCopy(e, st))
  <2> DEFINE b == st.storages[e.src]
             relation == IF MovedRelation(b.relation) THEN b.relation ELSE "Alias"
  <2>1. e.dst \in Storages
    BY <1>2 DEF IsStatement
  <2>2. FlowOK(Bind(st, e.dst, NullBinding))
    BY <2>1, BindOK, NewBindings
  <2>3. ASSUME Bound(st, e.src), ~Unresolved(b), b.object_id # kNullObjectId
        PROVE  FlowOK(Bind(st, e.dst, Binding(b.object_id, relation)))
    <3>1. /\ b.object_id \in ObjectIds \ {kNullObjectId, kUnknownObjectId}
          /\ relation \in PointerRelation
      BY <2>3, BindingFacts
         DEF CoherentBinding, StorageBinding, Unresolved, MovedRelation, PointerRelation
    <3> HIDE DEF b, relation
    <3>2. QED
      BY <2>1, <3>1, BindOK, NewBindings
  <2> HIDE DEF relation
  <2>4. QED
    BY <2>2, <2>3, NotesFacts, UnchangedOK DEF assignCopy, relation
<1>3. ASSUME e.op = "result" PROVE ResultOK(assignResult(e, st))
  <2> DEFINE bound == bindSummaryReturn(e.dst, e, st)
             notes == IF e.fn \in DOMAIN Summaries THEN OwnerOverwrite(e, st) ELSE {}
  <2>1. ResultOK(bound) /\ e.dst \in Storages
    BY <1>3, BindSummaryReturnOK DEF IsStatement
  <2>2. NotesOK(notes)
    BY OwnerOverwriteOK, NotesFacts
  <2> HIDE DEF bound, notes
  <2>3. ResultOK(Noting(notes, bound)) /\ ResultOK(borrowResult(e, bound))
    BY <2>1, <2>2, MoreNotesOK, BorrowResultOK
  <2>4. QED
    BY <2>3, NotesFacts, UnchangedOK DEF assignResult, bound, notes
<1>4. ASSUME e.op = "borrow" PROVE ResultOK(declareBorrow(e, st))
  <2>1. e.dst \in Storages /\ e.borrow \in BorrowKind
    BY <1>4 DEF IsStatement
  <2>2. Bound(st, e.src) /\ st.storages[e.src].object_id # kUnknownObjectId =>
          FlowOK(Bind(st, e.dst, Binding(st.storages[e.src].object_id, "Alias")))
    BY <2>1, AliasOK
  <2>3. QED
    BY <2>1, <2>2, CreateBorrowOK, NotesFacts, UnchangedOK DEF declareBorrow
<1>5. QED
  BY <1>1, <1>2, <1>3, <1>4

-----------------------------------------------------------------------------
(* Induction over the arguments of a call and the statements of a block     *)

\* The effect of one argument, and of the first n, as passArguments chains them.
Passing(args, summary, live, n, r) ==
    LET s == passArgument(args[n], summary.params[n],
                          summary.origin = "BodyVerified", live, r.st)
    IN  Result(s.st, r.notes \cup s.notes)

\* The effect of one statement, as transferThrough chains them.
Stepping(code, live, n, r) ==
    LET s == processStmt(code[n], live[n], r.st)
    IN  Result(s.st, r.notes \cup {[index |-> n, note |-> x] : x \in s.notes})

\* The recursive definition of passArguments defines a function.
LEMMA PassArgumentsDef ==
    ASSUME NEW args, NEW summary, NEW live, NEW st, Len(args) \in Nat
    PROVE  passArguments(args, summary, live, st) =
             [n \in 0 .. Len(args) |->
                IF n = 0 THEN Result(st, {})
                ELSE Passing(args, summary, live, n, passArguments(args, summary, live, st)[n - 1])]
<1> DEFINE Next(n, f) == IF n = 0 THEN Result(st, {}) ELSE Passing(args, summary, live, n, f[n - 1])
           S == {m \in Nat : \E f : f = [n \in 0 .. m |-> Next(n, f)]}
<1>1. 0 \in S
  <2> DEFINE f == [n \in 0 .. 0 |-> Result(st, {})]
  <2>1. f = [n \in 0 .. 0 |-> Next(n, f)]
    OBVIOUS
  <2>2. QED
    BY <2>1
<1>2. ASSUME NEW m \in Nat, m \in S PROVE m + 1 \in S
  <2>1. PICK f : f = [n \in 0 .. m |-> Next(n, f)]
    BY <1>2
  <2> DEFINE g == [n \in 0 .. (m + 1) |->
                     IF n = m + 1 THEN Passing(args, summary, live, n, f[n - 1]) ELSE f[n]]
  <2>2. ASSUME NEW n \in 0 .. (m + 1) PROVE g[n] = Next(n, g)
    <3>1. CASE n = m + 1
      BY <2>1, <3>1
    <3>2. CASE n # m + 1
      BY <2>1, <3>2
    <3>3. QED
      BY <3>1, <3>2
  <2>3. g = [n \in 0 .. (m + 1) |-> g[n]]
    OBVIOUS
  <2> HIDE DEF g
  <2>4. g = [n \in 0 .. (m + 1) |-> Next(n, g)]
    BY <2>2, <2>3
  <2>5. m + 1 \in Nat
    OBVIOUS
  <2>6. QED
    BY <2>4, <2>5
<1>3. Len(args) \in S
  <2> HIDE DEF S
  <2>1. QED
    BY <1>1, <1>2, NatSetInduction
<1>4. QED
  BY <1>3 DEF passArguments, Passing, Noting

\* The recursive definition of transferThrough defines a function.
LEMMA TransferThroughDef ==
    ASSUME NEW code, NEW live, NEW st, Len(code) \in Nat
    PROVE  transferThrough(code, live, st) =
             [n \in 0 .. Len(code) |->
                IF n = 0 THEN Result(st, {})
                ELSE Stepping(code, live, n, transferThrough(code, live, st)[n - 1])]
<1> DEFINE Next(n, f) == IF n = 0 THEN Result(st, {}) ELSE Stepping(code, live, n, f[n - 1])
           S == {m \in Nat : \E f : f = [n \in 0 .. m |-> Next(n, f)]}
<1>1. 0 \in S
  <2> DEFINE f == [n \in 0 .. 0 |-> Result(st, {})]
  <2>1. f = [n \in 0 .. 0 |-> Next(n, f)]
    OBVIOUS
  <2>2. QED
    BY <2>1
<1>2. ASSUME NEW m \in Nat, m \in S PROVE m + 1 \in S
  <2>1. PICK f : f = [n \in 0 .. m |-> Next(n, f)]
    BY <1>2
  <2> DEFINE g == [n \in 0 .. (m + 1) |->
                     IF n = m + 1 THEN Stepping(code, live, n, f[n - 1]) ELSE f[n]]
  <2>2. ASSUME NEW n \in 0 .. (m + 1) PROVE g[n] = Next(n, g)
    <3>1. CASE n = m + 1
      BY <2>1, <3>1
    <3>2. CASE n # m + 1
      BY <2>1, <3>2
    <3>3. QED
      BY <3>1, <3>2
  <2>3. g = [n \in 0 .. (m + 1) |-> g[n]]
    OBVIOUS
  <2> HIDE DEF g
  <2>4. g = [n \in 0 .. (m + 1) |-> Next(n, g)]
    BY <2>2, <2>3
  <2>5. m + 1 \in Nat
    OBVIOUS
  <2>6. QED
    BY <2>4, <2>5
<1>3. Len(code) \in S
  <2> HIDE DEF S
  <2>1. QED
    BY <1>1, <1>2, NatSetInduction
<1>4. QED
  BY <1>3 DEF transferThrough, Stepping, AfterStatement

-----------------------------------------------------------------------------
(* Calls *)

LEMMA PassArgumentOK ==
    ASSUME NEW st, FlowOK(st), NEW arg, NEW effect, NEW from_body, NEW live
    PROVE  ResultOK(passArgument(arg, effect, from_body, live, st))
<1>1. ResultOK(destroyBinding(arg.s, live, st))
  BY DestructionOK
<1>2. ResultOK(transferBinding(arg.s, arg.move, from_body, st))
  BY TransferOK
<1>3. \A kind : ResultOK(Result(st, Unsupported(kind)))
  BY NotesFacts, UnchangedOK
<1>4. ResultOK(Result(st, checkAccess(arg.s, st))) /\ ResultOK(Result(st, {}))
  BY CheckAccessOK, NotesFacts, UnchangedOK
<1>5. ResultOK(Result(st, IF arg.move THEN Unsupported("move-to-non-consuming-parameter")
                                      ELSE checkAccess(arg.s, st)))
  BY <1>3, <1>4
<1>6. QED
  BY <1>1, <1>2, <1>3, <1>4, <1>5 DEF passArgument

LEMMA PassArgumentsOK ==
    ASSUME NEW st, FlowOK(st), NEW args, Len(args) \in Nat, NEW summary, NEW live,
           NEW n \in 0 .. Len(args)
    PROVE  ResultOK(passArguments(args, summary, live, st)[n])
<1> DEFINE passed == passArguments(args, summary, live, st)
           S == {m \in Nat : m <= Len(args) => ResultOK(passed[m])}
<1>1. passed = [m \in 0 .. Len(args) |-> IF m = 0 THEN Result(st, {})
                  ELSE Passing(args, summary, live, m, passed[m - 1])]
  BY PassArgumentsDef
<1> HIDE DEF passed
<1>2. 0 \in S
  BY <1>1, NotesFacts, UnchangedOK
<1>3. ASSUME NEW m \in Nat, m \in S, m + 1 <= Len(args)
      PROVE  ResultOK(passed[m + 1])
  <2>1. ResultOK(passed[m])
    BY <1>3
  <2>2. passed[m + 1] = Passing(args, summary, live, m + 1, passed[m])
    BY <1>1, <1>3
  <2>3. ResultOK(passArgument(args[m + 1], summary.params[m + 1],
                              summary.origin = "BodyVerified", live, passed[m].st))
    BY <2>1, PassArgumentOK DEF ResultOK
  <2>4. QED
    BY <2>1, <2>2, <2>3, NotesFacts DEF Passing, ResultOK, Result
<1>4. \A m \in Nat : m \in S => m + 1 \in S
  BY <1>3
<1>5. Nat \subseteq S
  <2> HIDE DEF S
  <2>1. QED
    BY <1>2, <1>4, NatSetInduction
<1>6. QED
  BY <1>5 DEF passed

LEMMA PassBeyondOK ==
    ASSUME NEW r, ResultOK(r), NEW beyond
    PROVE  ResultOK(passBeyond(beyond, r))
<1>1. \A a : NotesOK(escapingArguments({a}, r.st))
  BY NotesFacts DEF escapingArguments
<1>2. NotesOK(UNION {escapingArguments({a}, r.st) : a \in beyond})
  BY <1>1 DEF NotesOK
<1>3. QED
  BY <1>2, MoreNotesOK DEF passBeyond

LEMMA HandleCallOK ==
    ASSUME NEW st, FlowOK(st), NEW e, IsStatement(e), e.op = "call", NEW live
    PROVE  ResultOK(handleCall(e, live, st))
<1> DEFINE summary == Summaries[e.fn]
           last    == IF Len(e.args) < Len(summary.params) THEN Len(e.args)
                                                           ELSE Len(summary.params)
           covered == passArguments(e.args, summary, live, st)[last]
<1>1. \A args : NotesOK(escapingArguments(args, st))
  BY NotesFacts DEF escapingArguments
<1>2. ASSUME e.fn \in DOMAIN Summaries
      PROVE  ResultOK(covered)
  <2>1. Len(e.args) \in Nat
    BY DEF IsStatement, Passes
  <2>2. Len(summary.params) \in Nat
    BY <1>2, SummaryAssumption DEF FunctionSummary
  <2>3. last \in 0 .. Len(e.args)
    BY <2>1, <2>2
  <2> HIDE DEF last, summary
  <2>4. QED
    BY <2>1, <2>3, PassArgumentsOK
<1> HIDE DEF covered
<1>3. e.fn \in DOMAIN Summaries => \A beyond : ResultOK(passBeyond(beyond, covered))
  BY <1>2, PassBeyondOK
<1>4. QED
  BY <1>1, <1>3, NotesFacts, UnchangedOK DEF handleCall, covered

-----------------------------------------------------------------------------
(* Produced objects *)

LEMMA ApplyProduceOK ==
    ASSUME NEW st, FlowOK(st), NEW e, Produces(e)
    PROVE  ResultOK(applyOutOwnerProduce(e, st))
<1> DEFINE marked   == OutOwners[e.fn].write_on_success \/ OutOwners[e.fn].nullable
           id       == objectIdForAllocation(e.site, 0)
           binding  == [object_id      |-> id,
                        relation       |-> IF marked THEN "MaybeNull" ELSE "Owner",
                        produced_maybe |-> marked]
           unknown  == [object_id |-> id, relation |-> "Unknown", produced_maybe |-> TRUE]
<1>1. e.dst \in Storages /\ e.site \in Nat \ {0}
  BY DEF Produces, Allocates
<1>2. marked \in BOOLEAN
  BY OutOwnerAssumption DEF Produces, OutOwnerContract
<1>3. CASE id = kUnknownObjectId
  <2>1. unknown \in CoherentBinding
    BY <1>3, UnknownIdAssumption
       DEF CoherentBinding, StorageBinding, ObjectIds, PointerRelation, kNullObjectId
  <2> HIDE DEF unknown, id
  <2>2. FlowOK(Bind(st, e.dst, unknown))
    BY <1>1, <2>1, BindOK
  <2>3. QED
    BY <1>3, <2>2, NotesFacts, UnchangedOK DEF applyOutOwnerProduce, unknown, id
<1>4. CASE id \in ObjectIds \ {kNullObjectId, kUnknownObjectId}
  <2> HIDE DEF id, marked, unknown
  <2>1. binding \in CoherentBinding
    BY <1>2, <1>4 DEF CoherentBinding, StorageBinding, PointerRelation
  <2> HIDE DEF binding
  <2>2. FlowOK(Born(id, Bind(st, e.dst, binding)))
    BY <1>1, <1>4, <2>1, BindOK, BornOK
  <2>3. id # kUnknownObjectId
    BY <1>4
  <2>4. QED
    BY <2>2, <2>3, NotesFacts, UnchangedOK DEF applyOutOwnerProduce, id, marked, binding
<1>5. QED
  BY <1>1, <1>3, <1>4, AllocationId

LEMMA RecordGuardOK ==
    ASSUME NEW st, FlowOK(st), NEW e, Produces(e)
    PROVE  FlowOK(RecordGuard(e, st))
<1> DEFINE guard == [result |-> e.result, dest |-> e.dst, call |-> e.site,
                     success_nonzero |-> OutOwners[e.fn].success_nonzero]
<1>1. guard.dest \in Storages
  BY DEF Produces
<1> HIDE DEF guard
<1>2. FlowOK([st EXCEPT !.pending_out_guards = @ \cup {guard}])
  BY <1>1 DEF FlowOK, IsFlowState
<1>3. QED
  BY <1>2 DEF RecordGuard, guard

LEMMA KillGuardsOK ==
    ASSUME NEW st, FlowOK(st), NEW e
    PROVE  FlowOK(killPendingGuards(e, st))
<1> DEFINE guards == {guard \in st.pending_out_guards : ~Kills(e, guard)}
<1>1. killPendingGuards(e, st) = [st EXCEPT !.pending_out_guards = guards]
  BY DEF killPendingGuards
<1>2. guards \subseteq st.pending_out_guards
  OBVIOUS
<1> HIDE DEF guards
<1>3. QED
  BY <1>1, <1>2 DEF FlowOK, IsFlowState

LEMMA PassSlotOK ==
    ASSUME NEW r, ResultOK(r), NEW e, Produces(e)
    PROVE  ResultOK(passSlot(e, r))
<1> DEFINE produced == applyOutOwnerProduce(e, r.st)
           notes    == r.notes \cup IF Tracked(r.st, e.dst)
                          THEN Unsupported("unknown-call-with-tracked-pointer") ELSE {}
<1>1. ResultOK(produced)
  BY ApplyProduceOK DEF ResultOK
<1>2. NotesOK(notes)
  BY NotesFacts DEF ResultOK
<1> HIDE DEF produced, notes
<1>3. ResultOK(Recorded(e, produced))
  BY <1>1, RecordGuardOK DEF Recorded, ResultOK, Result
<1>4. QED
  BY <1>2, <1>3, MoreNotesOK DEF passSlot, produced, notes

LEMMA HandleProduceOK ==
    ASSUME NEW st, FlowOK(st), NEW e, Produces(e), NEW live
    PROVE  ResultOK(handleProduce(e, live, st))
<1> DEFINE siblings == passArguments(e.args, Summaries[e.fn], live, st)[Len(e.args)]
           escaping == escapingArguments(
                          {Argument(e.args, i) : i \in 1 .. Len(e.args)} \cup
                              {[s |-> e.dst, move |-> FALSE]}, st)
<1>1. ResultOK(siblings)
  BY PassArgumentsOK DEF Produces, Passes
<1>2. NotesOK(escaping)
  BY NotesFacts DEF escapingArguments
<1> HIDE DEF siblings, escaping
<1>3. ResultOK(passSlot(e, siblings))
  BY <1>1, PassSlotOK
<1>4. ResultOK(Result(st, Unsupported("unknown-call-with-pointer-output") \cup escaping))
  BY <1>2, NotesFacts, UnchangedOK
<1>5. QED
  BY <1>3, <1>4, NotesFacts, UnchangedOK DEF handleProduce, siblings, escaping

-----------------------------------------------------------------------------
(* Statements and blocks *)

LEMMA ExpiringOK ==
    ASSUME NEW r, ResultOK(r), NEW live
    PROVE  ResultOK(Expiring(live, r))
  BY ExpireBorrowsOK DEF ResultOK, Expiring, Result

LEMMA HandleReturnOK ==
    ASSUME NEW e, NEW st
    PROVE  NotesOK(handleReturn(e, st))
  BY NotesFacts DEF handleReturn

\* One statement: the case split of handleStmt.
LEMMA HandleStmtOK ==
    ASSUME NEW st, FlowOK(st), NEW e, IsStatement(e), NEW live
    PROVE  ResultOK(handleStmt(e, live, st))
<1> DEFINE r == handleStmt(e, live, st)
<1>1. CASE e.op = "null"
  <2>1. FlowOK(Bind(st, e.dst, NullBinding))
    BY <1>1, BindOK, NewBindings DEF IsStatement
  <2>2. QED
    BY <1>1, <2>1, NotesFacts, UnchangedOK DEF handleStmt
<1>2. CASE e.op \in {"alloc", "copy", "result", "borrow"}
  BY <1>2, AssignOK DEF handleStmt
<1>3. CASE e.op = "move"
  <2>1. e.dst \in Storages \cup {NoDestination}
    BY <1>3 DEF IsStatement
  <2>2. QED
    BY <1>3, <2>1, MoveOK DEF handleStmt
<1>4. CASE e.op = "return"
  BY <1>4, HandleReturnOK, UnchangedOK DEF handleStmt
<1>5. CASE e.op = "free"
  BY <1>5, DestructionOK, ExpiringOK DEF handleStmt
<1>6. CASE e.op = "use"
  BY <1>6, CheckAccessOK, UnchangedOK, ExpiringOK DEF handleStmt
<1>7. CASE e.op = "call"
  BY <1>7, HandleCallOK, ExpiringOK DEF handleStmt
<1>8. CASE e.op = "step"
  <2> DEFINE s == Result(Bind(st, e.dst, DefaultBinding),
                         Unsupported("pointer-arithmetic-reassignment"))
  <2>1. ResultOK(s)
    BY <1>8, BindOK, NewBindings, NotesFacts, UnchangedOK DEF IsStatement
  <2>2. r = Expiring(IF e.point THEN live ELSE Storages, s)
    BY <1>8 DEF handleStmt
  <2>3. QED
    BY <2>1, <2>2, ExpiringOK
<1>9. CASE e.op = "produce"
  <2>1. Produces(e)
    BY <1>9 DEF IsStatement
  <2>2. QED
    BY <1>9, <2>1, HandleProduceOK, ExpiringOK DEF handleStmt
<1>10. CASE e.op = "set"
  BY <1>10, NotesFacts, UnchangedOK DEF handleStmt
<1>11. QED
  BY <1>1, <1>2, <1>3, <1>4, <1>5, <1>6, <1>7, <1>8, <1>9, <1>10 DEF IsStatement

LEMMA ProcessStmtOK ==
    ASSUME NEW st, FlowOK(st), NEW e, IsStatement(e), NEW live
    PROVE  ResultOK(processStmt(e, live, st))
<1>1. ResultOK(handleStmt(e, live, killPendingGuards(e, st)))
  BY KillGuardsOK, HandleStmtOK
<1>2. NotesOK(noteUnrefinedOutOwnerUsesInArgs(e, st))
  BY NotesFacts DEF noteUnrefinedOutOwnerUsesInArgs
<1>3. QED
  BY <1>1, <1>2, MoreNotesOK DEF processStmt

BlockOK(r) == FlowOK(r.st) /\ \A n \in r.notes : IsNote(n.note)

\* A block of statements: whatever the liveness of borrows says, transfer maps
\* flow states to flow states.
THEOREM TransferBlockOK ==
    ASSUME NEW st, FlowOK(st), NEW code, NEW live, Len(code) \in Nat,
           \A i \in 1 .. Len(code) : IsStatement(code[i])
    PROVE  BlockOK(transfer(code, live, st))
<1> DEFINE after == transferThrough(code, live, st)
           S == {m \in Nat : m <= Len(code) => BlockOK(after[m])}
<1>1. after = [m \in 0 .. Len(code) |-> IF m = 0 THEN Result(st, {})
                 ELSE Stepping(code, live, m, after[m - 1])]
  BY TransferThroughDef
<1> HIDE DEF after
<1>2. 0 \in S
  BY <1>1 DEF BlockOK, Result
<1>3. ASSUME NEW m \in Nat, m \in S, m + 1 <= Len(code)
      PROVE  BlockOK(after[m + 1])
  <2>1. BlockOK(after[m])
    BY <1>3
  <2>2. after[m + 1] = Stepping(code, live, m + 1, after[m])
    BY <1>1, <1>3
  <2>3. ResultOK(processStmt(code[m + 1], live[m + 1], after[m].st))
    BY <1>3, <2>1, ProcessStmtOK DEF BlockOK
  <2>4. QED
    BY <2>1, <2>2, <2>3 DEF Stepping, BlockOK, ResultOK, NotesOK, Result
<1>4. \A m \in Nat : m \in S => m + 1 \in S
  BY <1>3
<1>5. Nat \subseteq S
  <2> HIDE DEF S
  <2>1. QED
    BY <1>2, <1>4, NatSetInduction
<1>6. QED
  BY <1>5 DEF transfer, after

-----------------------------------------------------------------------------
(* What an edge out of a block says *)

LEMMA RefinedOK ==
    ASSUME NEW st, FlowOK(st), NEW dest \in Storages, NEW present, NEW absent
    PROVE  FlowOK(Refined(dest, present, absent, st))
<1> DEFINE id == st.storages[dest].object_id
<1>1. MarkedNull \in CoherentBinding
  BY UnknownIdAssumption
     DEF MarkedNull, CoherentBinding, StorageBinding, ObjectIds, PointerRelation, kNullObjectId
<1>2. FlowOK(Bind(st, dest, MarkedNull))
  BY <1>1, BindOK
<1>3. ASSUME Bound(st, dest), id \notin {kNullObjectId, kUnknownObjectId}
      PROVE  FlowOK(Bind(st, dest, Binding(id, "Owner")))
  <2>1. id \in ObjectIds \ {kNullObjectId, kUnknownObjectId}
    BY <1>3, BindingFacts DEF CoherentBinding, StorageBinding
  <2>2. Binding(id, "Owner") \in CoherentBinding
    BY <2>1, NewBindings DEF PointerRelation
  <2>3. QED
    BY <2>2, BindOK
<1>4. QED
  BY <1>2, <1>3 DEF Refined

LEMMA RefinementOK ==
    ASSUME NEW st, FlowOK(st), NEW c, IsCondition(c), NEW true_edge
    PROVE  FlowOK(applyOutOwnerRefinement(c, true_edge, st))
<1> DEFINE pending == {guard \in st.pending_out_guards : guard.result = c.name}
           guard   == CHOOSE g \in pending : TRUE
<1>1. \A dest \in Storages : \A success_nonzero, this_eq, zero :
        FlowOK(refineByGuardPolarity(dest, success_nonzero, this_eq, zero, st))
  BY RefinedOK DEF refineByGuardPolarity
<1>2. \A dest \in Storages : \A non_null_edge :
        FlowOK(refineByDestNullCheck(dest, non_null_edge, st))
  BY RefinedOK DEF refineByDestNullCheck
<1>3. pending # {} => guard.dest \in Storages
  BY DEF FlowOK, IsFlowState
<1> DEFINE this_eq == (true_edge = c.eq)
<1> HIDE DEF guard, pending, this_eq
<1>4. CASE c.form = "other"
  BY <1>4 DEF applyOutOwnerRefinement
<1>5. CASE c.form = "call"
  <2>1. applyOutOwnerRefinement(c, true_edge, st) =
          refineByGuardPolarity(c.dest, OutOwners[c.fn].success_nonzero, this_eq, c.zero, st)
    BY <1>5 DEF applyOutOwnerRefinement, this_eq
  <2>2. QED
    BY <1>1, <1>5, <2>1 DEF IsCondition
<1>6. CASE c.form = "result"
  <2>1. applyOutOwnerRefinement(c, true_edge, st) =
          IF pending = {} THEN st
          ELSE refineByGuardPolarity(guard.dest, guard.success_nonzero, this_eq, c.zero, st)
    BY <1>6 DEF applyOutOwnerRefinement, this_eq, guard, pending
  <2>2. QED
    BY <1>1, <1>3, <2>1
<1>7. CASE c.form = "pointer"
  <2>1. applyOutOwnerRefinement(c, true_edge, st) = refineByDestNullCheck(c.name, ~this_eq, st)
    BY <1>7 DEF applyOutOwnerRefinement, this_eq
  <2>2. QED
    BY <1>2, <1>7, <2>1 DEF IsCondition
<1>8. QED
  BY <1>4, <1>5, <1>6, <1>7 DEF IsCondition

\* Whatever the condition, an edge carries a flow state to a flow state.
LEMMA AlongEdgeOK ==
    ASSUME NEW st, FlowOK(st), NEW c, IsCondition(c), NEW s
    PROVE  FlowOK(AlongEdge(c, s, st))
<1> DEFINE refined == applyOutOwnerRefinement(c, c.form # "other" /\ s = c.then, st)
<1>1. FlowOK(refined)
  BY RefinementOK
<1> HIDE DEF refined
<1>2. FlowOK([refined EXCEPT !.pending_out_guards = {}])
  BY <1>1 DEF FlowOK, IsFlowState
<1>3. QED
  BY <1>1, <1>2 DEF AlongEdge, refined

=============================================================================
