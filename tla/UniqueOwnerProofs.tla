--------------------------- MODULE UniqueOwnerProofs ---------------------------
(***************************************************************************)
(* Proof of UniqueOwner for the cand1 level, without pointer-output        *)
(* contracts: no two pointers are ever the owner of one object.            *)
(*                                                                         *)
(* What an allocation binds must be new.  bindAllocation looks for the     *)
(* first id of its site in the storages, gives the second one where the    *)
(* first is still in reach, and puts the site on record as being at its    *)
(* second generation, after which it gives no id while either is in reach. *)
(* So an owner is made of an object nothing refers to, provided the ids    *)
(* of two sites never meet (SitesFit) and a storage that holds a second    *)
(* generation always has its site on record (GenerationsOnRecord), also    *)
(* behind a join and after a copy.  A join gives an owner only where both  *)
(* sides have one of the same object, so two owners of the join are two    *)
(* owners of either side.                                                  *)
(*                                                                         *)
(* The hypotheses are what the code leaves open.  Before cand1 a loop      *)
(* makes the same id again.  With pointer-output contracts a guard makes   *)
(* an owner of whatever pointer carries the produced-maybe mark, and       *)
(* joinBinding keeps the mark of one side with the object of the other     *)
(* (NoneMarked is lost).  Sites are numbered per function without a bound, *)
(* and the stride between two generations is 1 000 000.                    *)
(***************************************************************************)
EXTENDS FlowAnalyzerProofs

OwnerOf(st, s) == st.storages[s].relation = "Owner"

\* Two owners own two objects.
OwnersApart(st) ==
    \A s, t \in DOMAIN st.storages :
        s # t /\ OwnerOf(st, s) /\ OwnerOf(st, t) =>
            st.storages[s].object_id # st.storages[t].object_id

\* No pointer waits for a guard to make it an owner.
NoneMarked(st) == \A s \in DOMAIN st.storages : ~st.storages[s].produced_maybe

SecondGeneration(site) == site + kGenerationStride
Sites == {site \in Nat \ {0} : site < kGenerationStride}

\* An object of the second generation of a site is nowhere in reach unless the
\* site is on record as being at that generation.
GenerationsOnRecord(st) ==
    \A s \in DOMAIN st.storages : \A site \in Sites :
        /\ SecondGeneration(site) < kParameterObjectIdBase
        /\ st.storages[s].object_id = SecondGeneration(site)
        => site \in st.allocation_generations

Apart(st) == FlowOK(st) /\ OwnersApart(st) /\ NoneMarked(st) /\ GenerationsOnRecord(st)

\* The allocation sites of a function are numbered below the distance between
\* two generations of a site.
SitesFit ==
    \A p \in Programs : \A b \in Blocks : \A i \in 1 .. Len(p.code[b]) :
        p.code[b][i].op \in {"alloc", "result"} => p.code[b][i].site < kGenerationStride

-----------------------------------------------------------------------------
(* Updates of a flow state *)

\* Nothing but the storages and the generations matters.
LEMMA SameStorages ==
    ASSUME NEW st, Apart(st), NEW new, FlowOK(new), new.storages = st.storages,
           st.allocation_generations \subseteq new.allocation_generations
    PROVE  Apart(new)
BY DEF Apart, OwnersApart, OwnerOf, NoneMarked, GenerationsOnRecord

\* The ids of a site's two generations are no other's.
LEMMA GenerationIds ==
    ASSUME NEW site \in Sites
    PROVE  /\ SecondGeneration(site) < kParameterObjectIdBase =>
                 SecondGeneration(site) \notin {kNullObjectId, kUnknownObjectId}
           /\ SecondGeneration(site) % kGenerationStride = site
           /\ site % kGenerationStride = site
           /\ \A other \in Sites :
                 /\ site # SecondGeneration(other)
                 /\ SecondGeneration(other) = SecondGeneration(site) => other = site
<1>1. /\ kGenerationStride \in Nat \ {0} /\ kParameterObjectIdBase \in Nat
      /\ kUnknownObjectId \in Nat /\ kParameterObjectIdBase < kUnknownObjectId
      /\ site \in Nat \ {0} /\ site < kGenerationStride
  BY UnknownIdAssumption, IdAssumption DEF Sites
<1>2. site % kGenerationStride = site
  BY <1>1
<1>3. (site + kGenerationStride) % kGenerationStride = site
  BY <1>1, Z3
<1>. QED BY <1>1, <1>2, <1>3 DEF SecondGeneration, Sites, kNullObjectId

\* A binding that owns nothing, to no object or to one that is already bound.
Harmless(st, b) ==
    /\ b \in CoherentBinding /\ b.relation # "Owner" /\ ~b.produced_maybe
    /\ \/ b.object_id \in {kNullObjectId, kUnknownObjectId}
       \/ \E s \in DOMAIN st.storages : st.storages[s].object_id = b.object_id

LEMMA BindStorages ==
    ASSUME NEW st, FlowOK(st), NEW s, NEW b
    PROVE  LET new == Bind(st, s, b)
           IN  /\ DOMAIN new.storages = DOMAIN st.storages \cup {s}
               /\ new.storages[s] = b
               /\ \A t \in DOMAIN st.storages \ {s} : new.storages[t] = st.storages[t]
               /\ new.allocation_generations = st.allocation_generations
               /\ new.objects = st.objects /\ new.borrows = st.borrows
<1>1. Bind(st, s, b) = [st EXCEPT !.storages = With(st.storages, s, b)]
  BY DEF Bind
<1>. QED BY <1>1 DEF With, FlowOK, IsFlowState

LEMMA BindHarmless ==
    ASSUME NEW st, Apart(st), NEW s \in Storages, NEW b, Harmless(st, b)
    PROVE  Apart(Bind(st, s, b))
<1> DEFINE new == Bind(st, s, b)
<1>1. FlowOK(new)
  BY BindOK DEF Apart, Harmless
<1>2. /\ DOMAIN new.storages = DOMAIN st.storages \cup {s}
      /\ new.storages[s] = b
      /\ \A t \in DOMAIN st.storages \ {s} : new.storages[t] = st.storages[t]
      /\ new.allocation_generations = st.allocation_generations
  BY BindStorages DEF Apart
<1> HIDE DEF new
<1>3. OwnersApart(new) /\ NoneMarked(new)
  BY <1>2 DEF Apart, OwnersApart, OwnerOf, NoneMarked, Harmless
<1>4. GenerationsOnRecord(new)
  <2> SUFFICES ASSUME NEW t \in DOMAIN new.storages, NEW site \in Sites,
                      SecondGeneration(site) < kParameterObjectIdBase,
                      new.storages[t].object_id = SecondGeneration(site)
               PROVE  site \in new.allocation_generations
    BY DEF GenerationsOnRecord
  <2>1. PICK u \in DOMAIN st.storages : st.storages[u].object_id = SecondGeneration(site)
    BY <1>2, GenerationIds DEF Harmless
  <2>. QED BY <1>2, <2>1 DEF Apart, GenerationsOnRecord
<1>. QED BY <1>1, <1>3, <1>4 DEF Apart, new

\* An owner of an object that no other pointer is bound to.
LEMMA BindOwner ==
    ASSUME NEW st, Apart(st), NEW s \in Storages, NEW id,
           Binding(id, "Owner") \in CoherentBinding,
           \A t \in DOMAIN st.storages \ {s} : OwnerOf(st, t) => st.storages[t].object_id # id,
           \A site \in Sites : SecondGeneration(site) < kParameterObjectIdBase
                               /\ id = SecondGeneration(site) => site \in st.allocation_generations
    PROVE  Apart(Bind(st, s, Binding(id, "Owner")))
<1> DEFINE b == Binding(id, "Owner")
           new == Bind(st, s, b)
<1>1. FlowOK(new)
  BY BindOK DEF Apart
<1>2. /\ DOMAIN new.storages = DOMAIN st.storages \cup {s}
      /\ new.storages[s] = b
      /\ \A t \in DOMAIN st.storages \ {s} : new.storages[t] = st.storages[t]
      /\ new.allocation_generations = st.allocation_generations
  BY BindStorages DEF Apart
<1>3. b.object_id = id /\ ~b.produced_maybe
  BY DEF Binding
<1> HIDE DEF new, b
<1>4. OwnersApart(new)
  BY <1>2, <1>3 DEF Apart, OwnersApart, OwnerOf
<1>5. NoneMarked(new) /\ GenerationsOnRecord(new)
  BY <1>2, <1>3 DEF Apart, NoneMarked, GenerationsOnRecord
<1>. QED BY <1>1, <1>4, <1>5 DEF Apart, new, b

-----------------------------------------------------------------------------
(* Handlers that bind no storage *)

\* What a handler that only changes objects, borrows and guards leaves alone.
Rebinds(st, new) ==
    \/ new.storages # st.storages
    \/ new.allocation_generations # st.allocation_generations

LEMMA SetStateRebindsNothing ==
    ASSUME NEW st, FlowOK(st), NEW o, NEW state
    PROVE  ~Rebinds(st, SetState(st, o, state))
BY DEF SetState, FlowOK, IsFlowState, Rebinds

LEMMA BornRebindsNothing ==
    ASSUME NEW st, FlowOK(st), NEW id
    PROVE  ~Rebinds(st, Born(id, st))
<1>1. \A objects : ~Rebinds(st, [st EXCEPT !.objects = objects])
  BY DEF FlowOK, IsFlowState, Rebinds
<1>. QED BY <1>1, SetStateRebindsNothing DEF Born

LEMMA BorrowsRebindNothing ==
    ASSUME NEW st, FlowOK(st)
    PROVE  /\ \A s, parent, kind : ~Rebinds(st, createBorrow(s, parent, kind, st).st)
           /\ \A parent : ~Rebinds(st, invalidateBorrows(parent, st))
           /\ \A live : ~Rebinds(st, expireBorrowUses(live, st))
           /\ \A borrows : ~Rebinds(st, [st EXCEPT !.borrows = borrows])
<1>1. \A borrows : ~Rebinds(st, [st EXCEPT !.borrows = borrows])
  BY DEF FlowOK, IsFlowState, Rebinds
<1>2. ~Rebinds(st, st)
  BY DEF Rebinds
<1>3. \A s, parent, kind : ~Rebinds(st, createBorrow(s, parent, kind, st).st)
  BY <1>1, <1>2 DEF createBorrow, Result
<1>. QED BY <1>1, <1>3 DEF invalidateBorrows, expireBorrowUses

LEMMA DestructionRebindsNothing ==
    ASSUME NEW st, FlowOK(st), NEW s, NEW live
    PROVE  /\ ~Rebinds(st, handleFree(s, live, st).st)
           /\ ~Rebinds(st, destroyBinding(s, live, st).st)
<1> DEFINE b == st.storages[s]
<1>1. ~Rebinds(st, st)
  BY DEF Rebinds
<1>2. ASSUME HasObject(st, b)
      PROVE  /\ ~Rebinds(st, Destroyed(b, live, st).st)
             /\ ~Rebinds(st, FreedMaybeNull(b, live, st).st)
  <2> DEFINE dead == SetState(st, b.object_id, "Dead")
  <2>1. FlowOK(dead)
    BY <1>2, SetStateOK DEF HasObject, ObjectState
  <2>2. ~Rebinds(st, dead) /\ ~Rebinds(st, SetState(st, b.object_id, "MaybeDead"))
    BY SetStateRebindsNothing
  <2>3. ~Rebinds(dead, invalidateBorrows(b.object_id, dead))
    BY <2>1, BorrowsRebindNothing
  <2>4. ~Rebinds(st, invalidateBorrows(b.object_id, dead))
    BY <2>2, <2>3 DEF Rebinds
  <2> HIDE DEF dead
  <2>5. ~Rebinds(st, Destroyed(b, live, st).st)
    BY <1>1, <2>4 DEF Destroyed, Result, dead
  <2>6. ~Rebinds(st, FreedMaybeNull(b, live, st).st)
    BY <1>1, <2>2, <2>5 DEF FreedMaybeNull, Result
  <2>. QED BY <2>5, <2>6
<1> HIDE DEF b
<1>3. \A ns : ~Rebinds(st, Result(st, ns).st)
  BY <1>1 DEF Result
<1>4. ~Rebinds(st, handleFree(s, live, st).st)
  BY <1>2, <1>3 DEF handleFree, b
<1>5. ~Rebinds(st, destroyBinding(s, live, st).st)
  BY <1>2, <1>3 DEF destroyBinding, b
<1>. QED BY <1>4, <1>5

-----------------------------------------------------------------------------
(* Handlers that bind one *)

LEMMA RebindsNothingKeeps ==
    ASSUME NEW st, Apart(st), NEW new, FlowOK(new), ~Rebinds(st, new)
    PROVE  Apart(new)
BY SameStorages DEF Rebinds

LEMMA NewHarmless ==
    /\ \A st : Harmless(st, NullBinding) /\ Harmless(st, DefaultBinding)
    /\ \A st, relation, s :
          /\ FlowOK(st) /\ s \in DOMAIN st.storages
          /\ st.storages[s].object_id \notin {kNullObjectId, kUnknownObjectId}
          /\ relation \in PointerRelation \ {"Owner"}
          => Harmless(st, Binding(st.storages[s].object_id, relation))
    /\ \A st, s : FlowOK(st) /\ s \in DOMAIN st.storages
                  /\ st.storages[s].object_id # kUnknownObjectId
                  => Harmless(st, Binding(st.storages[s].object_id, "Alias"))
<1>1. \A st : Harmless(st, NullBinding) /\ Harmless(st, DefaultBinding)
  BY NewBindings DEF Harmless, NullBinding, DefaultBinding, Binding
<1>2. ASSUME NEW st, FlowOK(st), NEW s \in DOMAIN st.storages
      PROVE  st.storages[s].object_id \in ObjectIds
  BY <1>2, BindingFacts DEF Bound, CoherentBinding, StorageBinding
<1>3. ASSUME NEW st, FlowOK(st), NEW s \in DOMAIN st.storages,
             st.storages[s].object_id \notin {kNullObjectId, kUnknownObjectId},
             NEW relation \in PointerRelation \ {"Owner"}
      PROVE  Harmless(st, Binding(st.storages[s].object_id, relation))
  BY <1>2, <1>3, NewBindings DEF Harmless, Binding
<1>4. ASSUME NEW st, FlowOK(st), NEW s \in DOMAIN st.storages,
             st.storages[s].object_id # kUnknownObjectId
      PROVE  Harmless(st, Binding(st.storages[s].object_id, "Alias"))
  BY <1>2, <1>4, NewBindings DEF Harmless, Binding
<1>. QED BY <1>1, <1>3, <1>4

\* A move takes the object from its source before the destination owns it.
LEMMA MoveApart ==
    ASSUME NEW st, Apart(st), NEW src, NEW dest \in Storages \cup {NoDestination}
    PROVE  Apart(moveBinding(src, dest, st).st)
<1> DEFINE b == st.storages[src]
           id == b.object_id
           gone == [b EXCEPT !.relation = "Moved"]
           moved == Bind(st, src, gone)
           r == moveBinding(src, dest, st)
<1>1. \A ns : Apart(Result(st, ns).st)
  BY DEF Result
<1>2. \A ns : dest # NoDestination => Apart(Result(Bind(st, dest, NullBinding), ns).st)
  BY NewHarmless, BindHarmless DEF Result
<1>3. ASSUME Bound(st, src), id # kUnknownObjectId, id \in DOMAIN st.objects,
             MoveViolation(src, dest, st) = {}
      PROVE  /\ Apart(moved)
             /\ dest # NoDestination => Apart(Bind(moved, dest, Binding(id, "Owner")))
  <2>1. /\ src \in Storages /\ b \in CoherentBinding
        /\ id \in ObjectIds \ {kNullObjectId, kUnknownObjectId}
    BY <1>3, BindingFacts DEF Apart, FlowOK, IsFlowState, IsMap
  <2>2. gone = [object_id |-> id, relation |-> "Moved", produced_maybe |-> b.produced_maybe]
    BY <2>1 DEF CoherentBinding, StorageBinding
  <2>3. ~b.produced_maybe
    BY <1>3 DEF Apart, NoneMarked, Bound
  <2>4. gone \in CoherentBinding
    BY <2>1, <2>2 DEF CoherentBinding, StorageBinding, PointerRelation
  <2>5. Harmless(st, gone)
    BY <1>3, <2>2, <2>3, <2>4 DEF Harmless, Bound
  <2> HIDE DEF gone
  <2>6. Apart(moved)
    BY <2>1, <2>5, BindHarmless
  <2>7. b.relation = "Owner" /\ dest # src
    BY <1>3 DEF MoveViolation, Finding
  <2>8. /\ DOMAIN moved.storages = DOMAIN st.storages \cup {src}
        /\ moved.storages[src] = gone
        /\ \A t \in DOMAIN st.storages \ {src} : moved.storages[t] = st.storages[t]
        /\ moved.allocation_generations = st.allocation_generations
    BY BindStorages DEF Apart
  <2> HIDE DEF moved
  <2>13. moved.storages[src].relation = "Moved" /\ src \in DOMAIN st.storages
    BY <1>3, <2>2, <2>8 DEF Bound
  <2>9. \A t \in DOMAIN moved.storages \ {dest} :
           OwnerOf(moved, t) => moved.storages[t].object_id # id
    BY <2>7, <2>8, <2>13 DEF Apart, OwnersApart, OwnerOf
  <2>10. \A site \in Sites : SecondGeneration(site) < kParameterObjectIdBase
                             /\ id = SecondGeneration(site) => site \in moved.allocation_generations
    BY <1>3, <2>8 DEF Apart, GenerationsOnRecord, Bound
  <2>11. Binding(id, "Owner") \in CoherentBinding
    BY <2>1, NewBindings DEF PointerRelation
  <2>12. dest # NoDestination => Apart(Bind(moved, dest, Binding(id, "Owner")))
    BY <2>6, <2>9, <2>10, <2>11, BindOwner
  <2>. QED BY <2>6, <2>12
<1> HIDE DEF moved, gone, b
<1>4. ASSUME Bound(st, src), id # kUnknownObjectId, id \in DOMAIN st.objects,
             MoveViolation(src, dest, st) = {}
      PROVE  Apart(Result(IF dest = NoDestination THEN moved
                          ELSE Bind(moved, dest, Binding(id, "Owner")), {}).st)
  BY <1>3, <1>4 DEF Result
<1>. QED BY <1>1, <1>2, <1>4 DEF moveBinding, b, gone, moved

LEMMA TransferApart ==
    ASSUME NEW st, Apart(st), NEW s, NEW explicit, NEW from_body
    PROVE  Apart(transferBinding(s, explicit, from_body, st).st)
<1>1. \A ns : Apart(Result(st, ns).st)
  BY DEF Result
<1>2. Apart(moveBinding(s, NoDestination, st).st)
  BY MoveApart
<1>3. ASSUME st.storages[s].object_id \in DOMAIN st.objects, NEW ns
      PROVE  Apart(Result(SetState(st, st.storages[s].object_id, "Unknown"), ns).st)
  BY <1>3, SetStateOK, SetStateRebindsNothing, RebindsNothingKeeps
     DEF Result, Apart, ObjectState
<1>. QED BY <1>1, <1>2, <1>3 DEF transferBinding

\* A site brings forth an object that no pointer but the destination holds.
LEMMA AllocatedApart ==
    ASSUME NEW st, Apart(st), NEW dest \in Storages, NEW site \in Sites,
           NEW generation \in {0, 1},
           LET id == site + generation * kGenerationStride
           IN  id < kParameterObjectIdBase =>
                 \A t \in DOMAIN st.storages \ {dest} : st.storages[t].object_id # id,
           generation = 1 => site \in st.allocation_generations
    PROVE  Apart(Allocated(dest, site, generation, st).st)
<1> DEFINE id == objectIdForAllocation(site, generation)
           owner == Bind(st, dest, Binding(id, "Owner"))
<1>1. Apart(Result(Bind(st, dest, DefaultBinding),
                   Unsupported("allocation-object-id-exhausted")).st)
  BY NewHarmless, BindHarmless DEF Result
<1>2. ASSUME id # kUnknownObjectId
      PROVE  Apart(Result(Born(id, owner), {}).st)
  <2>1. id = site + generation * kGenerationStride /\ id < kParameterObjectIdBase
    BY <1>2 DEF objectIdForAllocation
  <2>2. id \in ObjectIds \ {kNullObjectId, kUnknownObjectId}
    BY <1>2, AllocationId DEF Sites
  <2>3. id = IF generation = 0 THEN site ELSE SecondGeneration(site)
    BY <2>1, IdAssumption DEF SecondGeneration, Sites
  <2>4. \A other \in Sites : id = SecondGeneration(other) => other \in st.allocation_generations
    BY <2>3, GenerationIds
  <2>5. Binding(id, "Owner") \in CoherentBinding
    BY <2>2, NewBindings DEF PointerRelation
  <2> HIDE DEF id
  <2>6. Apart(owner)
    BY <2>1, <2>4, <2>5, BindOwner
  <2>7. FlowOK(Born(id, owner)) /\ ~Rebinds(owner, Born(id, owner))
    BY <2>2, <2>6, BornOK, BornRebindsNothing DEF Apart
  <2>. QED BY <2>6, <2>7, RebindsNothingKeeps DEF Result
<1>. QED BY <1>1, <1>2 DEF Allocated

\* The test for a retained reference is what keeps two objects of a site apart.
LEMMA NotRetained ==
    ASSUME NEW st, Apart(st), NEW dest, NEW site \in Sites,
           ~hasRetainedGenerationReference(site, dest, st)
    PROVE  \A t \in DOMAIN st.storages \ {dest} :
              /\ site < kParameterObjectIdBase => st.storages[t].object_id # site
              /\ SecondGeneration(site) < kParameterObjectIdBase =>
                     st.storages[t].object_id # SecondGeneration(site)
<1>1. site < kParameterObjectIdBase => site \notin {kNullObjectId, kUnknownObjectId}
  BY UnknownIdAssumption, IdAssumption DEF Sites, kNullObjectId
<1>. QED BY <1>1, GenerationIds DEF hasRetainedGenerationReference

LEMMA BindAllocationApart ==
    ASSUME Cand1, NEW st, Apart(st), NEW dest \in Storages, NEW site \in Sites, NEW in_loop
    PROVE  Apart(bindAllocation(dest, site, in_loop, st).st)
<1> DEFINE widened  == [st EXCEPT !.widened_allocation_sites = @ \cup {site}]
           advanced == [st EXCEPT !.allocation_generations = @ \cup {site}]
           generation == IF site \in st.allocation_generations THEN 1 ELSE 0
           retained == hasRetainedGenerationReference(site, dest, st)
<1>1. /\ FlowOK(widened) /\ widened.storages = st.storages
      /\ widened.allocation_generations = st.allocation_generations
      /\ FlowOK(advanced) /\ advanced.storages = st.storages
      /\ advanced.allocation_generations = st.allocation_generations \cup {site}
  <2>1. \A sites : FlowOK([st EXCEPT !.widened_allocation_sites = sites])
    BY DEF Apart, FlowOK, IsFlowState
  <2>2. \A sites : FlowOK([st EXCEPT !.allocation_generations = sites])
    BY DEF Apart, FlowOK, IsFlowState
  <2>. QED BY <2>1, <2>2 DEF Apart, FlowOK, IsFlowState
<1> HIDE DEF widened, advanced
<1>2. Apart(widened) /\ Apart(advanced)
  BY <1>1, SameStorages
<1>3. \A new : Apart(new) => Apart(Widened(dest, new).st)
  BY NewHarmless, BindHarmless DEF Widened, Result
<1>4. ASSUME ~retained
      PROVE  Apart(Allocated(dest, site, generation, st).st)
  <2>1. site + generation * kGenerationStride =
           IF generation = 0 THEN site ELSE SecondGeneration(site)
    BY IdAssumption DEF SecondGeneration, Sites
  <2>2. LET id == site + generation * kGenerationStride
        IN  id < kParameterObjectIdBase =>
               \A t \in DOMAIN st.storages \ {dest} : st.storages[t].object_id # id
    BY <1>4, <2>1, NotRetained
  <2>. QED BY <2>2, AllocatedApart
<1>5. ASSUME generation = 0
      PROVE  Apart(Allocated(dest, site, 1, advanced).st)
  <2>1. site + 1 * kGenerationStride = SecondGeneration(site)
    BY IdAssumption DEF SecondGeneration, Sites
  <2>2. SecondGeneration(site) < kParameterObjectIdBase =>
           \A t \in DOMAIN st.storages : st.storages[t].object_id # SecondGeneration(site)
    BY <1>5 DEF Apart, GenerationsOnRecord
  <2>3. LET id == site + 1 * kGenerationStride
        IN  id < kParameterObjectIdBase =>
               \A t \in DOMAIN advanced.storages \ {dest} : advanced.storages[t].object_id # id
    BY <1>1, <2>1, <2>2
  <2>. QED BY <1>1, <1>2, <2>3, AllocatedApart
<1> HIDE DEF retained
<1>. QED BY <1>2, <1>3, <1>4, <1>5 DEF bindAllocation, retained, widened, advanced

-----------------------------------------------------------------------------
(* Assignments and declarations *)

LEMMA CreateBorrowApart ==
    ASSUME NEW st, Apart(st), NEW s \in Storages, NEW parent, NEW kind \in BorrowKind
    PROVE  Apart(createBorrow(s, parent, kind, st).st)
BY CreateBorrowOK, BorrowsRebindNothing, RebindsNothingKeeps DEF Apart, ResultOK

LEMMA BindSummaryReturnApart ==
    ASSUME Cand1, NEW st, Apart(st), NEW e, IsStatement(e), e.op = "result",
           e.site < kGenerationStride
    PROVE  Apart(bindSummaryReturn(e.dst, e, st).st)
<1> DEFINE source == e.args[Summaries[e.fn].return_borrow_arg].s
           parent == st.storages[source].object_id
           alias  == Bind(st, e.dst, Binding(parent, "Alias"))
<1>1. e.dst \in Storages /\ e.site \in Sites
  BY DEF IsStatement, Allocates, Sites
<1>2. Apart(bindAllocation(e.dst, e.site, e.in_loop, st).st)
  BY <1>1, BindAllocationApart
<1>3. ASSUME Bound(st, source), parent # kUnknownObjectId
      PROVE  Apart(createBorrow(e.dst, parent, "Shared", alias).st)
  <2>1. Harmless(st, Binding(parent, "Alias"))
    BY <1>3, NewHarmless DEF Apart, Bound
  <2>2. Apart(alias)
    BY <1>1, <2>1, BindHarmless
  <2>. QED BY <1>1, <2>2, CreateBorrowApart DEF BorrowKind
<1>4. \A ns : Apart(Result(st, ns).st)
  BY DEF Result
<1>. QED BY <1>2, <1>3, <1>4 DEF bindSummaryReturn

LEMMA AssignResultApart ==
    ASSUME Cand1, NEW st, Apart(st), NEW e, IsStatement(e), e.op = "result",
           e.site < kGenerationStride
    PROVE  Apart(assignResult(e, st).st)
<1> DEFINE r == bindSummaryReturn(e.dst, e, st)
           borrows == [s \in DOMAIN r.st.borrows \ {e.dst} |-> r.st.borrows[s]]
           without == [r.st EXCEPT !.borrows = borrows]
<1>1. Apart(r.st)
  BY BindSummaryReturnApart
<1>2. e.dst \in Storages
  BY DEF IsStatement
<1> HIDE DEF r
<1>3. Apart(without)
  <2>1. IsMap(borrows, Storages, BorrowInfo)
    BY <1>1 DEF Apart, FlowOK, IsFlowState, IsMap
  <2> HIDE DEF borrows
  <2>. QED BY <1>1, <2>1, BorrowsOK, BorrowsRebindNothing, RebindsNothingKeeps DEF Apart
<1>4. \A parent : Apart(createBorrow(e.dst, parent, "Mutable", without).st)
  BY <1>2, <1>3, CreateBorrowApart DEF BorrowKind
<1>5. Apart(borrowResult(e, r).st)
  BY <1>1, <1>4 DEF borrowResult, Noting, Result
<1>6. \A ns : Apart(Noting(ns, r).st) /\ Apart(Result(st, ns).st)
  BY <1>1 DEF Noting, Result
<1>. QED BY <1>5, <1>6 DEF assignResult, r

LEMMA AssignCopyApart ==
    ASSUME NEW st, Apart(st), NEW e, IsStatement(e), e.op = "copy"
    PROVE  Apart(assignCopy(e, st).st)
<1> DEFINE b == st.storages[e.src]
           relation == IF MovedRelation(b.relation) THEN b.relation ELSE "Alias"
<1>1. e.dst \in Storages
  BY DEF IsStatement
<1>2. \A ns : Apart(Result(st, ns).st)
  BY DEF Result
<1>3. \A ns : Apart(Result(Bind(st, e.dst, NullBinding), ns).st)
  BY <1>1, NewHarmless, BindHarmless DEF Result
<1>4. ASSUME Bound(st, e.src), ~Unresolved(b), b.object_id # kNullObjectId, NEW ns
      PROVE  Apart(Result(Bind(st, e.dst, Binding(b.object_id, relation)), ns).st)
  <2>1. relation \in PointerRelation \ {"Owner"}
    BY DEF MovedRelation, PointerRelation
  <2>2. Harmless(st, Binding(b.object_id, relation))
    BY <1>4, <2>1, NewHarmless DEF Apart, Bound, Unresolved
  <2>. QED BY <1>1, <2>2, BindHarmless DEF Result
<1> HIDE DEF b, relation
<1>. QED BY <1>2, <1>3, <1>4 DEF assignCopy, b, relation

LEMMA DeclareBorrowApart ==
    ASSUME NEW st, Apart(st), NEW e, IsStatement(e), e.op = "borrow"
    PROVE  Apart(declareBorrow(e, st).st)
<1> DEFINE parent == st.storages[e.src].object_id
           alias == Bind(st, e.dst, Binding(parent, "Alias"))
<1>1. e.dst \in Storages /\ e.borrow \in BorrowKind
  BY DEF IsStatement
<1>2. ASSUME Bound(st, e.src), parent \notin {kNullObjectId, kUnknownObjectId}
      PROVE  Apart(createBorrow(e.dst, parent, e.borrow, alias).st)
  <2>1. Harmless(st, Binding(parent, "Alias"))
    BY <1>2, NewHarmless DEF Apart, Bound
  <2>2. Apart(alias)
    BY <1>1, <2>1, BindHarmless
  <2>. QED BY <1>1, <2>2, CreateBorrowApart
<1>3. \A ns : Apart(Result(st, ns).st)
  BY DEF Result
<1>. QED BY <1>2, <1>3 DEF declareBorrow

-----------------------------------------------------------------------------
(* Calls, statements and blocks *)

LEMMA PassArgumentApart ==
    ASSUME NEW st, Apart(st), NEW arg, NEW effect, NEW from_body, NEW live
    PROVE  Apart(passArgument(arg, effect, from_body, live, st).st)
<1>1. \A ns : Apart(Result(st, ns).st)
  BY DEF Result
<1>2. Apart(destroyBinding(arg.s, live, st).st)
  BY DestructionOK, DestructionRebindsNothing, RebindsNothingKeeps DEF Apart, ResultOK
<1>3. Apart(transferBinding(arg.s, arg.move, from_body, st).st)
  BY TransferApart
<1>. QED BY <1>1, <1>2, <1>3 DEF passArgument

LEMMA PassArgumentsApart ==
    ASSUME NEW st, Apart(st), NEW args, Len(args) \in Nat, NEW summary, NEW live,
           NEW n \in 0 .. Len(args)
    PROVE  Apart(passArguments(args, summary, live, st)[n].st)
<1> DEFINE passed == passArguments(args, summary, live, st)
           S == {m \in Nat : m <= Len(args) => Apart(passed[m].st)}
<1>1. passed = [m \in 0 .. Len(args) |-> IF m = 0 THEN Result(st, {})
                  ELSE Passing(args, summary, live, m, passed[m - 1])]
  BY PassArgumentsDef
<1> HIDE DEF passed
<1>2. 0 \in S
  BY <1>1 DEF Result
<1>3. ASSUME NEW m \in Nat, m \in S, m + 1 <= Len(args)
      PROVE  Apart(passed[m + 1].st)
  <2>1. Apart(passed[m].st)
    BY <1>3
  <2>2. passed[m + 1] = Passing(args, summary, live, m + 1, passed[m])
    BY <1>1, <1>3
  <2>3. Apart(passArgument(args[m + 1], summary.params[m + 1],
                           summary.origin = "BodyVerified", live, passed[m].st).st)
    BY <2>1, PassArgumentApart
  <2>. QED BY <2>2, <2>3 DEF Passing, Result
<1>4. \A m \in Nat : m \in S => m + 1 \in S
  BY <1>3
<1>5. Nat \subseteq S
  <2> HIDE DEF S
  <2>. QED BY <1>2, <1>4, NatSetInduction
<1>. QED BY <1>5 DEF passed

LEMMA HandleCallApart ==
    ASSUME NEW st, Apart(st), NEW e, IsStatement(e), e.op = "call", NEW live
    PROVE  Apart(handleCall(e, live, st).st)
<1> DEFINE summary == Summaries[e.fn]
           last    == IF Len(e.args) < Len(summary.params) THEN Len(e.args)
                                                           ELSE Len(summary.params)
           covered == passArguments(e.args, summary, live, st)[last]
<1>1. \A ns : Apart(Result(st, ns).st)
  BY DEF Result
<1>2. ASSUME e.fn \in DOMAIN Summaries
      PROVE  Apart(covered.st)
  <2>1. Len(e.args) \in Nat
    BY DEF IsStatement, Passes
  <2>2. Len(summary.params) \in Nat
    BY <1>2, SummaryAssumption DEF FunctionSummary
  <2>3. last \in 0 .. Len(e.args)
    BY <2>1, <2>2
  <2> HIDE DEF last, summary
  <2>. QED BY <2>1, <2>3, PassArgumentsApart
<1> HIDE DEF covered
<1>3. e.fn \in DOMAIN Summaries => \A beyond : Apart(passBeyond(beyond, covered).st)
  BY <1>2 DEF passBeyond, Noting, Result
<1>. QED BY <1>1, <1>3 DEF handleCall, covered

\* A statement of a function without pointer-output calls.
Fits(e) == IsStatement(e) /\ e.op # "produce" /\ (e.op \in {"alloc", "result"} => e.site < kGenerationStride)

LEMMA ExpiringApart ==
    ASSUME NEW r, Apart(r.st), NEW live
    PROVE  Apart(Expiring(live, r).st)
BY ExpireBorrowsOK, BorrowsRebindNothing, RebindsNothingKeeps DEF Apart, Expiring, Result

LEMMA HandleStmtApart ==
    ASSUME Cand1, NEW st, Apart(st), NEW e, Fits(e), NEW live
    PROVE  Apart(handleStmt(e, live, st).st)
<1> DEFINE r == handleStmt(e, live, st)
<1>1. IsStatement(e)
  BY DEF Fits
<1>2. \A ns : Apart(Result(st, ns).st)
  BY DEF Result
<1>3. CASE e.op = "null"
  <2>1. Apart(Bind(st, e.dst, NullBinding))
    BY <1>1, <1>3, NewHarmless, BindHarmless DEF IsStatement
  <2>. QED BY <1>3, <2>1 DEF handleStmt, Result
<1>4. CASE e.op = "alloc"
  <2>1. e.dst \in Storages /\ e.site \in Sites
    BY <1>1, <1>4 DEF IsStatement, Allocates, Fits, Sites
  <2>2. Apart(bindAllocation(e.dst, e.site, e.in_loop, st).st)
    BY <2>1, BindAllocationApart
  <2>. QED BY <1>4, <2>2 DEF handleStmt, assignAllocation, Noting, Result
<1>5. CASE e.op = "copy"
  BY <1>1, <1>5, AssignCopyApart DEF handleStmt
<1>6. CASE e.op = "move"
  <2>1. e.dst \in Storages \cup {NoDestination}
    BY <1>1, <1>6 DEF IsStatement
  <2>. QED BY <1>6, <2>1, MoveApart DEF handleStmt
<1>7. CASE e.op = "borrow"
  BY <1>1, <1>7, DeclareBorrowApart DEF handleStmt
<1>8. CASE e.op = "result"
  BY <1>1, <1>8, AssignResultApart DEF handleStmt, Fits
<1>9. CASE e.op = "return"
  BY <1>2, <1>9 DEF handleStmt
<1>10. CASE e.op = "free"
  <2>1. Apart(handleFree(e.src, live, st).st)
    BY DestructionOK, DestructionRebindsNothing, RebindsNothingKeeps DEF Apart, ResultOK
  <2>. QED BY <1>10, <2>1, ExpiringApart DEF handleStmt
<1>11. CASE e.op = "use"
  BY <1>2, <1>11, ExpiringApart DEF handleStmt
<1>12. CASE e.op = "call"
  BY <1>1, <1>12, HandleCallApart, ExpiringApart DEF handleStmt
<1>13. CASE e.op = "set"
  BY <1>2, <1>13 DEF handleStmt
<1>14. CASE e.op = "step"
  <2> DEFINE s == Result(Bind(st, e.dst, DefaultBinding),
                         Unsupported("pointer-arithmetic-reassignment"))
  <2>1. Apart(s.st)
    BY <1>1, <1>14, NewHarmless, BindHarmless DEF IsStatement, Result
  <2>2. r = Expiring(IF e.point THEN live ELSE Storages, s)
    BY <1>14 DEF handleStmt
  <2>. QED BY <2>1, <2>2, ExpiringApart
<1>. QED BY <1>1, <1>3, <1>4, <1>5, <1>6, <1>7, <1>8, <1>9, <1>10, <1>11, <1>12, <1>13, <1>14
        DEF Fits, IsStatement

LEMMA ProcessStmtApart ==
    ASSUME Cand1, NEW st, Apart(st), NEW e, Fits(e), NEW live
    PROVE  Apart(processStmt(e, live, st).st)
<1>1. \A guards : ~Rebinds(st, [st EXCEPT !.pending_out_guards = guards])
  BY DEF Apart, FlowOK, IsFlowState, Rebinds
<1>2. Apart(killPendingGuards(e, st))
  BY <1>1, KillGuardsOK, RebindsNothingKeeps DEF Apart, killPendingGuards
<1>3. Apart(handleStmt(e, live, killPendingGuards(e, st)).st)
  BY <1>2, HandleStmtApart
<1>. QED BY <1>3 DEF processStmt, Noting, Result

LEMMA TransferApartOverBlock ==
    ASSUME Cand1, NEW st, Apart(st), NEW code, NEW live, Len(code) \in Nat,
           \A i \in 1 .. Len(code) : Fits(code[i])
    PROVE  Apart(transfer(code, live, st).st)
<1> DEFINE after == transferThrough(code, live, st)
           S == {m \in Nat : m <= Len(code) => Apart(after[m].st)}
<1>1. after = [m \in 0 .. Len(code) |-> IF m = 0 THEN Result(st, {})
                 ELSE Stepping(code, live, m, after[m - 1])]
  BY TransferThroughDef
<1> HIDE DEF after
<1>2. 0 \in S
  BY <1>1 DEF Result
<1>3. ASSUME NEW m \in Nat, m \in S, m + 1 <= Len(code)
      PROVE  Apart(after[m + 1].st)
  <2>1. Apart(after[m].st)
    BY <1>3
  <2>2. after[m + 1] = Stepping(code, live, m + 1, after[m])
    BY <1>1, <1>3
  <2>3. Apart(processStmt(code[m + 1], live[m + 1], after[m].st).st)
    BY <1>3, <2>1, ProcessStmtApart
  <2>. QED BY <2>2, <2>3 DEF Stepping, Result
<1>4. \A m \in Nat : m \in S => m + 1 \in S
  BY <1>3
<1>5. Nat \subseteq S
  <2> HIDE DEF S
  <2>. QED BY <1>2, <1>4, NatSetInduction
<1>. QED BY <1>5 DEF transfer, after

-----------------------------------------------------------------------------
(* Edges, joins and the state at entry *)

\* Without a mark there is nothing to refine.
LEMMA AlongEdgeApart ==
    ASSUME NEW st, Apart(st), NEW c, IsCondition(c), NEW s
    PROVE  Apart(AlongEdge(c, s, st))
<1>1. ASSUME NEW dest, NEW present, NEW absent
      PROVE  Refined(dest, present, absent, st) = st
  BY DEF Apart, NoneMarked, Refined, Bound
<1>2. \A true_edge : applyOutOwnerRefinement(c, true_edge, st) = st
  BY <1>1 DEF applyOutOwnerRefinement, IsCondition, refineByGuardPolarity, refineByDestNullCheck
<1>3. ~Rebinds(st, AlongEdge(c, s, st))
  BY <1>2 DEF AlongEdge, Apart, FlowOK, IsFlowState, Rebinds
<1>. QED BY <1>3, AlongEdgeOK, RebindsNothingKeeps DEF Apart

\* An owner in a join is an owner of that object on both sides; a storage is
\* bound to an object only if it is on one side.
LEMMA JoinOfBindings ==
    ASSUME NEW a \in CoherentBinding, NEW b \in CoherentBinding
    PROVE  /\ joinBinding(a, b).relation = "Owner" =>
                 /\ a.relation = "Owner" /\ b.relation = "Owner"
                 /\ a.object_id = joinBinding(a, b).object_id
                 /\ b.object_id = joinBinding(a, b).object_id
           /\ joinBinding(a, b).object_id \in {a.object_id, b.object_id, kUnknownObjectId}
           /\ joinBinding(a, b).produced_maybe = (a.produced_maybe \/ b.produced_maybe)
BY DEF joinBinding, joinTarget, joinRelation, CoherentBinding

LEMMA JoinApart ==
    ASSUME NEW x, Apart(x), NEW y, Apart(y)
    PROVE  Apart(joinFlow(x, y))
<1> DEFINE new == joinFlow(x, y)
           a(s) == BindingOr(x.storages, s)
           b(s) == BindingOr(y.storages, s)
<1>1. FlowOK(new)
  BY JoinFlowFacts DEF Apart, FlowOK
<1>2. /\ DOMAIN new.storages = DOMAIN x.storages \cup DOMAIN y.storages
      /\ \A s \in DOMAIN new.storages : new.storages[s] = joinBinding(a(s), b(s))
      /\ new.allocation_generations = x.allocation_generations \cup y.allocation_generations
  BY DEF joinFlow, joinStorages
<1>3. \A s : a(s) \in CoherentBinding /\ b(s) \in CoherentBinding
  BY DefaultIsCoherent, BindingFacts DEF BindingOr, Apart, Bound
<1>4. \A s : /\ s \notin DOMAIN x.storages => a(s) = DefaultBinding
             /\ s \notin DOMAIN y.storages => b(s) = DefaultBinding
             /\ s \in DOMAIN x.storages => a(s) = x.storages[s]
             /\ s \in DOMAIN y.storages => b(s) = y.storages[s]
  BY DEF BindingOr
<1>5. /\ DefaultBinding.relation = "Unknown" /\ ~DefaultBinding.produced_maybe
      /\ DefaultBinding.object_id = kUnknownObjectId
  BY DEF DefaultBinding, Binding
<1> HIDE DEF new, a, b
<1>6. ASSUME NEW s \in DOMAIN new.storages
      PROVE  /\ OwnerOf(new, s) => /\ s \in DOMAIN x.storages /\ OwnerOf(x, s)
                                    /\ new.storages[s].object_id = x.storages[s].object_id
             /\ new.storages[s].object_id \in {a(s).object_id, b(s).object_id, kUnknownObjectId}
             /\ ~new.storages[s].produced_maybe
  <2>1. new.storages[s] = joinBinding(a(s), b(s))
    BY <1>2
  <2>2. ~a(s).produced_maybe /\ ~b(s).produced_maybe
    BY <1>4, <1>5 DEF Apart, NoneMarked
  <2>3. /\ joinBinding(a(s), b(s)).relation = "Owner" =>
              a(s).relation = "Owner" /\ a(s).object_id = joinBinding(a(s), b(s)).object_id
        /\ joinBinding(a(s), b(s)).object_id \in {a(s).object_id, b(s).object_id, kUnknownObjectId}
        /\ joinBinding(a(s), b(s)).produced_maybe = (a(s).produced_maybe \/ b(s).produced_maybe)
    BY <1>3, JoinOfBindings
  <2>4. a(s).relation = "Owner" => s \in DOMAIN x.storages /\ a(s) = x.storages[s]
    BY <1>4, <1>5
  <2>5. ~new.storages[s].produced_maybe
    BY <2>1, <2>2, <2>3
  <2>6. OwnerOf(new, s) => /\ s \in DOMAIN x.storages /\ OwnerOf(x, s)
                           /\ new.storages[s].object_id = x.storages[s].object_id
    BY <2>1, <2>3, <2>4 DEF OwnerOf
  <2>. QED BY <2>1, <2>3, <2>5, <2>6
<1>7. OwnersApart(new) /\ NoneMarked(new)
  BY <1>6 DEF Apart, OwnersApart, NoneMarked
<1>8. GenerationsOnRecord(new)
  <2> SUFFICES ASSUME NEW s \in DOMAIN new.storages, NEW site \in Sites,
                      SecondGeneration(site) < kParameterObjectIdBase,
                      new.storages[s].object_id = SecondGeneration(site)
               PROVE  site \in new.allocation_generations
    BY DEF GenerationsOnRecord
  <2>1. SecondGeneration(site) # kUnknownObjectId
    BY GenerationIds
  <2>2. \/ s \in DOMAIN x.storages /\ x.storages[s].object_id = SecondGeneration(site)
        \/ s \in DOMAIN y.storages /\ y.storages[s].object_id = SecondGeneration(site)
    BY <1>4, <1>5, <1>6, <2>1
  <2>. QED BY <1>2, <2>2 DEF Apart, GenerationsOnRecord
<1>. QED BY <1>1, <1>7, <1>8 DEF Apart, new

LEMMA SeedApart ==
    ASSUME NEW p \in Programs
    PROVE  Apart(seedParameterState(p.params))
<1> DEFINE st == seedParameterState(p.params)
           index == DOMAIN p.params
           seeded == {p.params[i].s : i \in index}
           first(s) == CHOOSE i \in index : p.params[i].s = s
<1>1. FlowOK(st)
  BY SeedOK
<1>2. /\ DOMAIN st.storages = seeded
      /\ \A s \in seeded : /\ st.storages[s].object_id = kParameterObjectIdBase + first(s)
                            /\ st.storages[s].produced_maybe = FALSE
  BY DEF seedParameterState, parameterObjectIdForIndex, Binding, EmptyFlow
<1>3. \A s \in seeded : first(s) \in index /\ p.params[first(s)].s = s
  OBVIOUS
<1>4. index \subseteq Nat
  BY ParameterFacts
<1> HIDE DEF st, first
<1>5. \A s, t \in seeded : s # t => st.storages[s].object_id # st.storages[t].object_id
  <2> SUFFICES ASSUME NEW s \in seeded, NEW t \in seeded, s # t
               PROVE  st.storages[s].object_id # st.storages[t].object_id
    OBVIOUS
  <2>1. first(s) # first(t)
    BY <1>3
  <2>2. first(s) \in Nat /\ first(t) \in Nat
    BY <1>3, <1>4
  <2>3. /\ st.storages[s].object_id = kParameterObjectIdBase + first(s)
        /\ st.storages[t].object_id = kParameterObjectIdBase + first(t)
    BY <1>2
  <2>. QED BY <2>1, <2>2, <2>3, IdAssumption
<1>6. ASSUME NEW s \in seeded
      PROVE  /\ st.storages[s].object_id \in Nat
             /\ st.storages[s].object_id >= kParameterObjectIdBase
  <2>1. first(s) \in Nat
    BY <1>3, <1>4
  <2>2. st.storages[s].object_id = kParameterObjectIdBase + first(s)
    BY <1>2
  <2>. QED BY <2>1, <2>2, IdAssumption
<1>7. GenerationsOnRecord(st)
  <2>1. \A site \in Sites : SecondGeneration(site) \in Nat
    BY IdAssumption DEF Sites, SecondGeneration
  <2>. QED BY <1>2, <1>6, <2>1, IdAssumption DEF GenerationsOnRecord
<1>8. OwnersApart(st) /\ NoneMarked(st)
  BY <1>2, <1>5 DEF OwnersApart, NoneMarked
<1>. QED BY <1>1, <1>7, <1>8 DEF Apart, st

-----------------------------------------------------------------------------
(* The analysis *)

EntriesApart == \A b \in Reached : Apart(in_states[b])

LEMMA InitApart == Init => EntriesApart
BY SeedApart DEF Init, EntriesApart, Reached

LEMMA PropagateApart ==
    ASSUME Cand1, DOMAIN OutOwners = {}, SitesFit, TypeOK, EntriesApart,
           NEW b \in worklist, Propagate(b)
    PROVE  EntriesApart'
<1> DEFINE out == LeftWith(program, b, in_states[b])
<1>1. /\ b \in Reached /\ b \in Blocks
      /\ \/ UNCHANGED in_states
         \/ in_states' = Delivered(b, out)
  BY PropagateCases DEF Changes
<1>2. Apart(out)
  <2>1. \A i \in 1 .. Len(program.code[b]) : Fits(program.code[b][i])
    BY <1>1, ProgramFacts DEF TypeOK, SitesFit, Fits, IsStatement, Produces
  <2>2. Len(program.code[b]) \in Nat
    BY <1>1, ProgramFacts DEF TypeOK
  <2>3. Apart(in_states[b])
    BY <1>1 DEF EntriesApart
  <2>. QED BY <2>1, <2>2, <2>3, TransferApartOverBlock DEF LeftWith, TransferBlock
<1> HIDE DEF out
<1>3. \A s : Apart(Sent(b, s, out))
  BY <1>1, <1>2, ProgramFacts, AlongEdgeApart DEF TypeOK, Sent
<1>4. \A s \in Reached : Apart(joinFlow(in_states[s], Sent(b, s, out)))
  BY <1>3, JoinApart DEF EntriesApart
<1>5. \A s \in Reached \cup program.succ[b] : Apart(Delivered(b, out)[s])
  BY <1>3, <1>4 DEF Delivered, Arrived, EntriesApart
<1>6. DOMAIN Delivered(b, out) = Reached \cup program.succ[b]
  BY DEF Delivered
<1>. QED BY <1>1, <1>5, <1>6 DEF EntriesApart, Reached

LEMMA NextApart ==
    ASSUME Cand1, DOMAIN OutOwners = {}, SitesFit
    PROVE  TypeOK /\ EntriesApart /\ [Next]_vars => EntriesApart'
<1> SUFFICES ASSUME TypeOK, EntriesApart, [Next]_vars PROVE EntriesApart'
  OBVIOUS
<1>1. ASSUME NEW b \in Blocks, ProcessBlock(b) PROVE EntriesApart'
  BY <1>1, PropagateApart DEF ProcessBlock, LowestIn
<1>2. CASE UNCHANGED in_states
  BY <1>2 DEF EntriesApart, Reached
<1>. QED BY <1>1, <1>2 DEF Next, SweepBlock, Converged, EndSweep, Emit, vars

\* No two pointers are ever the owner of one object, at the level cand1 without
\* pointer-output contracts: whatever the function, its loops and its moves, a
\* copy is an alias, a move leaves no owner behind, and a site that comes round
\* again while an object of it is in reach makes another or none (bindAllocation).
THEOREM OwnersAreUnique ==
    ASSUME Cand1, DOMAIN OutOwners = {}, SitesFit
    PROVE  Spec => []UniqueOwner
<1>1. EntriesApart => UniqueOwner
  BY DEF EntriesApart, UniqueOwner, Apart, OwnersApart, OwnerOf
<1>2. Init => EntriesApart
  BY InitApart
<1>3. TypeOK /\ EntriesApart /\ [Next]_vars => EntriesApart'
  BY NextApart
<1>. QED BY <1>1, <1>2, <1>3, TypeCorrect, PTL DEF Spec
=============================================================================
