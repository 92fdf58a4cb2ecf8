------------------------ MODULE CheckedExecutionProofs ------------------------
(***************************************************************************)
(* Proof that a PASS is trustworthy for plain functions: those that make   *)
(* no borrow and no CAND_MOVE, whatever their branches, their loops, their *)
(* allocations and copies, and the callees that read, take or destroy      *)
(* their arguments.                                                        *)
(*                                                                         *)
(* The run and the analysis are related by Covers: what the flow state at  *)
(* the statement says of each pointer is true of the memory of the run.    *)
(* A statement about which the analysis has no finding and no obligation   *)
(* keeps it.  An edge keeps it because the entry state of the successor    *)
(* has absorbed the state that is sent there (FixpointCorrect), and        *)
(* absorbing forgets: it makes a pointer unresolved or a dead object       *)
(* possibly dead, but never an object that is gone Owned.  That an         *)
(* allocation makes the object of an id Owned again does no harm because   *)
(* no other pointer is bound to that id (UniqueOwnerProofs).               *)
(***************************************************************************)
EXTENDS CheckedExecution, UniqueOwnerProofs

-----------------------------------------------------------------------------
(* Plain functions *)

EffectOf(e, i) ==
    IF e.fn \in DOMAIN Summaries /\ i \in DOMAIN Summaries[e.fn].params
    THEN Summaries[e.fn].params[i] ELSE "None"

\* Two pointers to one object, one destroyed and one read by the same callee,
\* are beyond what the analysis can tell: a callee destroys its only argument.
Plain(e) ==
    /\ e.op \notin {"borrow", "move"}
    /\ e.op = "call" =>
          \A i \in DOMAIN e.args :
             ~e.args[i].move /\ (EffectOf(e, i) = "Destroy" => Len(e.args) = 1)
    /\ e.op = "result" /\ e.fn \in DOMAIN Summaries =>
          Summaries[e.fn].return_effect # "BorrowFromArg"

PlainPrograms ==
    \A p \in Programs : \A b \in Blocks : \A i \in 1 .. Len(p.code[b]) : Plain(p.code[b][i])

-----------------------------------------------------------------------------
(* What a flow state says of a memory m over a heap h *)

Gone(state) == state \in {"Dead", "MaybeDead", "Unknown"}

\* The object s is bound to, when it is known, is the one s points to, and known
\* to be gone if it is.
Tells(st, s, m, h) ==
    LET o == st.storages[s].object_id
    IN  /\ o # kNullObjectId
        /\ o # kUnknownObjectId =>
              /\ o % kGenerationStride = h[m[s]].id % kGenerationStride
              /\ ~h[m[s]].alive => o \in DOMAIN st.objects /\ Gone(st.objects[o].state)

Known(st, s) == st.storages[s].object_id # kUnknownObjectId

Covers(st, m, h) ==
    /\ \A s \in Storages : m[s] > NullPointer => s \in DOMAIN st.storages /\ Tells(st, s, m, h)
    /\ \A s, t \in Storages :
          m[s] > NullPointer /\ m[t] > NullPointer /\ Known(st, s) /\ Known(st, t) =>
             (m[s] = m[t] <=> st.storages[s].object_id = st.storages[t].object_id)
    /\ \A s \in DOMAIN st.storages : OwnerOf(st, s) => m[s] > NullPointer

\* Every pointer is null, uninitialised or points into the heap.
IsMemory(m, h) ==
    /\ h \in Seq([id : Nat, alive : BOOLEAN])
    /\ m \in [Storages -> Int]
    /\ \A s \in Storages : m[s] <= Len(h)

Unborrowed(st) == DOMAIN st.borrows = {}

\* What a verdict PASS leaves of the notes.
Silent(ns) == \A n \in ns : n.kind \notin {"finding", "unsupported"}

LEMMA SilentFacts ==
    /\ \A id, certainty : ~Silent(Finding(id, certainty))
    /\ \A id : ~Silent(Unsupported(id))
    /\ \A ns, more : Silent(ns \cup more) => Silent(ns) /\ Silent(more)
    /\ Silent({})
BY DEF Silent, Finding, Unsupported

-----------------------------------------------------------------------------
(* Joins *)

LEMMA JoinOfGone ==
    ASSUME NEW x \in ObjectState, NEW y \in ObjectState, Gone(y)
    PROVE  Gone(joinState(x, y))
BY DEF Gone, joinState, ObjectState

LEMMA AbsorbedBinding ==
    ASSUME NEW a \in CoherentBinding, NEW b \in CoherentBinding, joinBinding(a, b) = a
    PROVE  /\ b.object_id # kNullObjectId => a.object_id \in {b.object_id, kUnknownObjectId}
           /\ a.relation = "Owner" => b.relation = "Owner"
<1>1. a.object_id = joinTarget(a, b)[1] /\ a.relation = joinTarget(a, b)[2]
  BY DEF joinBinding
<1>2. b.object_id # kNullObjectId => a.object_id \in {b.object_id, kUnknownObjectId}
  BY <1>1 DEF joinTarget, KnownNull
<1>3. a.relation = "Owner" => b.relation = "Owner"
  BY JoinOfBindings
<1>. QED BY <1>2, <1>3

\* A state that has absorbed another says less.
LEMMA AbsorbingCovers ==
    ASSUME NEW x, FlowOK(x), NEW y, FlowOK(y), joinFlow(y, x) = y,
           NEW m, NEW h, Covers(x, m, h)
    PROVE  Covers(y, m, h)
<1>1. /\ y.storages = joinStorages(y.storages, x.storages)
      /\ y.objects = joinCommon(y.objects, x.objects, joinObject)
  <2>1. /\ joinFlow(y, x).storages = joinStorages(y.storages, x.storages)
        /\ joinFlow(y, x).objects = joinCommon(y.objects, x.objects, joinObject)
    BY DEF joinFlow
  <2>. QED BY <2>1
<1>2. ASSUME NEW s \in DOMAIN x.storages
      PROVE  /\ s \in DOMAIN y.storages
             /\ x.storages[s].object_id # kNullObjectId =>
                   y.storages[s].object_id \in {x.storages[s].object_id, kUnknownObjectId}
             /\ OwnerOf(y, s) => OwnerOf(x, s)
  <2>1. s \in DOMAIN y.storages
    BY <1>1 DEF joinStorages
  <2>2. y.storages[s] = joinBinding(y.storages[s], x.storages[s])
    BY <1>1, <2>1 DEF joinStorages, BindingOr
  <2>3. x.storages[s] \in CoherentBinding /\ y.storages[s] \in CoherentBinding
    BY <2>1, BindingFacts DEF Bound
  <2>. QED BY <2>1, <2>2, <2>3, AbsorbedBinding DEF OwnerOf
<1>3. ASSUME NEW s \in DOMAIN y.storages \ DOMAIN x.storages
      PROVE  ~OwnerOf(y, s)
  <2>1. y.storages[s] = joinBinding(y.storages[s], DefaultBinding)
    BY <1>1 DEF joinStorages, BindingOr
  <2>2. y.storages[s] \in CoherentBinding /\ DefaultBinding \in CoherentBinding
    BY BindingFacts, NewBindings DEF Bound
  <2>3. DefaultBinding.relation # "Owner"
    BY DEF DefaultBinding, Binding
  <2>. QED BY <2>1, <2>2, <2>3, AbsorbedBinding DEF OwnerOf
<1>4. ASSUME NEW o \in DOMAIN x.objects, Gone(x.objects[o].state)
      PROVE  o \in DOMAIN y.objects /\ Gone(y.objects[o].state)
  <2>1. o \in DOMAIN y.objects
    BY <1>1 DEF joinCommon
  <2>2. y.objects[o] = joinObject(y.objects[o], x.objects[o])
    BY <1>1, <2>1 DEF joinCommon
  <2>3. x.objects[o].state \in ObjectState /\ y.objects[o].state \in ObjectState
    BY <2>1 DEF FlowOK, IsFlowState, IsMap, ObjectInfo
  <2>4. y.objects[o].state = joinState(y.objects[o].state, x.objects[o].state)
    BY <2>2 DEF joinObject
  <2>. QED BY <1>4, <2>1, <2>3, <2>4, JoinOfGone
<1>5. ASSUME NEW s \in Storages, m[s] > NullPointer
      PROVE  /\ s \in DOMAIN y.storages /\ Tells(y, s, m, h)
             /\ Known(y, s) => y.storages[s].object_id = x.storages[s].object_id
  <2>1. s \in DOMAIN x.storages /\ Tells(x, s, m, h)
    BY <1>5 DEF Covers
  <2>2. /\ s \in DOMAIN y.storages
        /\ y.storages[s].object_id \in {x.storages[s].object_id, kUnknownObjectId}
    BY <1>2, <2>1 DEF Tells
  <2>3. Tells(y, s, m, h)
    BY <1>4, <2>1, <2>2, UnknownIdAssumption DEF Tells
  <2>. QED BY <2>2, <2>3 DEF Known
<1>6. \A s, t \in Storages :
         m[s] > NullPointer /\ m[t] > NullPointer /\ Known(y, s) /\ Known(y, t) =>
            (m[s] = m[t] <=> y.storages[s].object_id = y.storages[t].object_id)
  BY <1>5 DEF Covers, Known
<1>7. \A s \in DOMAIN y.storages : OwnerOf(y, s) => m[s] > NullPointer
  BY <1>2, <1>3 DEF Covers
<1>. QED BY <1>5, <1>6, <1>7 DEF Covers

\* Only the storages and the objects of a flow state say something.
SameStore(st, new) == new.storages = st.storages /\ new.objects = st.objects

LEMMA SameStoreCovers ==
    ASSUME NEW st, NEW new, SameStore(st, new), NEW m, NEW h
    PROVE  Covers(st, m, h) <=> Covers(new, m, h)
BY DEF SameStore, Covers, Tells, Known, OwnerOf

-----------------------------------------------------------------------------
(* Reading and destroying *)

LEMMA NoBorrowNotes ==
    ASSUME NEW st, Unborrowed(st)
    PROVE  /\ \A parent : LiveBorrows(st, parent) = {}
           /\ \A parent, live : OwnerDestroyed(parent, live, st) = {}
           /\ \A s : checkAccess(s, st) = checkTarget(s, st)
<1>1. \A parent : LiveBorrows(st, parent) = {}
  BY DEF Unborrowed, LiveBorrows
<1>2. \A s : checkBorrowAccess(s, st) = {} /\ checkMutableOwnerAccess(s, st) = {}
  BY <1>1 DEF Unborrowed, Borrowed, checkBorrowAccess, checkMutableOwnerAccess
<1>. QED BY <1>1, <1>2 DEF OwnerDestroyed, checkAccess

\* A read the analysis is silent about reaches no dead object.
LEMMA AccessSafe ==
    ASSUME NEW st, Apart(st), Unborrowed(st), NEW m, NEW h, Covers(st, m, h),
           NEW s \in Storages, Silent(checkAccess(s, st)), m[s] > NullPointer
    PROVE  h[m[s]].alive
<1> DEFINE b == st.storages[s]
<1>1. /\ Bound(st, s) /\ b.object_id # kNullObjectId
      /\ b.object_id # kUnknownObjectId /\ ~h[m[s]].alive => Gone(StateOf(st, b))
  BY DEF Covers, Tells, Bound, StateOf
<1>2. Silent(checkTarget(s, st))
  BY NoBorrowNotes
<1>3. ~b.produced_maybe
  BY <1>1 DEF Apart, NoneMarked, Bound
<1> HIDE DEF b
<1>4. ~Unresolved(b)
  <2>1. Bound(st, s) /\ ~b.produced_maybe /\ Unresolved(b) =>
           checkTarget(s, st) = Unsupported("ambiguous-alias-target")
    <3>1. Unresolved(b) => ~KnownNull(b)
      BY UnknownIdAssumption DEF Unresolved, KnownNull
    <3>. QED BY <3>1 DEF checkTarget, b
  <2>. QED BY <1>1, <1>2, <1>3, <2>1, SilentFacts
<1>5. ~KnownNull(b)
  BY <1>1 DEF KnownNull
<1>6. ~Gone(StateOf(st, b))
  BY <1>1, <1>2, <1>3, <1>4, <1>5, SilentFacts DEF checkTarget, b, Gone
<1>. QED BY <1>1, <1>4, <1>6 DEF Unresolved

\* What destroying through s does to a flow state when nothing is said of it.
Destroys(st, s, new) ==
    LET b == st.storages[s]
    IN  /\ Bound(st, s)
        /\ new.storages = st.storages
        /\ \/ KnownNull(b) /\ new.objects = st.objects
           \/ /\ HasObject(st, b)
              /\ StateOf(st, b) = "Owned"
              /\ \E state \in {"Dead", "MaybeDead"} :
                    new.objects = [st.objects EXCEPT ![b.object_id].state = state]

LEMMA DestroyedShape ==
    ASSUME NEW st, FlowOK(st), NEW s, Bound(st, s), NEW live,
           HasObject(st, st.storages[s])
    PROVE  LET b == st.storages[s]
           IN  /\ Silent(Destroyed(b, live, st).notes) => Destroys(st, s, Destroyed(b, live, st).st)
               /\ Silent(FreedMaybeNull(b, live, st).notes) =>
                     Destroys(st, s, FreedMaybeNull(b, live, st).st)
<1> DEFINE b == st.storages[s]
           after(state) == SetState(st, b.object_id, state)
<1>1. \A state : /\ after(state).storages = st.storages
                 /\ after(state).objects = [st.objects EXCEPT ![b.object_id].state = state]
                 /\ after(state).borrows = st.borrows
  BY DEF SetState, FlowOK, IsFlowState
<1>2. /\ invalidateBorrows(b.object_id, after("Dead")).storages = after("Dead").storages
      /\ invalidateBorrows(b.object_id, after("Dead")).objects = after("Dead").objects
  <2>1. FlowOK(after("Dead"))
    BY SetStateOK DEF HasObject, ObjectState
  <2> HIDE DEF after
  <2>. QED BY <2>1 DEF invalidateBorrows, FlowOK, IsFlowState
<1> HIDE DEF b
<1>3. Silent(Destroyed(b, live, st).notes) => Destroys(st, s, Destroyed(b, live, st).st)
  <2>1. CASE StateOf(st, b) = "Owned"
    <3>1. Destroyed(b, live, st).st = invalidateBorrows(b.object_id, after("Dead"))
      BY <2>1 DEF Destroyed, Result
    <3>. QED BY <1>1, <1>2, <2>1, <3>1 DEF Destroys, b
  <2>2. CASE StateOf(st, b) # "Owned"
    BY <2>2, SilentFacts DEF Destroyed, Result
  <2>. QED BY <2>1, <2>2
<1>4. Silent(FreedMaybeNull(b, live, st).notes) => Destroys(st, s, FreedMaybeNull(b, live, st).st)
  <2>1. CASE StateOf(st, b) = "Owned"
    <3>1. FreedMaybeNull(b, live, st).st = after("MaybeDead")
      BY <2>1 DEF FreedMaybeNull, Result
    <3>. QED BY <1>1, <2>1, <3>1 DEF Destroys, b
  <2>2. CASE StateOf(st, b) # "Owned"
    BY <1>3, <2>2, SilentFacts DEF FreedMaybeNull, Result
  <2>. QED BY <2>1, <2>2
<1>. QED BY <1>3, <1>4 DEF b

LEMMA DestructionShape ==
    ASSUME NEW st, FlowOK(st), NEW s, NEW live
    PROVE  /\ Silent(handleFree(s, live, st).notes) => Destroys(st, s, handleFree(s, live, st).st)
           /\ Silent(destroyBinding(s, live, st).notes) =>
                 Destroys(st, s, destroyBinding(s, live, st).st)
<1> DEFINE b == st.storages[s]
<1>1. Bound(st, s) /\ KnownNull(b) => Destroys(st, s, Result(st, {}).st)
  BY DEF Destroys, Result
<1>2. Bound(st, s) /\ HasObject(st, b) =>
         /\ Silent(Destroyed(b, live, st).notes) => Destroys(st, s, Destroyed(b, live, st).st)
         /\ Silent(FreedMaybeNull(b, live, st).notes) =>
               Destroys(st, s, FreedMaybeNull(b, live, st).st)
  BY DestroyedShape
<1> HIDE DEF b
<1>3. ~Silent(MovedDestroyed(b)) /\ ~Silent(OwnerDestroyed(b.object_id, live, st) \cup MovedDestroyed(b))
  BY SilentFacts DEF MovedDestroyed
<1>4. \A ns : Result(st, ns).notes = ns
  BY DEF Result
<1>. QED BY <1>1, <1>2, <1>3, <1>4, SilentFacts DEF handleFree, destroyBinding, b

\* The heap after the object s points to is destroyed.
Killed(m, h, s) == IF m[s] > NullPointer THEN [h EXCEPT ![m[s]].alive = FALSE] ELSE h

LEMMA KilledFacts ==
    ASSUME NEW m, NEW h, IsMemory(m, h), NEW s \in Storages, m[s] > NullPointer
    PROVE  /\ IsMemory(m, Killed(m, h, s))
           /\ m[s] \in 1 .. Len(h)
           /\ \A i \in 1 .. Len(h) : Killed(m, h, s)[i].id = h[i].id
           /\ \A i \in 1 .. Len(h) : i # m[s] => Killed(m, h, s)[i] = h[i]
<1> DEFINE Object == [id : Nat, alive : BOOLEAN]
           killed == [h EXCEPT ![m[s]].alive = FALSE]
<1>0. h \in Seq(Object) /\ m[s] \in Int /\ m[s] <= Len(h)
  BY DEF IsMemory
<1>1. m[s] \in 1 .. Len(h) /\ Len(h) \in Nat
  <2>1. Len(h) \in Nat
    BY <1>0
  <2>. QED BY <1>0, <2>1 DEF NullPointer
<1>2. h \in [1 .. Len(h) -> Object]
  <2> HIDE DEF Object
  <2>. QED BY <1>0
<1>3. h[m[s]] \in Object
  BY <1>1, <1>2
<1>4. [h[m[s]] EXCEPT !.alive = FALSE] \in Object /\ [h[m[s]] EXCEPT !.alive = FALSE].id = h[m[s]].id
  <2>1. \A x \in Object : [x EXCEPT !.alive = FALSE] \in Object /\ [x EXCEPT !.alive = FALSE].id = x.id
    OBVIOUS
  <2>. QED BY <1>3, <2>1
<1>5. killed = [h EXCEPT ![m[s]] = [h[m[s]] EXCEPT !.alive = FALSE]]
  BY <1>1, <1>2
<1> HIDE DEF killed
<1>6. /\ killed \in [1 .. Len(h) -> Object]
      /\ killed[m[s]].id = h[m[s]].id
      /\ \A i \in 1 .. Len(h) : i # m[s] => killed[i] = h[i]
  <2> HIDE DEF Object
  <2>. QED BY <1>1, <1>2, <1>4, <1>5
<1>7. killed \in Seq(Object) /\ Len(killed) = Len(h)
  <2> HIDE DEF Object
  <2>. QED BY <1>1, <1>6
<1>8. Killed(m, h, s) = killed
  BY DEF Killed, killed
<1>9. IsMemory(m, killed)
  <2> HIDE DEF killed
  <2>. QED BY <1>7 DEF IsMemory
<1>. QED BY <1>1, <1>6, <1>8, <1>9

\* A destruction the analysis is silent about is the first, and keeps track.
LEMMA DestroysCovers ==
    ASSUME NEW st, FlowOK(st), NEW s \in Storages, NEW new, Destroys(st, s, new),
           NEW m, NEW h, IsMemory(m, h), Covers(st, m, h)
    PROVE  /\ m[s] > NullPointer => h[m[s]].alive
           /\ IsMemory(m, Killed(m, h, s))
           /\ Covers(new, m, Killed(m, h, s))
<1> DEFINE b == st.storages[s]
           killed == Killed(m, h, s)
<1>0. \A o \in DOMAIN st.objects :
         /\ o \in DOMAIN new.objects
         /\ Gone(st.objects[o].state) => Gone(new.objects[o].state)
         /\ ~KnownNull(b) /\ o = b.object_id => Gone(new.objects[o].state)
  <2>1. st.objects \in [DOMAIN st.objects -> ObjectInfo]
    BY DEF FlowOK, IsFlowState, IsMap
  <2>2. CASE KnownNull(b) /\ new.objects = st.objects
    BY <2>2
  <2>3. ASSUME HasObject(st, b), NEW state \in {"Dead", "MaybeDead"},
               new.objects = [st.objects EXCEPT ![b.object_id].state = state]
        PROVE  \A o \in DOMAIN st.objects :
                  /\ o \in DOMAIN new.objects
                  /\ Gone(st.objects[o].state) => Gone(new.objects[o].state)
                  /\ o = b.object_id => Gone(new.objects[o].state)
    BY <2>1, <2>3 DEF HasObject, Gone, ObjectInfo
  <2>. QED BY <2>2, <2>3 DEF Destroys
<1>1. CASE m[s] <= NullPointer
  <2>1. killed = h /\ ~(m[s] > NullPointer)
    BY <1>1 DEF IsMemory, Killed, NullPointer
  <2>3. \A t \in Storages : m[t] > NullPointer => Tells(new, t, m, h)
    BY <1>0 DEF Covers, Tells, Destroys
  <2>4. Covers(new, m, h)
    BY <2>3 DEF Covers, Known, OwnerOf, Destroys
  <2>. QED BY <2>1, <2>4
<1>2. CASE m[s] > NullPointer
  <2>1. m[s] \in 1 .. Len(h) /\ IsMemory(m, killed)
    BY <1>2, KilledFacts
  <2>2. /\ \A i \in 1 .. Len(h) : killed[i].id = h[i].id
        /\ \A i \in 1 .. Len(h) : i # m[s] => killed[i] = h[i]
    BY <1>2, KilledFacts
  <2>3. b.object_id # kNullObjectId /\ Tells(st, s, m, h)
    BY <1>2 DEF Covers, Tells
  <2>4. HasObject(st, b) /\ StateOf(st, b) = "Owned"
    BY <2>3 DEF Destroys, KnownNull
  <2>5. h[m[s]].alive
    BY <2>3, <2>4 DEF Tells, HasObject, StateOf, Gone
  <2>6. \A o \in DOMAIN st.objects : /\ o \in DOMAIN new.objects
                                     /\ Gone(st.objects[o].state) => Gone(new.objects[o].state)
                                     /\ o = b.object_id => Gone(new.objects[o].state)
    BY <1>0, <2>3 DEF KnownNull
  <2>7. new.storages = st.storages
    BY DEF Destroys
  <2>8. ASSUME NEW t \in Storages, m[t] > NullPointer
        PROVE  Tells(new, t, m, killed)
    <3>1. m[t] \in 1 .. Len(h)
      BY <2>8 DEF IsMemory, NullPointer
    <3>2. CASE m[t] = m[s] /\ Known(st, t)
      <4>1. st.storages[t].object_id = b.object_id
        BY <1>2, <2>4, <2>8, <3>2 DEF Covers, Known, HasObject
      <4>. QED BY <2>2, <2>3, <2>4, <2>6, <2>7, <3>1, <3>2, <4>1 DEF Tells, HasObject
    <3>3. CASE m[t] # m[s] /\ Known(st, t)
      BY <2>2, <2>6, <2>7, <2>8, <3>1, <3>3 DEF Covers, Tells
    <3>4. CASE ~Known(st, t)
      BY <2>7, <2>8, <3>4 DEF Covers, Tells, Known
    <3>. QED BY <3>2, <3>3, <3>4
  <2>9. Covers(new, m, killed)
    BY <2>7, <2>8 DEF Covers, Known, OwnerOf
  <2>. QED BY <2>1, <2>5, <2>9
<1>3. m[s] \in Int
  BY DEF IsMemory
<1>. QED BY <1>1, <1>2, <1>3 DEF NullPointer

-----------------------------------------------------------------------------
(* Without borrows it makes no difference which of them are live *)

LEMMA NothingToExpire ==
    ASSUME NEW st, FlowOK(st), Unborrowed(st), NEW live
    PROVE  expireBorrowUses(live, st) = st
<1>1. [s \in DOMAIN st.borrows \cap live |-> st.borrows[s]] = st.borrows
  BY DEF Unborrowed, FlowOK, IsFlowState, IsMap
<1>. QED BY <1>1 DEF expireBorrowUses, FlowOK, IsFlowState

LEMMA UpdatesUnborrowed ==
    ASSUME NEW st, FlowOK(st), Unborrowed(st)
    PROVE  /\ \A s, b : Unborrowed(Bind(st, s, b))
           /\ \A o, state : Unborrowed(SetState(st, o, state))
           /\ \A id : Unborrowed(Born(id, st))
           /\ \A parent : Unborrowed(invalidateBorrows(parent, st))
           /\ \A guards : Unborrowed([st EXCEPT !.pending_out_guards = guards])
           /\ \A sites : Unborrowed([st EXCEPT !.allocation_generations = sites])
           /\ \A sites : Unborrowed([st EXCEPT !.widened_allocation_sites = sites])
<1>1. \A s, b : Unborrowed(Bind(st, s, b))
  BY DEF Unborrowed, Bind, FlowOK, IsFlowState
<1>2. \A o, state : Unborrowed(SetState(st, o, state))
  BY DEF Unborrowed, SetState, FlowOK, IsFlowState
<1>3. \A objects : Unborrowed([st EXCEPT !.objects = objects])
  BY DEF Unborrowed, FlowOK, IsFlowState
<1>4. \A parent : Unborrowed(invalidateBorrows(parent, st))
  BY DEF Unborrowed, invalidateBorrows, FlowOK, IsFlowState
<1>5. /\ \A guards : Unborrowed([st EXCEPT !.pending_out_guards = guards])
      /\ \A sites : Unborrowed([st EXCEPT !.allocation_generations = sites])
      /\ \A sites : Unborrowed([st EXCEPT !.widened_allocation_sites = sites])
  BY DEF Unborrowed, FlowOK, IsFlowState
<1>. QED BY <1>1, <1>2, <1>3, <1>4, <1>5 DEF Born

LEMMA DestructionUnborrowed ==
    ASSUME NEW st, FlowOK(st), Unborrowed(st), NEW s, NEW live, NEW other
    PROVE  /\ handleFree(s, live, st) = handleFree(s, other, st)
           /\ destroyBinding(s, live, st) = destroyBinding(s, other, st)
           /\ Unborrowed(handleFree(s, live, st).st)
           /\ Unborrowed(destroyBinding(s, live, st).st)
<1> DEFINE b == st.storages[s]
<1>1. \A parent : OwnerDestroyed(parent, live, st) = OwnerDestroyed(parent, other, st)
  BY NoBorrowNotes
<1>2. /\ Destroyed(b, live, st) = Destroyed(b, other, st)
      /\ FreedMaybeNull(b, live, st) = FreedMaybeNull(b, other, st)
  <2> HIDE DEF b
  <2>1. Destroyed(b, live, st) = Destroyed(b, other, st)
    BY <1>1 DEF Destroyed
  <2>. QED BY <1>1, <2>1 DEF FreedMaybeNull
<1>3. ASSUME HasObject(st, b)
      PROVE  Unborrowed(Destroyed(b, live, st).st) /\ Unborrowed(FreedMaybeNull(b, live, st).st)
  <2> DEFINE dead == SetState(st, b.object_id, "Dead")
  <2>1. FlowOK(dead) /\ Unborrowed(dead) /\ Unborrowed(SetState(st, b.object_id, "MaybeDead"))
    BY <1>3, SetStateOK, UpdatesUnborrowed DEF HasObject, ObjectState
  <2>2. Unborrowed(invalidateBorrows(b.object_id, dead))
    BY <2>1, UpdatesUnborrowed
  <2> HIDE DEF dead, b
  <2>3. Unborrowed(Destroyed(b, live, st).st)
    BY <2>2 DEF Destroyed, Result, dead
  <2>. QED BY <2>1, <2>3 DEF FreedMaybeNull, Result
<1> HIDE DEF b
<1>4. handleFree(s, live, st) = handleFree(s, other, st)
  BY <1>1, <1>2 DEF handleFree, b
<1>5. destroyBinding(s, live, st) = destroyBinding(s, other, st)
  BY <1>2 DEF destroyBinding, b
<1>6. \A ns : Unborrowed(Result(st, ns).st)
  BY DEF Result
<1>7. Unborrowed(handleFree(s, live, st).st)
  BY <1>3, <1>6 DEF handleFree, b
<1>8. Unborrowed(destroyBinding(s, live, st).st)
  BY <1>3, <1>6 DEF destroyBinding, b
<1>. QED BY <1>4, <1>5, <1>7, <1>8

-----------------------------------------------------------------------------
(* Calls *)

LEMMA PassArgumentPlain ==
    ASSUME Cand1, NEW st, FlowOK(st), Unborrowed(st), NEW arg, ~arg.move, NEW effect,
           NEW from_body, NEW live, NEW other
    PROVE  LET r == passArgument(arg, effect, from_body, live, st)
           IN  /\ r = passArgument(arg, effect, from_body, other, st)
               /\ Unborrowed(r.st)
               /\ effect # "Destroy" => r.st = st
<1>1. \A ns : Result(st, ns).st = st
  BY DEF Result
<1>2. transferBinding(arg.s, arg.move, from_body, st).st = st
  BY <1>1, ProfileAssumption DEF transferBinding
<1>. QED BY <1>1, <1>2, DestructionUnborrowed DEF passArgument

\* The state before argument n, and what passing it notes.
LEMMA PassArgumentsPlain ==
    ASSUME Cand1, NEW st, FlowOK(st), Unborrowed(st), NEW args, Len(args) \in Nat,
           \A i \in 1 .. Len(args) : ~args[i].move, NEW summary, NEW live, NEW other
    PROVE  LET passed == passArguments(args, summary, live, st)
           IN  /\ \A n \in 0 .. Len(args) :
                     /\ passed[n] = passArguments(args, summary, other, st)[n]
                     /\ FlowOK(passed[n].st) /\ Unborrowed(passed[n].st)
                     /\ (\A i \in 1 .. n : summary.params[i] # "Destroy") => passed[n].st = st
               /\ passed[0].st = st
               /\ \A n \in 1 .. Len(args) : passed[n] = Passing(args, summary, live, n, passed[n - 1])
<1> DEFINE passed == passArguments(args, summary, live, st)
           others == passArguments(args, summary, other, st)
           Good(n) == /\ passed[n] = others[n]
                      /\ FlowOK(passed[n].st) /\ Unborrowed(passed[n].st)
                      /\ (\A i \in 1 .. n : summary.params[i] # "Destroy") => passed[n].st = st
           S == {m \in Nat : m <= Len(args) => Good(m)}
<1>1. passed = [m \in 0 .. Len(args) |-> IF m = 0 THEN Result(st, {})
                  ELSE Passing(args, summary, live, m, passed[m - 1])]
  BY PassArgumentsDef
<1>2. others = [m \in 0 .. Len(args) |-> IF m = 0 THEN Result(st, {})
                  ELSE Passing(args, summary, other, m, others[m - 1])]
  BY PassArgumentsDef
<1> HIDE DEF passed, others
<1>3. /\ passed[0] = Result(st, {}) /\ others[0] = Result(st, {})
      /\ \A n \in 1 .. Len(args) :
            /\ passed[n] = Passing(args, summary, live, n, passed[n - 1])
            /\ others[n] = Passing(args, summary, other, n, others[n - 1])
  BY <1>1, <1>2
<1>4. 0 \in S
  BY <1>3 DEF Result
<1>5. ASSUME NEW m \in Nat, m \in S, m + 1 <= Len(args)
      PROVE  Good(m + 1)
  <2> DEFINE fb == summary.origin = "BodyVerified"
             arg == args[m + 1]
             effect == summary.params[m + 1]
             r == passArgument(arg, effect, fb, live, passed[m].st)
  <2>1. /\ passed[m] = others[m] /\ FlowOK(passed[m].st) /\ Unborrowed(passed[m].st)
        /\ (\A i \in 1 .. m : summary.params[i] # "Destroy") => passed[m].st = st
    BY <1>5
  <2>2. /\ r = passArgument(arg, effect, fb, other, passed[m].st)
        /\ Unborrowed(r.st)
        /\ effect # "Destroy" => r.st = passed[m].st
    <3>1. ~arg.move
      BY <1>5
    <3> HIDE DEF arg, effect, fb
    <3>. QED BY <2>1, <3>1, PassArgumentPlain
  <2>3. FlowOK(r.st)
    BY <2>1, PassArgumentOK DEF ResultOK
  <2>4. /\ passed[m + 1] = Passing(args, summary, live, m + 1, passed[m])
        /\ others[m + 1] = Passing(args, summary, other, m + 1, others[m])
    BY <1>3, <1>5
  <2>5. passed[m + 1].st = r.st
    BY <2>4 DEF Passing, Result
  <2>6. passed[m + 1] = others[m + 1]
    BY <2>1, <2>2, <2>4 DEF Passing
  <2> HIDE DEF r
  <2>7. (\A i \in 1 .. m + 1 : summary.params[i] # "Destroy") => r.st = st
    BY <2>1, <2>2, <1>5
  <2>. QED BY <2>2, <2>3, <2>5, <2>6, <2>7
<1>6. \A m \in Nat : m \in S => m + 1 \in S
  BY <1>5
<1>7. Nat \subseteq S
  <2> HIDE DEF S
  <2>. QED BY <1>4, <1>6, NatSetInduction
<1>8. \A n \in 0 .. Len(args) : Good(n)
  BY <1>7
<1>9. passed[0].st = st
  BY <1>3 DEF Result
<1>. QED BY <1>3, <1>8, <1>9 DEF passed, others

\* The arguments of a call a callee has an effect on.
LEMMA CoveredArguments ==
    ASSUME NEW e, IsStatement(e), e.op = "call", e.fn \in DOMAIN Summaries
    PROVE  LET last == IF Len(e.args) < Len(Summaries[e.fn].params)
                       THEN Len(e.args) ELSE Len(Summaries[e.fn].params)
           IN  /\ Len(e.args) \in Nat /\ DOMAIN e.args = 1 .. Len(e.args)
               /\ last \in 0 .. Len(e.args)
               /\ \A i \in 1 .. last : EffectOf(e, i) = Summaries[e.fn].params[i]
               /\ \A i \in DOMAIN e.args : i \in 1 .. last \/ EffectOf(e, i) = "None"
<1>1. e.args \in Seq([s : Storages, move : BOOLEAN])
  BY DEF IsStatement, Passes
<1>2. Len(e.args) \in Nat /\ DOMAIN e.args = 1 .. Len(e.args)
  <2> DEFINE A == [s : Storages, move : BOOLEAN]
  <2>1. e.args \in Seq(A)
    BY <1>1
  <2> HIDE DEF A
  <2>. QED BY <2>1
<1>3. Summaries[e.fn].params \in Seq(ParamEffect)
  BY SummaryAssumption DEF FunctionSummary
<1>4. /\ Len(Summaries[e.fn].params) \in Nat
      /\ DOMAIN Summaries[e.fn].params = 1 .. Len(Summaries[e.fn].params)
  BY <1>3
<1>. QED BY <1>2, <1>4 DEF EffectOf

LEMMA TakenSilently ==
    ASSUME Cand1, NEW st, NEW s, NEW from_body, NEW move, ~move, Tracked(st, s)
    PROVE  ~Silent(transferBinding(s, move, from_body, st).notes)
<1>1. \A ns : Result(st, ns).notes = ns
  BY DEF Result
<1>. QED BY <1>1, SilentFacts, ProfileAssumption DEF transferBinding, Tracked

LEMMA HandleCallPlain ==
    ASSUME Cand1, NEW st, FlowOK(st), Unborrowed(st), NEW e, IsStatement(e), e.op = "call",
           Plain(e), NEW live, NEW other
    PROVE  /\ handleCall(e, live, st) = handleCall(e, other, st)
           /\ Unborrowed(handleCall(e, live, st).st)
<1> DEFINE summary == Summaries[e.fn]
           last == IF Len(e.args) < Len(summary.params) THEN Len(e.args) ELSE Len(summary.params)
           covered(l) == passArguments(e.args, summary, l, st)[last]
<1>1. \A ns : Unborrowed(Result(st, ns).st)
  BY DEF Result
<1>2. ASSUME e.fn \in DOMAIN Summaries
      PROVE  covered(live) = covered(other) /\ Unborrowed(covered(live).st)
  <2>1. last \in 0 .. Len(e.args) /\ Len(e.args) \in Nat /\ \A i \in 1 .. Len(e.args) : ~e.args[i].move
    BY <1>2, CoveredArguments DEF Plain
  <2> HIDE DEF last, summary
  <2>. QED BY <2>1, PassArgumentsPlain
<1> HIDE DEF covered
<1>3. e.fn \in DOMAIN Summaries => \A beyond : Unborrowed(passBeyond(beyond, covered(live)).st)
  BY <1>2 DEF passBeyond, Noting, Result
<1>4. handleCall(e, live, st) = handleCall(e, other, st)
  BY <1>2 DEF handleCall, covered
<1>5. Unborrowed(handleCall(e, live, st).st)
  BY <1>1, <1>3 DEF handleCall, covered
<1>. QED BY <1>4, <1>5

\* Induction downwards.
LEMMA Downwards ==
    ASSUME NEW last \in Nat, NEW S, last \in S, \A n \in 1 .. last : n \in S => n - 1 \in S
    PROVE  0 .. last \subseteq S
<1> DEFINE Q == {n \in Nat : n <= last => last - n \in S}
<1>1. 0 \in Q
  OBVIOUS
<1>2. ASSUME NEW n \in Q PROVE n + 1 \in Q
  <2>1. CASE n + 1 <= last
    <3>1. last - n \in 1 .. last /\ (last - n) - 1 = last - (n + 1) /\ n \in Nat /\ n <= last
      BY <2>1
    <3>. QED BY <2>1, <3>1
  <2>2. CASE ~(n + 1 <= last)
    BY <2>2
  <2>. QED BY <2>1, <2>2
<1>3. Nat \subseteq Q
  <2> HIDE DEF Q
  <2>. QED BY <1>1, <1>2, NatSetInduction
<1>4. ASSUME NEW n \in 0 .. last PROVE n \in S
  <2>1. last - n \in Nat /\ last - n <= last /\ last - (last - n) = n
    <3> HIDE DEF Q
    <3>. QED OBVIOUS
  <2>2. last - n \in Q
    <3> HIDE DEF Q
    <3>. QED BY <1>3, <2>1
  <2>. QED BY <2>1, <2>2
<1>. QED BY <1>4

\* What a silent call says about its arguments and does to the flow state.
LEMMA CallShape ==
    ASSUME Cand1, NEW st, FlowOK(st), Unborrowed(st), NEW e, IsStatement(e), e.op = "call",
           Plain(e), NEW live, Silent(handleCall(e, live, st).notes)
    PROVE  /\ \A i \in DOMAIN e.args :
                 /\ EffectOf(e, i) = "Borrow" => Silent(checkAccess(e.args[i].s, st))
                 /\ EffectOf(e, i) = "TakeOwnership" => ~Tracked(st, e.args[i].s)
                 /\ EffectOf(e, i) = "Destroy" =>
                       Destroys(st, e.args[i].s, handleCall(e, live, st).st)
           /\ (\A i \in DOMAIN e.args : EffectOf(e, i) # "Destroy") =>
                 handleCall(e, live, st).st = st
<1> DEFINE summary == Summaries[e.fn]
           last == IF Len(e.args) < Len(summary.params) THEN Len(e.args) ELSE Len(summary.params)
           passed == passArguments(e.args, summary, live, st)
           fb == summary.origin = "BodyVerified"
           new == handleCall(e, live, st).st
<1>1. CASE e.fn \notin DOMAIN Summaries
  <2>1. \A i \in DOMAIN e.args : EffectOf(e, i) = "None"
    BY <1>1 DEF EffectOf
  <2>2. new = st
    BY <1>1 DEF handleCall, Result
  <2>. QED BY <2>1, <2>2
<1>2. CASE e.fn \in DOMAIN Summaries
  <2>1. /\ Len(e.args) \in Nat /\ DOMAIN e.args = 1 .. Len(e.args) /\ last \in 0 .. Len(e.args)
        /\ \A i \in 1 .. last : EffectOf(e, i) = summary.params[i]
        /\ \A i \in DOMAIN e.args : i \in 1 .. last \/ EffectOf(e, i) = "None"
    BY <1>2, CoveredArguments
  <2>2. \A i \in 1 .. Len(e.args) : ~e.args[i].move
    BY <2>1 DEF Plain
  <2>3. \A i \in 1 .. Len(e.args) : EffectOf(e, i) = "Destroy" => Len(e.args) = 1
    BY <2>1 DEF Plain
  <2>4. /\ \A n \in 0 .. Len(e.args) :
              (\A i \in 1 .. n : summary.params[i] # "Destroy") => passed[n].st = st
        /\ \A n \in 1 .. Len(e.args) : passed[n] = Passing(e.args, summary, live, n, passed[n - 1])
        /\ passed[0].st = st
    <3>1. passed = passArguments(e.args, summary, live, st)
      OBVIOUS
    <3> HIDE DEF summary, passed
    <3>2. /\ \A n \in 0 .. Len(e.args) :
                /\ passed[n] = passArguments(e.args, summary, live, st)[n]
                /\ FlowOK(passed[n].st) /\ Unborrowed(passed[n].st)
                /\ (\A i \in 1 .. n : summary.params[i] # "Destroy") => passed[n].st = st
          /\ passed[0].st = st
          /\ \A n \in 1 .. Len(e.args) : passed[n] = Passing(e.args, summary, live, n, passed[n - 1])
      <4>1. \A l : LET p == passArguments(e.args, summary, live, st)
                   IN  /\ \A n \in 0 .. Len(e.args) :
                             /\ p[n] = passArguments(e.args, summary, l, st)[n]
                             /\ FlowOK(p[n].st) /\ Unborrowed(p[n].st)
                             /\ (\A i \in 1 .. n : summary.params[i] # "Destroy") => p[n].st = st
                       /\ p[0].st = st
                       /\ \A n \in 1 .. Len(e.args) : p[n] = Passing(e.args, summary, live, n, p[n - 1])
        BY <2>1, <2>2, PassArgumentsPlain
      <4>. QED BY <3>1, <4>1
    <3>. QED BY <3>2
  <2>5. \E beyond : handleCall(e, live, st) = passBeyond(beyond, passed[last])
    <3> DEFINE beyond == {Argument(e.args, i) : i \in (1 .. Len(e.args)) \ DOMAIN summary.params}
    <3>1. \A id : Result(st, Unsupported(id)).notes = Unsupported(id)
      BY DEF Result
    <3>2. \A id : ~Silent(Result(st, Unsupported(id)).notes)
      BY <3>1, SilentFacts
    <3>3. ~summary.conflict /\ summary.return_effect # "Unknown"
      BY <1>2, <3>2 DEF handleCall
    <3>4. handleCall(e, live, st) = passBeyond(beyond, passed[last])
      BY <1>2, <3>3 DEF handleCall
    <3>. QED BY <3>4
  <2>6. Silent(passed[last].notes) /\ new = passed[last].st
    <3>1. PICK beyond : handleCall(e, live, st) = passBeyond(beyond, passed[last])
      BY <2>5
    <3>2. \A r : passBeyond(beyond, r).st = r.st /\ r.notes \subseteq passBeyond(beyond, r).notes
      BY DEF passBeyond, Noting, Result
    <3> HIDE DEF passed, last, summary
    <3>3. passed[last].notes \subseteq handleCall(e, live, st).notes /\ new = passed[last].st
      BY <3>1, <3>2
    <3>. QED BY <3>3 DEF Silent
  <2> HIDE DEF passed, summary, last, new
  <2>11. Len(e.args) \in Nat /\ last \in Nat /\ last <= Len(e.args)
    BY <2>1
  <2>7. ASSUME NEW i \in 1 .. last
        PROVE  /\ passed[i - 1].st = st
               /\ Silent(passed[i].notes)
               /\ Silent(passArgument(e.args[i], summary.params[i], fb, live, st).notes)
               /\ passed[i].st = passArgument(e.args[i], summary.params[i], fb, live, st).st
    <3>1. i \in 1 .. Len(e.args) /\ i - 1 \in 0 .. Len(e.args) /\ last \in Nat
      BY <2>1
    <3>2. passed[i - 1].st = st
      <4>1. \A j \in 1 .. i - 1 : j \in 1 .. last /\ summary.params[j] # "Destroy"
        <5> SUFFICES ASSUME NEW j \in 1 .. i - 1
                     PROVE  j \in 1 .. last /\ summary.params[j] # "Destroy"
          OBVIOUS
        <5>1. j \in 1 .. last /\ j \in 1 .. Len(e.args) /\ Len(e.args) # 1
          <6> DEFINE k == Len(e.args)
          <6>1. last \in Nat /\ k \in Nat /\ last <= k /\ i \in 1 .. last /\ j \in 1 .. i - 1
            BY <2>11
          <6> HIDE DEF k
          <6>2. j \in Nat /\ i \in Nat /\ 1 <= j /\ j < i /\ i <= last
            BY <6>1
          <6>3. j \in 1 .. last /\ j \in 1 .. k /\ k # 1
            BY <6>1, <6>2
          <6>. QED BY <6>3 DEF k
        <5>2. EffectOf(e, j) = summary.params[j]
          BY <2>1, <5>1
        <5>. QED BY <2>3, <5>1, <5>2
      <4>. QED BY <2>4, <3>1, <4>1
    <3>3. \A n \in 1 .. last : Silent(passed[n].notes) => Silent(passed[n - 1].notes)
      <4>1. \A n \in 1 .. last : n \in 1 .. Len(e.args)
        BY <2>1
      <4>2. \A n, r : Silent(Passing(e.args, summary, live, n, r).notes) => Silent(r.notes)
        BY SilentFacts DEF Passing, Result
      <4>. QED BY <2>4, <4>1, <4>2
    <3>4. Silent(passed[i].notes)
      <4> DEFINE S == {n \in 0 .. last : Silent(passed[n].notes)}
      <4>1. last \in S
        BY <2>6, <3>1
      <4>2. \A n \in 1 .. last : n \in S => n - 1 \in S
        BY <3>1, <3>3
      <4>3. 0 .. last \subseteq S
        <5> HIDE DEF S
        <5>. QED BY <3>1, <4>1, <4>2, Downwards
      <4>. QED BY <3>1, <4>3
    <3>5. passed[i] = Passing(e.args, summary, live, i, passed[i - 1])
      BY <2>4, <3>1
    <3>. QED BY <3>2, <3>4, <3>5, SilentFacts DEF Passing, Result
  <2>8. ASSUME NEW i \in DOMAIN e.args
        PROVE  /\ EffectOf(e, i) = "Borrow" => Silent(checkAccess(e.args[i].s, st))
               /\ EffectOf(e, i) = "TakeOwnership" => ~Tracked(st, e.args[i].s)
    <3>1. CASE i \in 1 .. last
      <4>1. ~e.args[i].move /\ EffectOf(e, i) = summary.params[i]
        BY <2>1, <2>2, <3>1
      <4>2. EffectOf(e, i) = "Borrow" => Silent(checkAccess(e.args[i].s, st))
        BY <2>7, <3>1, <4>1 DEF passArgument, Result
      <4>3. EffectOf(e, i) = "TakeOwnership" /\ Tracked(st, e.args[i].s) =>
               Silent(transferBinding(e.args[i].s, e.args[i].move, fb, st).notes)
        BY <2>7, <3>1, <4>1 DEF passArgument
      <4>. QED BY <4>1, <4>2, <4>3, TakenSilently
    <3>. QED BY <2>1, <3>1
  <2>9. ASSUME NEW i \in DOMAIN e.args, EffectOf(e, i) = "Destroy"
        PROVE  Destroys(st, e.args[i].s, new)
    <3>1. i = 1 /\ last = 1 /\ i \in 1 .. last /\ summary.params[i] = "Destroy"
      <4>1. i \in 1 .. last /\ EffectOf(e, i) = summary.params[i] /\ Len(e.args) = 1
        BY <2>1, <2>3, <2>9
      <4>. QED BY <2>9, <2>11, <4>1
    <3>2. passArgument(e.args[i], summary.params[i], fb, live, st) = destroyBinding(e.args[i].s, live, st)
      BY <3>1 DEF passArgument
    <3>. QED BY <2>6, <2>7, <3>1, <3>2, DestructionShape
  <2>10. (\A i \in DOMAIN e.args : EffectOf(e, i) # "Destroy") => new = st
    BY <2>1, <2>4, <2>6
  <2>. QED BY <2>8, <2>9, <2>10 DEF new
<1>. QED BY <1>1, <1>2

-----------------------------------------------------------------------------
(* Allocations *)

\* dest becomes the owner of a new object id.
Bears(st, dest, id, new) ==
    /\ id \notin {kNullObjectId, kUnknownObjectId}
    /\ \A t \in DOMAIN st.storages \ {dest} : st.storages[t].object_id # id
    /\ DOMAIN new.storages = DOMAIN st.storages \cup {dest}
    /\ new.storages[dest] = Binding(id, "Owner")
    /\ \A t \in DOMAIN st.storages \ {dest} : new.storages[t] = st.storages[t]
    /\ \A o \in DOMAIN st.objects \ {id} :
          o \in DOMAIN new.objects /\ new.objects[o] = st.objects[o]

LEMMA BornFacts ==
    ASSUME NEW st, FlowOK(st), NEW id
    PROVE  /\ Born(id, st).storages = st.storages /\ Born(id, st).borrows = st.borrows
           /\ \A o \in DOMAIN st.objects \ {id} :
                 o \in DOMAIN Born(id, st).objects /\ Born(id, st).objects[o] = st.objects[o]
<1>1. CASE id \in DOMAIN st.objects
  <2>1. Born(id, st) = [st EXCEPT !.objects = [st.objects EXCEPT ![id].state = "Owned"]]
    BY <1>1 DEF Born, SetState, FlowOK, IsFlowState
  <2>. QED BY <2>1 DEF FlowOK, IsFlowState, IsMap
<1>2. CASE id \notin DOMAIN st.objects
  <2> DEFINE object == [state |-> "Owned", origin |-> "Allocation", capability |-> "None"]
  <2>1. Born(id, st) = [st EXCEPT !.objects = With(st.objects, id, object)]
    BY <1>2 DEF Born
  <2> HIDE DEF object
  <2>. QED BY <2>1 DEF FlowOK, IsFlowState, IsMap, With
<1>. QED BY <1>1, <1>2

LEMMA AllocatedShape ==
    ASSUME NEW st, FlowOK(st), NEW dest \in Storages, NEW site \in Sites,
           NEW generation \in {0, 1},
           LET id == site + generation * kGenerationStride
           IN  id < kParameterObjectIdBase =>
                 \A t \in DOMAIN st.storages \ {dest} : st.storages[t].object_id # id
    PROVE  LET r == Allocated(dest, site, generation, st)
           IN  /\ r.st.borrows = st.borrows
               /\ Silent(r.notes) =>
                     \E id : id % kGenerationStride = site /\ Bears(st, dest, id, r.st)
<1> DEFINE id == objectIdForAllocation(site, generation)
           owner == Bind(st, dest, Binding(id, "Owner"))
<1>1. CASE id = kUnknownObjectId
  <2>1. /\ Allocated(dest, site, generation, st).st = Bind(st, dest, DefaultBinding)
        /\ Allocated(dest, site, generation, st).notes = Unsupported("allocation-object-id-exhausted")
    BY <1>1 DEF Allocated, Result
  <2>. QED BY <2>1, BindStorages, SilentFacts
<1>2. CASE id # kUnknownObjectId
  <2>1. id = site + generation * kGenerationStride /\ id < kParameterObjectIdBase
    BY <1>2 DEF objectIdForAllocation
  <2>2. id \in ObjectIds \ {kNullObjectId, kUnknownObjectId}
    BY <1>2, AllocationId DEF Sites
  <2>3. id % kGenerationStride = site
    <3>1. id = IF generation = 0 THEN site ELSE SecondGeneration(site)
      BY <2>1, IdAssumption DEF SecondGeneration, Sites
    <3>. QED BY <3>1, GenerationIds
  <2>4. Allocated(dest, site, generation, st).st = Born(id, owner)
    BY <1>2 DEF Allocated, Result
  <2>5. Binding(id, "Owner") \in CoherentBinding
    BY <2>2, NewBindings DEF PointerRelation
  <2>6. \A t \in DOMAIN st.storages \ {dest} : st.storages[t].object_id # id
    BY <2>1
  <2> HIDE DEF id
  <2>7. FlowOK(owner)
    BY <2>5, BindOK
  <2>8. /\ DOMAIN owner.storages = DOMAIN st.storages \cup {dest}
        /\ owner.storages[dest] = Binding(id, "Owner")
        /\ \A t \in DOMAIN st.storages \ {dest} : owner.storages[t] = st.storages[t]
        /\ owner.objects = st.objects /\ owner.borrows = st.borrows
    BY BindStorages
  <2> HIDE DEF owner
  <2>9. Bears(st, dest, id, Born(id, owner)) /\ Born(id, owner).borrows = st.borrows
    BY <2>2, <2>6, <2>7, <2>8, BornFacts DEF Bears
  <2>. QED BY <2>3, <2>4, <2>9
<1>. QED BY <1>1, <1>2

LEMMA BearsSame ==
    ASSUME NEW st, NEW other, SameStore(st, other), NEW dest, NEW id, NEW new
    PROVE  Bears(other, dest, id, new) <=> Bears(st, dest, id, new)
BY DEF Bears, SameStore

LEMMA AllocationShape ==
    ASSUME Cand1, NEW st, Apart(st), NEW dest \in Storages, NEW site \in Sites, NEW in_loop
    PROVE  LET r == bindAllocation(dest, site, in_loop, st)
           IN  /\ r.st.borrows = st.borrows
               /\ Silent(r.notes) =>
                     \E id : id % kGenerationStride = site /\ Bears(st, dest, id, r.st)
<1> DEFINE widened  == [st EXCEPT !.widened_allocation_sites = @ \cup {site}]
           advanced == [st EXCEPT !.allocation_generations = @ \cup {site}]
           generation == IF site \in st.allocation_generations THEN 1 ELSE 0
           retained == hasRetainedGenerationReference(site, dest, st)
           Right(r) == /\ r.st.borrows = st.borrows
                       /\ Silent(r.notes) =>
                             \E id : id % kGenerationStride = site /\ Bears(st, dest, id, r.st)
<1>1. /\ FlowOK(widened) /\ SameStore(st, widened) /\ widened.borrows = st.borrows
      /\ FlowOK(advanced) /\ SameStore(st, advanced) /\ advanced.borrows = st.borrows
  <2>1. \A sites : LET new == [st EXCEPT !.widened_allocation_sites = sites]
                   IN  FlowOK(new) /\ SameStore(st, new) /\ new.borrows = st.borrows
    BY DEF Apart, FlowOK, IsFlowState, SameStore
  <2>2. \A sites : LET new == [st EXCEPT !.allocation_generations = sites]
                   IN  FlowOK(new) /\ SameStore(st, new) /\ new.borrows = st.borrows
    BY DEF Apart, FlowOK, IsFlowState, SameStore
  <2>. QED BY <2>1, <2>2
<1> HIDE DEF widened, advanced
<1>2. ASSUME NEW new, FlowOK(new), new.borrows = st.borrows
      PROVE  Right(Widened(dest, new))
  <2>1. /\ Widened(dest, new).st = Bind(new, dest, DefaultBinding)
        /\ Widened(dest, new).notes = Unsupported("loop-heap-instance-widening")
    BY DEF Widened, Result
  <2>. QED BY <1>2, <2>1, BindStorages, SilentFacts
<1>3. ASSUME ~retained
      PROVE  Right(Allocated(dest, site, generation, st))
  <2>1. site + generation * kGenerationStride =
           IF generation = 0 THEN site ELSE SecondGeneration(site)
    BY IdAssumption DEF SecondGeneration, Sites
  <2>2. LET id == site + generation * kGenerationStride
        IN  id < kParameterObjectIdBase =>
               \A t \in DOMAIN st.storages \ {dest} : st.storages[t].object_id # id
    BY <1>3, <2>1, NotRetained
  <2>3. FlowOK(st) /\ generation \in {0, 1}
    BY DEF Apart
  <2> HIDE DEF generation
  <2>. QED BY <2>2, <2>3, AllocatedShape
<1>4. ASSUME generation = 0
      PROVE  Right(Allocated(dest, site, 1, advanced))
  <2>1. site + 1 * kGenerationStride = SecondGeneration(site)
    BY IdAssumption DEF SecondGeneration, Sites
  <2>2. SecondGeneration(site) < kParameterObjectIdBase =>
           \A t \in DOMAIN st.storages : st.storages[t].object_id # SecondGeneration(site)
    BY <1>4 DEF Apart, GenerationsOnRecord
  <2>3. LET id == site + 1 * kGenerationStride
        IN  id < kParameterObjectIdBase =>
               \A t \in DOMAIN advanced.storages \ {dest} : advanced.storages[t].object_id # id
    BY <1>1, <2>1, <2>2 DEF SameStore
  <2>4. LET r == Allocated(dest, site, 1, advanced)
        IN  /\ r.st.borrows = advanced.borrows
            /\ Silent(r.notes) =>
                  \E id : id % kGenerationStride = site /\ Bears(advanced, dest, id, r.st)
    BY <1>1, <2>3, AllocatedShape
  <2>. QED BY <1>1, <2>4, BearsSame
<1> HIDE DEF retained, Right
<1>5. Right(bindAllocation(dest, site, in_loop, st))
  BY <1>1, <1>2, <1>3, <1>4 DEF bindAllocation, retained, widened, advanced, Apart
<1>. QED BY <1>5 DEF Right

-----------------------------------------------------------------------------
(* Assignments *)

LEMMA AssignedMemory ==
    ASSUME NEW m, NEW h, IsMemory(m, h), NEW d \in Storages, NEW p \in Int, p <= Len(h)
    PROVE  /\ IsMemory([m EXCEPT ![d] = p], h)
           /\ [m EXCEPT ![d] = p][d] = p
           /\ \A s \in Storages \ {d} : [m EXCEPT ![d] = p][s] = m[s]
BY DEF IsMemory

\* A pointer that owns nothing and is null, uninitialised or a copy of another.
LEMMA BindCovers ==
    ASSUME NEW st, FlowOK(st), NEW m, NEW h, IsMemory(m, h), Covers(st, m, h),
           NEW d \in Storages, NEW b, b.relation # "Owner", NEW p \in Int, p <= Len(h),
           p > NullPointer => \E s \in Storages :
                                 m[s] = p /\ st.storages[s].object_id = b.object_id
    PROVE  Covers(Bind(st, d, b), [m EXCEPT ![d] = p], h)
<1> DEFINE new == Bind(st, d, b)
           mm == [m EXCEPT ![d] = p]
<1>1. /\ DOMAIN new.storages = DOMAIN st.storages \cup {d}
      /\ new.storages[d] = b
      /\ \A t \in DOMAIN st.storages \ {d} : new.storages[t] = st.storages[t]
      /\ new.objects = st.objects
  BY BindStorages
<1>2. mm[d] = p /\ \A s \in Storages \ {d} : mm[s] = m[s]
  BY DEF IsMemory
<1>3. DOMAIN st.storages \subseteq Storages
  BY DEF FlowOK, IsFlowState, IsMap
<1> HIDE DEF new, mm
\* Every pointer of the new memory is one of the old.
<1>4. ASSUME NEW s \in Storages, mm[s] > NullPointer
      PROVE  \E t \in Storages : /\ m[t] = mm[s] /\ s \in DOMAIN new.storages
                                 /\ st.storages[t].object_id = new.storages[s].object_id
  <2>1. CASE s = d
    BY <1>1, <1>2, <1>4, <2>1
  <2>2. CASE s # d
    BY <1>1, <1>2, <1>4, <2>2 DEF Covers
  <2>. QED BY <2>1, <2>2
<1>5. ASSUME NEW s \in Storages, mm[s] > NullPointer
      PROVE  s \in DOMAIN new.storages /\ Tells(new, s, mm, h)
  <2>1. PICK t \in Storages : /\ m[t] = mm[s] /\ s \in DOMAIN new.storages
                              /\ st.storages[t].object_id = new.storages[s].object_id
    BY <1>4, <1>5
  <2>2. Tells(st, t, m, h)
    BY <1>5, <2>1 DEF Covers
  <2>. QED BY <1>1, <2>1, <2>2 DEF Tells
<1>6. ASSUME NEW s \in Storages, NEW t \in Storages,
             mm[s] > NullPointer, mm[t] > NullPointer, Known(new, s), Known(new, t)
      PROVE  mm[s] = mm[t] <=> new.storages[s].object_id = new.storages[t].object_id
  <2>1. PICK x \in Storages : m[x] = mm[s] /\ st.storages[x].object_id = new.storages[s].object_id
    BY <1>4, <1>6
  <2>2. PICK y \in Storages : m[y] = mm[t] /\ st.storages[y].object_id = new.storages[t].object_id
    BY <1>4, <1>6
  <2>. QED BY <1>6, <2>1, <2>2 DEF Covers, Known
<1>7. ASSUME NEW s \in DOMAIN new.storages, OwnerOf(new, s)
      PROVE  mm[s] > NullPointer
  <2>1. s # d /\ s \in DOMAIN st.storages /\ OwnerOf(st, s)
    BY <1>1, <1>7 DEF OwnerOf
  <2>. QED BY <1>2, <1>3, <2>1 DEF Covers
<1>. QED BY <1>5, <1>6, <1>7 DEF Covers, new, mm

\* The heap with another object of the site.
Grown(h, site) == Append(h, [id |-> site, alive |-> TRUE])

LEMMA GrownFacts ==
    ASSUME NEW m, NEW h, IsMemory(m, h), NEW site \in Sites
    PROVE  /\ Grown(h, site) \in Seq([id : Nat, alive : BOOLEAN])
           /\ Len(Grown(h, site)) = Len(h) + 1 /\ Len(h) \in Nat
           /\ Grown(h, site)[Len(h) + 1] = [id |-> site, alive |-> TRUE]
           /\ \A i \in 1 .. Len(h) : Grown(h, site)[i] = h[i]
<1> DEFINE Object == [id : Nat, alive : BOOLEAN]
           object == [id |-> site, alive |-> TRUE]
<1>1. h \in Seq(Object)
  BY DEF IsMemory
<1>2. object \in Object
  BY DEF Sites
<1>3. /\ Append(h, object) \in Seq(Object) /\ Len(Append(h, object)) = Len(h) + 1 /\ Len(h) \in Nat
      /\ Append(h, object)[Len(h) + 1] = object
      /\ \A i \in 1 .. Len(h) : Append(h, object)[i] = h[i]
  <2> HIDE DEF Object, object
  <2>. QED BY <1>1, <1>2
<1>. QED BY <1>3 DEF Grown

LEMMA GrownMemory ==
    ASSUME NEW m, NEW h, IsMemory(m, h), NEW d \in Storages, NEW site \in Sites
    PROVE  IsMemory([m EXCEPT ![d] = Len(h) + 1], Grown(h, site))
<1> DEFINE mm == [m EXCEPT ![d] = Len(h) + 1]
           hh == Grown(h, site)
<1>1. hh \in Seq([id : Nat, alive : BOOLEAN]) /\ Len(hh) = Len(h) + 1 /\ Len(h) \in Nat
  BY GrownFacts
<1> HIDE DEF hh
<1>2. m \in [Storages -> Int] /\ \A s \in Storages : m[s] <= Len(h)
  BY DEF IsMemory
<1>3. mm \in [Storages -> Int] /\ \A s \in Storages : mm[s] <= Len(h) + 1
  BY <1>1, <1>2
<1>4. IsMemory(mm, hh)
  <2> HIDE DEF mm
  <2>. QED BY <1>1, <1>3 DEF IsMemory
<1>. QED BY <1>4 DEF hh

LEMMA BearsCovers ==
    ASSUME NEW st, FlowOK(st), NEW m, NEW h, IsMemory(m, h), Covers(st, m, h),
           NEW d \in Storages, NEW site \in Sites, NEW id, id % kGenerationStride = site,
           NEW new, Bears(st, d, id, new)
    PROVE  Covers(new, [m EXCEPT ![d] = Len(h) + 1], Grown(h, site))
<1> DEFINE mm == [m EXCEPT ![d] = Len(h) + 1]
           hh == Grown(h, site)
<1>1. /\ IsMemory(mm, hh) /\ Len(h) \in Nat
      /\ hh[Len(h) + 1].id = site /\ hh[Len(h) + 1].alive
      /\ \A i \in 1 .. Len(h) : hh[i] = h[i]
  <2>1. /\ hh \in Seq([id : Nat, alive : BOOLEAN])
        /\ Len(hh) = Len(h) + 1 /\ Len(h) \in Nat
        /\ hh[Len(h) + 1] = [id |-> site, alive |-> TRUE]
        /\ \A i \in 1 .. Len(h) : hh[i] = h[i]
    BY GrownFacts
  <2> HIDE DEF hh
  <2>4. IsMemory(mm, hh)
    BY GrownMemory DEF hh
  <2>. QED BY <2>1, <2>4
<1>2. mm[d] = Len(h) + 1 /\ \A s \in Storages \ {d} : mm[s] = m[s] /\ m[s] \in Int /\ m[s] <= Len(h)
  BY <1>1 DEF IsMemory
<1>3. DOMAIN st.storages \subseteq Storages
  BY DEF FlowOK, IsFlowState, IsMap
<1>4. new.storages[d].object_id = id /\ id # kNullObjectId /\ d \in DOMAIN new.storages
  BY DEF Bears, Binding
<1>5. site % kGenerationStride = site
  BY GenerationIds
<1> HIDE DEF mm, hh
<1>6. Tells(new, d, mm, hh)
  BY <1>1, <1>2, <1>4, <1>5 DEF Tells
<1>7. ASSUME NEW s \in Storages \ {d}, mm[s] > NullPointer
      PROVE  /\ s \in DOMAIN st.storages /\ s \in DOMAIN new.storages
             /\ new.storages[s] = st.storages[s] /\ st.storages[s].object_id # id
             /\ mm[s] = m[s] /\ m[s] \in 1 .. Len(h) /\ mm[s] # mm[d]
             /\ Tells(new, s, mm, hh)
  <2>1. mm[s] = m[s] /\ m[s] \in 1 .. Len(h) /\ mm[s] # mm[d]
    BY <1>1, <1>2, <1>7 DEF NullPointer
  <2>2. s \in DOMAIN st.storages /\ Tells(st, s, m, h)
    BY <1>7, <2>1 DEF Covers
  <2>3. /\ s \in DOMAIN new.storages /\ new.storages[s] = st.storages[s]
        /\ st.storages[s].object_id # id
    BY <2>2 DEF Bears
  <2>4. Tells(new, s, mm, hh)
    BY <1>1, <2>1, <2>2, <2>3 DEF Tells, Bears
  <2>. QED BY <2>1, <2>2, <2>3, <2>4
<1>8. \A s \in Storages : mm[s] > NullPointer => s \in DOMAIN new.storages /\ Tells(new, s, mm, hh)
  BY <1>4, <1>6, <1>7
<1>9. ASSUME NEW s \in Storages, NEW t \in Storages,
             mm[s] > NullPointer, mm[t] > NullPointer, Known(new, s), Known(new, t)
      PROVE  mm[s] = mm[t] <=> new.storages[s].object_id = new.storages[t].object_id
  <2>1. CASE s = d \/ t = d
    BY <1>4, <1>7, <1>9, <2>1
  <2>2. CASE s # d /\ t # d
    <3>1. /\ new.storages[s] = st.storages[s] /\ mm[s] = m[s]
          /\ new.storages[t] = st.storages[t] /\ mm[t] = m[t]
      BY <1>7, <1>9, <2>2
    <3>. QED BY <1>9, <3>1 DEF Covers, Known
  <2>. QED BY <2>1, <2>2
<1>10. ASSUME NEW s \in DOMAIN new.storages, OwnerOf(new, s)
       PROVE  mm[s] > NullPointer
  <2>1. CASE s = d
    BY <1>1, <1>2, <2>1 DEF NullPointer
  <2>2. CASE s # d
    <3>1. s \in DOMAIN st.storages /\ OwnerOf(st, s)
      BY <1>10, <2>2 DEF Bears, OwnerOf
    <3>. QED BY <1>2, <1>3, <2>2, <3>1 DEF Covers
  <2>. QED BY <2>1, <2>2
<1>. QED BY <1>8, <1>9, <1>10 DEF Covers, mm, hh

-----------------------------------------------------------------------------
(* Statements *)

LEMMA ExpiresNothing ==
    ASSUME NEW r, FlowOK(r.st), Unborrowed(r.st), NEW live
    PROVE  Expiring(live, r) = Result(r.st, r.notes)
BY NothingToExpire DEF Expiring

\* A plain statement makes no borrow, and what it does is the same whatever
\* borrows are live after it.
LEMMA HandleStmtPlain ==
    ASSUME Cand1, NEW st, Apart(st), Unborrowed(st), NEW e, Fits(e), Plain(e), NEW live, NEW other
    PROVE  /\ handleStmt(e, live, st) = handleStmt(e, other, st)
           /\ Unborrowed(handleStmt(e, live, st).st)
<1> DEFINE r == handleStmt(e, live, st)
<1>1. IsStatement(e) /\ FlowOK(st)
  BY DEF Fits, Apart
<1>2. \A ns : Result(st, ns).st = st
  BY DEF Result
<1>3. CASE e.op = "null"
  BY <1>1, <1>3, UpdatesUnborrowed DEF handleStmt, Result
<1>4. ASSUME e.op \in {"alloc", "result"}
      PROVE  Unborrowed(bindAllocation(e.dst, e.site, e.in_loop, st).st)
  <2>1. e.dst \in Storages /\ e.site \in Sites
    BY <1>1, <1>4 DEF IsStatement, Allocates, Fits, Sites
  <2>2. bindAllocation(e.dst, e.site, e.in_loop, st).st.borrows = st.borrows
    BY <2>1, AllocationShape
  <2>. QED BY <2>2 DEF Unborrowed
<1>5. CASE e.op = "alloc"
  BY <1>4, <1>5 DEF handleStmt, assignAllocation, Noting, Result
<1>6. CASE e.op = "copy"
  BY <1>1, <1>2, <1>6, UpdatesUnborrowed DEF handleStmt, assignCopy, Result
<1>7. CASE e.op = "result"
  <2>1. Unborrowed(bindSummaryReturn(e.dst, e, st).st)
    BY <1>2, <1>4, <1>7 DEF bindSummaryReturn, Plain
  <2>2. \A ns : Unborrowed(Noting(ns, bindSummaryReturn(e.dst, e, st)).st)
    BY <2>1 DEF Noting, Result
  <2>3. Unborrowed(assignResult(e, st).st)
    BY <1>2, <1>7, <2>2 DEF assignResult, Plain
  <2>. QED BY <1>7, <2>3 DEF handleStmt
<1>8. CASE e.op = "return" \/ e.op = "set"
  BY <1>2, <1>8 DEF handleStmt
<1>9. CASE e.op = "free"
  <2>1. \A l : FlowOK(handleFree(e.src, l, st).st)
    BY <1>1, DestructionOK DEF ResultOK
  <2>2. \A l : /\ handleFree(e.src, live, st) = handleFree(e.src, l, st)
               /\ Unborrowed(handleFree(e.src, live, st).st)
    BY <1>1, DestructionUnborrowed
  <2>3. \A l : Expiring(l, handleFree(e.src, live, st)) =
                 Result(handleFree(e.src, live, st).st, handleFree(e.src, live, st).notes)
    BY <2>1, <2>2, ExpiresNothing
  <2>4. handleStmt(e, other, st) = Expiring(other, handleFree(e.src, live, st))
    BY <1>9, <2>2 DEF handleStmt
  <2>5. r = Expiring(live, handleFree(e.src, live, st))
    BY <1>9 DEF handleStmt
  <2>. QED BY <2>2, <2>3, <2>4, <2>5 DEF Result
<1>10. CASE e.op = "use"
  <2> DEFINE read == Result(st, checkAccess(e.src, st))
  <2>1. read.st = st
    BY DEF Result
  <2> HIDE DEF read
  <2>2. \A l : Expiring(l, read) = Result(read.st, read.notes)
    BY <1>1, <2>1, ExpiresNothing
  <2>3. \A l : handleStmt(e, l, st) = Expiring(IF e.point THEN l ELSE Storages, read)
    BY <1>10 DEF handleStmt, read
  <2>4. \A l : handleStmt(e, l, st) = Result(st, read.notes)
    BY <2>1, <2>2, <2>3
  <2>. QED BY <1>2, <2>4
<1>11. CASE e.op = "call"
  <2>1. \A l : FlowOK(handleCall(e, l, st).st)
    BY <1>1, <1>11, HandleCallOK DEF ResultOK
  <2>2. \A l : /\ handleCall(e, live, st) = handleCall(e, l, st)
               /\ Unborrowed(handleCall(e, live, st).st)
    BY <1>1, <1>11, HandleCallPlain
  <2>3. \A l : Expiring(l, handleCall(e, live, st)) =
                 Result(handleCall(e, live, st).st, handleCall(e, live, st).notes)
    BY <2>1, <2>2, ExpiresNothing
  <2>4. handleStmt(e, other, st) = Expiring(other, handleCall(e, live, st))
    BY <1>11, <2>2 DEF handleStmt
  <2>5. r = Expiring(live, handleCall(e, live, st))
    BY <1>11 DEF handleStmt
  <2>. QED BY <2>2, <2>3, <2>4, <2>5 DEF Result
<1>12. CASE e.op = "step"
  <2> DEFINE s == Result(Bind(st, e.dst, DefaultBinding),
                         Unsupported("pointer-arithmetic-reassignment"))
  <2>1. FlowOK(s.st) /\ Unborrowed(s.st)
    BY <1>1, <1>12, UpdatesUnborrowed, BindOK, NewBindings DEF IsStatement, Result
  <2> HIDE DEF s
  <2>2. \A l : Expiring(l, s) = Result(s.st, s.notes)
    BY <2>1, ExpiresNothing
  <2>3. \A l : handleStmt(e, l, st) = Expiring(IF e.point THEN l ELSE Storages, s)
    BY <1>12 DEF handleStmt, s
  <2>. QED BY <2>1, <2>2, <2>3 DEF Result
<1> HIDE DEF r
<1>13. e.op \in {"null", "alloc", "copy", "result", "return", "set", "free", "use", "call", "step"}
  BY <1>1 DEF Fits, Plain, IsStatement
<1>. QED BY <1>3, <1>5, <1>6, <1>7, <1>8, <1>9, <1>10, <1>11, <1>12, <1>13

\* The state a statement finds once the guards it voids are gone.
LEMMA GuardsKilled ==
    ASSUME NEW st, Apart(st), Unborrowed(st), NEW e
    PROVE  LET killed == killPendingGuards(e, st)
           IN  Apart(killed) /\ Unborrowed(killed) /\ SameStore(st, killed)
<1>1. \A guards : LET new == [st EXCEPT !.pending_out_guards = guards]
                  IN  ~Rebinds(st, new) /\ Unborrowed(new) /\ SameStore(st, new)
  BY DEF Apart, FlowOK, IsFlowState, Rebinds, Unborrowed, SameStore
<1>2. Apart(killPendingGuards(e, st))
  BY <1>1, KillGuardsOK, RebindsNothingKeeps DEF Apart, killPendingGuards
<1>. QED BY <1>1, <1>2 DEF killPendingGuards

LEMMA ProcessStmtPlain ==
    ASSUME Cand1, NEW st, Apart(st), Unborrowed(st), NEW e, Fits(e), Plain(e), NEW live, NEW other
    PROVE  /\ processStmt(e, live, st) = processStmt(e, other, st)
           /\ Apart(processStmt(e, live, st).st) /\ Unborrowed(processStmt(e, live, st).st)
<1> DEFINE killed == killPendingGuards(e, st)
<1>1. Apart(killed) /\ Unborrowed(killed)
  BY GuardsKilled
<1> HIDE DEF killed
<1>2. /\ handleStmt(e, live, killed) = handleStmt(e, other, killed)
      /\ Unborrowed(handleStmt(e, live, killed).st)
  BY <1>1, HandleStmtPlain
<1>3. Apart(processStmt(e, live, st).st)
  BY ProcessStmtApart
<1>. QED BY <1>2, <1>3 DEF processStmt, Noting, Result, killed

-----------------------------------------------------------------------------
(* What a statement that is passed over in silence does to a memory that is *)
(* covered                                                                  *)

LEMMA NullCovers ==
    ASSUME NEW st, FlowOK(st), NEW m, NEW h, IsMemory(m, h), Covers(st, m, h),
           NEW e, IsStatement(e), e.op = "null", NEW live
    PROVE  /\ IsMemory([m EXCEPT ![e.dst] = NullPointer], h)
           /\ Covers(handleStmt(e, live, st).st, [m EXCEPT ![e.dst] = NullPointer], h)
<1>1. e.dst \in Storages
  BY DEF IsStatement
<1>2. NullPointer \in Int /\ NullPointer <= Len(h) /\ ~(NullPointer > NullPointer)
  <2>1. h \in Seq([id : Nat, alive : BOOLEAN])
    BY DEF IsMemory
  <2>2. Len(h) \in Nat
    BY <2>1
  <2>. QED BY <2>2 DEF NullPointer
<1>3. NullBinding.relation # "Owner"
  BY DEF NullBinding, Binding
<1>4. IsMemory([m EXCEPT ![e.dst] = NullPointer], h)
  BY <1>1, <1>2, AssignedMemory
<1>5. Covers(Bind(st, e.dst, NullBinding), [m EXCEPT ![e.dst] = NullPointer], h)
  BY <1>1, <1>2, <1>3, BindCovers
<1>6. handleStmt(e, live, st).st = Bind(st, e.dst, NullBinding)
  BY DEF handleStmt, Result
<1>. QED BY <1>4, <1>5, <1>6

LEMMA CopyCovers ==
    ASSUME NEW st, FlowOK(st), NEW m, NEW h, IsMemory(m, h), Covers(st, m, h),
           NEW e, IsStatement(e), e.op = "copy", NEW live, Silent(handleStmt(e, live, st).notes)
    PROVE  /\ IsMemory([m EXCEPT ![e.dst] = m[e.src]], h)
           /\ Covers(handleStmt(e, live, st).st, [m EXCEPT ![e.dst] = m[e.src]], h)
<1> DEFINE b == st.storages[e.src]
           relation == IF MovedRelation(b.relation) THEN b.relation ELSE "Alias"
           p == m[e.src]
<1>1. e.dst \in Storages /\ e.src \in Storages
  BY DEF IsStatement
<1>2. p \in Int /\ p <= Len(h)
  BY <1>1 DEF IsMemory
<1>3. IsMemory([m EXCEPT ![e.dst] = p], h)
  BY <1>1, <1>2, AssignedMemory
<1>4. PICK new : /\ new.relation # "Owner"
                 /\ p > NullPointer => new.object_id = b.object_id
                 /\ handleStmt(e, live, st).st = Bind(st, e.dst, new)
  <2>1. handleStmt(e, live, st) = assignCopy(e, st)
    BY DEF handleStmt
  <2>2. Bound(st, e.src) /\ ~Unresolved(b)
    BY <2>1, SilentFacts DEF assignCopy, Result
  <2>3. CASE b.object_id = kNullObjectId
    <3>1. handleStmt(e, live, st).st = Bind(st, e.dst, NullBinding)
      BY <2>1, <2>2, <2>3 DEF assignCopy, Result
    <3>2. ~(p > NullPointer)
      BY <1>1, <2>3 DEF Covers, Tells
    <3>3. NullBinding.relation # "Owner"
      BY DEF NullBinding, Binding
    <3>. QED BY <3>1, <3>2, <3>3
  <2>4. CASE b.object_id # kNullObjectId
    <3>1. handleStmt(e, live, st).st = Bind(st, e.dst, Binding(b.object_id, relation))
      BY <2>1, <2>2, <2>4 DEF assignCopy, Result
    <3>2. /\ Binding(b.object_id, relation).relation # "Owner"
          /\ Binding(b.object_id, relation).object_id = b.object_id
      BY DEF Binding, MovedRelation
    <3>. QED BY <3>1, <3>2
  <2>. QED BY <2>3, <2>4
<1>5. p > NullPointer => \E s \in Storages : m[s] = p /\ st.storages[s].object_id = new.object_id
  BY <1>1, <1>4
<1> HIDE DEF p
<1>6. Covers(Bind(st, e.dst, new), [m EXCEPT ![e.dst] = p], h)
  BY <1>1, <1>2, <1>4, <1>5, BindCovers
<1>. QED BY <1>3, <1>4, <1>6 DEF p

LEMMA NewObjectCovers ==
    ASSUME Cand1, NEW st, Apart(st), NEW m, NEW h, IsMemory(m, h), Covers(st, m, h),
           NEW e, Fits(e), Plain(e), e.op \in {"alloc", "result"},
           NEW live, Silent(handleStmt(e, live, st).notes)
    PROVE  /\ IsMemory([m EXCEPT ![e.dst] = Len(h) + 1], Grown(h, e.site))
           /\ Covers(handleStmt(e, live, st).st, [m EXCEPT ![e.dst] = Len(h) + 1], Grown(h, e.site))
           /\ e.op = "result" => e.fn \in DOMAIN Summaries /\ Summaries[e.fn].return_effect = "Owned"
<1> DEFINE r == bindAllocation(e.dst, e.site, e.in_loop, st)
<1>1. e.dst \in Storages /\ e.site \in Sites /\ FlowOK(st)
  BY DEF Fits, IsStatement, Allocates, Sites, Apart
<1>2. \A id : ~Silent(Result(st, Unsupported(id)).notes)
  BY SilentFacts DEF Result
<1>3. \A ns, x : Silent(Noting(ns, x).notes) => Silent(x.notes)
  BY SilentFacts DEF Noting, Result
<1>4. \A ns, x : Noting(ns, x).st = x.st
  BY DEF Noting, Result
<1>5. /\ Silent(r.notes) /\ handleStmt(e, live, st).st = r.st
      /\ e.op = "result" => e.fn \in DOMAIN Summaries /\ Summaries[e.fn].return_effect = "Owned"
  <2> HIDE DEF r
  <2>1. CASE e.op = "alloc"
    <3>1. handleStmt(e, live, st) = assignAllocation(e, st)
      BY <2>1 DEF handleStmt
    <3>. QED BY <1>3, <1>4, <2>1, <3>1 DEF assignAllocation, r
  <2>2. CASE e.op = "result"
    <3> DEFINE bound == bindSummaryReturn(e.dst, e, st)
    <3>1. handleStmt(e, live, st) = assignResult(e, st)
      BY <2>2 DEF handleStmt
    <3>2. Silent(bound.notes) =>
             /\ bound = r
             /\ e.fn \in DOMAIN Summaries /\ Summaries[e.fn].return_effect = "Owned"
      BY <1>2, <2>2 DEF bindSummaryReturn, r, Plain
    <3> HIDE DEF bound
    <3>3. \/ assignResult(e, st) = Noting({}, bound)
          \/ assignResult(e, st) = Noting(OwnerOverwrite(e, st), bound)
          \/ assignResult(e, st) = Result(st, Unsupported("borrow-unknown-parent"))
      BY <2>2 DEF assignResult, Plain, bound
    <3>. QED BY <1>2, <1>3, <1>4, <3>1, <3>2, <3>3
  <2>. QED BY <2>1, <2>2
<1>6. PICK id : id % kGenerationStride = e.site /\ Bears(st, e.dst, id, r.st)
  BY <1>1, <1>5, AllocationShape
<1> HIDE DEF r
<1>7. Covers(r.st, [m EXCEPT ![e.dst] = Len(h) + 1], Grown(h, e.site))
  BY <1>1, <1>6, BearsCovers
<1>8. IsMemory([m EXCEPT ![e.dst] = Len(h) + 1], Grown(h, e.site))
  BY <1>1, GrownMemory
<1>. QED BY <1>5, <1>7, <1>8

LEMMA FreeCovers ==
    ASSUME NEW st, FlowOK(st), Unborrowed(st), NEW m, NEW h, IsMemory(m, h), Covers(st, m, h),
           NEW e, IsStatement(e), e.op = "free", NEW live, Silent(handleStmt(e, live, st).notes)
    PROVE  /\ m[e.src] > NullPointer => h[m[e.src]].alive
           /\ IsMemory(m, Killed(m, h, e.src))
           /\ Covers(handleStmt(e, live, st).st, m, Killed(m, h, e.src))
<1> DEFINE r == handleFree(e.src, live, st)
<1>1. e.src \in Storages
  BY DEF IsStatement
<1>2. FlowOK(r.st) /\ Unborrowed(r.st)
  BY DestructionOK, DestructionUnborrowed DEF ResultOK
<1> HIDE DEF r
<1>3. handleStmt(e, live, st) = Result(r.st, r.notes)
  BY <1>2, ExpiresNothing DEF handleStmt, r
<1>4. Silent(r.notes) /\ handleStmt(e, live, st).st = r.st
  BY <1>3 DEF Result
<1>5. Destroys(st, e.src, r.st)
  BY <1>4, DestructionShape DEF r
<1>. QED BY <1>1, <1>4, <1>5, DestroysCovers

LEMMA UseSafe ==
    ASSUME NEW st, Apart(st), Unborrowed(st), NEW m, NEW h, IsMemory(m, h), Covers(st, m, h),
           NEW e, IsStatement(e), e.op = "use", NEW live, Silent(handleStmt(e, live, st).notes)
    PROVE  /\ m[e.src] > NullPointer => h[m[e.src]].alive
           /\ handleStmt(e, live, st).st = st
<1> DEFINE read == Result(st, checkAccess(e.src, st))
<1>1. read.st = st /\ read.notes = checkAccess(e.src, st)
  BY DEF Result
<1>2. handleStmt(e, live, st) = Expiring(IF e.point THEN live ELSE Storages, read)
  BY DEF handleStmt
<1> HIDE DEF read
<1>3. handleStmt(e, live, st) = Result(read.st, read.notes)
  BY <1>1, <1>2, ExpiresNothing DEF Apart
<1>4. Silent(checkAccess(e.src, st)) /\ handleStmt(e, live, st).st = st
  BY <1>1, <1>3 DEF Result
<1>5. e.src \in Storages
  BY DEF IsStatement
<1>. QED BY <1>4, <1>5, AccessSafe

\* One argument of a call, and the call as a whole.
LEMMA CallCovers ==
    ASSUME Cand1, NEW st, Apart(st), Unborrowed(st), NEW m, NEW h, IsMemory(m, h), Covers(st, m, h),
           NEW e, IsStatement(e), e.op = "call", Plain(e),
           NEW live, Silent(handleStmt(e, live, st).notes)
    PROVE  LET new == handleStmt(e, live, st).st
           IN  /\ \A i \in DOMAIN e.args : LET s == e.args[i].s IN
                     /\ s \in Storages
                     /\ EffectOf(e, i) \in {"Borrow", "Destroy"} /\ m[s] > NullPointer => h[m[s]].alive
                     /\ EffectOf(e, i) = "TakeOwnership" => ~(m[s] > NullPointer)
                     /\ EffectOf(e, i) = "Destroy" =>
                           /\ IsMemory(m, Killed(m, h, s))
                           /\ Covers(new, m, Killed(m, h, s))
               /\ (\A i \in DOMAIN e.args : EffectOf(e, i) # "Destroy") => new = st
<1> DEFINE r == handleCall(e, live, st)
<1>0. FlowOK(st)
  BY DEF Apart
<1>1. FlowOK(r.st) /\ Unborrowed(r.st)
  BY <1>0, HandleCallOK, HandleCallPlain DEF ResultOK
<1> HIDE DEF r
<1>2. handleStmt(e, live, st) = Result(r.st, r.notes)
  BY <1>1, ExpiresNothing DEF handleStmt, r
<1>3. Silent(r.notes) /\ handleStmt(e, live, st).st = r.st
  BY <1>2 DEF Result
<1>4. /\ \A i \in DOMAIN e.args :
            /\ EffectOf(e, i) = "Borrow" => Silent(checkAccess(e.args[i].s, st))
            /\ EffectOf(e, i) = "TakeOwnership" => ~Tracked(st, e.args[i].s)
            /\ EffectOf(e, i) = "Destroy" => Destroys(st, e.args[i].s, r.st)
      /\ (\A i \in DOMAIN e.args : EffectOf(e, i) # "Destroy") => r.st = st
  BY <1>0, <1>3, CallShape DEF r
<1>5. \A i \in DOMAIN e.args : e.args[i].s \in Storages
  <2> DEFINE A == [s : Storages, move : BOOLEAN]
  <2>1. e.args \in Seq(A) /\ \A a \in A : a.s \in Storages
    BY DEF IsStatement, Passes
  <2> HIDE DEF A
  <2>. QED BY <2>1
<1>6. ASSUME NEW i \in DOMAIN e.args
      PROVE  LET s == e.args[i].s
             IN  /\ EffectOf(e, i) \in {"Borrow", "Destroy"} /\ m[s] > NullPointer => h[m[s]].alive
                 /\ EffectOf(e, i) = "TakeOwnership" => ~(m[s] > NullPointer)
                 /\ EffectOf(e, i) = "Destroy" => /\ IsMemory(m, Killed(m, h, s))
                                                  /\ Covers(r.st, m, Killed(m, h, s))
  <2> DEFINE s == e.args[i].s
  <2>1. s \in Storages
    BY <1>5
  <2>2. EffectOf(e, i) = "Borrow" /\ m[s] > NullPointer => h[m[s]].alive
    BY <1>4, <2>1, AccessSafe
  <2>3. EffectOf(e, i) = "Destroy" =>
           /\ m[s] > NullPointer => h[m[s]].alive
           /\ IsMemory(m, Killed(m, h, s)) /\ Covers(r.st, m, Killed(m, h, s))
    BY <1>0, <1>4, <2>1, DestroysCovers
  <2>4. EffectOf(e, i) = "TakeOwnership" => ~(m[s] > NullPointer)
    <3>1. m[s] > NullPointer => Bound(st, s) /\ st.storages[s].object_id # kNullObjectId
      BY <2>1 DEF Covers, Tells, Bound
    <3>2. m[s] > NullPointer => Tracked(st, s)
      BY <3>1 DEF Tracked, KnownNull
    <3>. QED BY <1>4, <3>2
  <2>. QED BY <2>2, <2>3, <2>4
<1>. QED BY <1>3, <1>4, <1>5, <1>6

\* A silent call that destroys nothing changes nothing.
LEMMA CallKeeps ==
    ASSUME Cand1, NEW st, Apart(st), Unborrowed(st), NEW e, IsStatement(e), e.op = "call", Plain(e),
           NEW live, Silent(handleStmt(e, live, st).notes),
           \A i \in DOMAIN e.args : EffectOf(e, i) # "Destroy"
    PROVE  handleStmt(e, live, st).st = st
<1> DEFINE r == handleCall(e, live, st)
<1>0. FlowOK(st)
  BY DEF Apart
<1>1. FlowOK(r.st) /\ Unborrowed(r.st)
  BY <1>0, HandleCallOK, HandleCallPlain DEF ResultOK
<1> HIDE DEF r
<1>2. handleStmt(e, live, st) = Result(r.st, r.notes)
  BY <1>1, ExpiresNothing DEF handleStmt, r
<1>3. Silent(r.notes) /\ handleStmt(e, live, st).st = r.st
  BY <1>2 DEF Result
<1>4. r.st = st
  BY <1>0, <1>3, CallShape DEF r
<1>. QED BY <1>3, <1>4

\* A silent statement is one whose handler is silent, about a state that says
\* the same.
LEMMA Handled ==
    ASSUME NEW st, Apart(st), Unborrowed(st), NEW e, NEW live,
           Silent(processStmt(e, live, st).notes)
    PROVE  \E k : /\ Apart(k) /\ Unborrowed(k) /\ SameStore(st, k)
                  /\ processStmt(e, live, st).st = handleStmt(e, live, k).st
                  /\ Silent(handleStmt(e, live, k).notes)
<1> DEFINE k == killPendingGuards(e, st)
<1>1. Apart(k) /\ Unborrowed(k) /\ SameStore(st, k)
  BY GuardsKilled
<1> HIDE DEF k
<1>2. /\ processStmt(e, live, st).st = handleStmt(e, live, k).st
      /\ Silent(handleStmt(e, live, k).notes)
  BY SilentFacts DEF processStmt, Noting, Result, k
<1>. QED BY <1>1, <1>2

-----------------------------------------------------------------------------
(* Blocks *)

SilentBlock(ns) == \A n \in ns : n.note.kind \notin {"finding", "unsupported"}

\* Through a block of plain statements: the states between them are the same
\* whatever the borrows, and a silent block is one of silent statements.
LEMMA TraceFacts ==
    ASSUME Cand1, NEW st, Apart(st), Unborrowed(st), NEW code, Len(code) \in Nat,
           \A i \in 1 .. Len(code) : Fits(code[i]) /\ Plain(code[i]), NEW live, NEW other
    PROVE  LET through == transferThrough(code, live, st)
               alike == transferThrough(code, other, st)
           IN  /\ through[0].st = st
               /\ \A n \in 0 .. Len(code) :
                     /\ through[n] = alike[n]
                     /\ Apart(through[n].st) /\ Unborrowed(through[n].st)
               /\ \A n \in 1 .. Len(code) :
                     /\ through[n].st = processStmt(code[n], live[n], through[n - 1].st).st
                     /\ SilentBlock(through[Len(code)].notes) =>
                           Silent(processStmt(code[n], live[n], through[n - 1].st).notes)
<1> DEFINE through == transferThrough(code, live, st)
           alike == transferThrough(code, other, st)
           Good(n) == /\ through[n] = alike[n]
                      /\ Apart(through[n].st) /\ Unborrowed(through[n].st)
           S == {m \in Nat : m <= Len(code) => Good(m)}
<1>1. through = [m \in 0 .. Len(code) |-> IF m = 0 THEN Result(st, {})
                   ELSE Stepping(code, live, m, through[m - 1])]
  BY TransferThroughDef
<1>2. alike = [m \in 0 .. Len(code) |-> IF m = 0 THEN Result(st, {})
                 ELSE Stepping(code, other, m, alike[m - 1])]
  BY TransferThroughDef
<1> HIDE DEF through, alike
<1>3. /\ through[0] = Result(st, {}) /\ alike[0] = Result(st, {})
      /\ \A n \in 1 .. Len(code) : /\ through[n] = Stepping(code, live, n, through[n - 1])
                                   /\ alike[n] = Stepping(code, other, n, alike[n - 1])
  BY <1>1, <1>2
<1>4. 0 \in S
  BY <1>3 DEF Result
<1>5. ASSUME NEW m \in Nat, m \in S, m + 1 <= Len(code)
      PROVE  Good(m + 1)
  <2> DEFINE before == through[m].st
             r == processStmt(code[m + 1], live[m + 1], before)
  <2>1. through[m] = alike[m] /\ Apart(before) /\ Unborrowed(before)
    BY <1>5
  <2>2. Fits(code[m + 1]) /\ Plain(code[m + 1])
    BY <1>5
  <2>3. /\ r = processStmt(code[m + 1], other[m + 1], before)
        /\ Apart(r.st) /\ Unborrowed(r.st)
    BY <2>1, <2>2, ProcessStmtPlain
  <2>4. /\ through[m + 1] = Stepping(code, live, m + 1, through[m])
        /\ alike[m + 1] = Stepping(code, other, m + 1, alike[m])
    BY <1>3, <1>5
  <2>5. through[m + 1].st = r.st
    BY <2>4 DEF Stepping, Result
  <2>6. through[m + 1] = alike[m + 1]
    BY <2>1, <2>3, <2>4 DEF Stepping
  <2>. QED BY <2>3, <2>5, <2>6
<1>6. \A m \in Nat : m \in S => m + 1 \in S
  BY <1>5
<1>7. Nat \subseteq S
  <2> HIDE DEF S
  <2>. QED BY <1>4, <1>6, NatSetInduction
<1>8. \A n \in 0 .. Len(code) : Good(n)
  BY <1>7
<1>9. \A n \in 1 .. Len(code) :
        /\ through[n].st = processStmt(code[n], live[n], through[n - 1].st).st
        /\ SilentBlock(through[n].notes) =>
              /\ SilentBlock(through[n - 1].notes)
              /\ Silent(processStmt(code[n], live[n], through[n - 1].st).notes)
  <2>1. \A n, r : LET step == processStmt(code[n], live[n], r.st)
                  IN  /\ Stepping(code, live, n, r).st = step.st
                      /\ r.notes \subseteq Stepping(code, live, n, r).notes
                      /\ \A x \in step.notes : [index |-> n, note |-> x] \in Stepping(code, live, n, r).notes
    BY DEF Stepping, Result
  <2>2. \A n, r : SilentBlock(Stepping(code, live, n, r).notes) =>
                     /\ SilentBlock(r.notes)
                     /\ Silent(processStmt(code[n], live[n], r.st).notes)
    <3> SUFFICES ASSUME NEW n, NEW r, SilentBlock(Stepping(code, live, n, r).notes)
                 PROVE  /\ SilentBlock(r.notes)
                        /\ Silent(processStmt(code[n], live[n], r.st).notes)
      OBVIOUS
    <3>1. SilentBlock(r.notes)
      BY <2>1 DEF SilentBlock
    <3>2. ASSUME NEW x \in processStmt(code[n], live[n], r.st).notes
          PROVE  x.kind \notin {"finding", "unsupported"}
      <4>1. [index |-> n, note |-> x] \in Stepping(code, live, n, r).notes
        BY <2>1
      <4>. QED BY <4>1 DEF SilentBlock
    <3>. QED BY <3>1, <3>2 DEF Silent
  <2>. QED BY <1>3, <2>1, <2>2
<1>10. ASSUME SilentBlock(through[Len(code)].notes)
       PROVE  \A n \in 0 .. Len(code) : SilentBlock(through[n].notes)
  <2> DEFINE Quiet == {n \in 0 .. Len(code) : SilentBlock(through[n].notes)}
  <2>1. Len(code) \in Quiet
    BY <1>10
  <2>2. \A n \in 1 .. Len(code) : n \in Quiet => n - 1 \in Quiet
    BY <1>9
  <2>3. 0 .. Len(code) \subseteq Quiet
    <3> HIDE DEF Quiet
    <3>. QED BY <2>1, <2>2, Downwards
  <2>. QED BY <2>3
<1>11. through[0].st = st
  BY <1>3 DEF Result
<1>12. \A n \in 1 .. Len(code) :
         /\ through[n].st = processStmt(code[n], live[n], through[n - 1].st).st
         /\ SilentBlock(through[Len(code)].notes) =>
               Silent(processStmt(code[n], live[n], through[n - 1].st).notes)
  <2>1. \A n \in 1 .. Len(code) : n \in 0 .. Len(code)
    OBVIOUS
  <2>. QED BY <1>9, <1>10, <2>1
<1>. QED BY <1>8, <1>11, <1>12 DEF through, alike

-----------------------------------------------------------------------------
(* The analysis of plain programs *)

\* What the theorems below are about: see Plain, and UniqueOwnerProofs for the
\* first three.
PlainSetting == Cand1 /\ DOMAIN OutOwners = {} /\ SitesFit /\ PlainPrograms

LEMMA ProgramPlain ==
    ASSUME PlainSetting, NEW p \in Programs, NEW b \in Blocks
    PROVE  /\ Cand1
           /\ Len(p.code[b]) \in Nat
           /\ \A i \in 1 .. Len(p.code[b]) : Fits(p.code[b][i]) /\ Plain(p.code[b][i])
<1>1. \A i \in 1 .. Len(p.code[b]) : Fits(p.code[b][i])
  BY ProgramFacts DEF PlainSetting, SitesFit, Fits, IsStatement, Produces
<1>. QED BY <1>1, ProgramFacts DEF PlainSetting, PlainPrograms

LEMMA TransferPlain ==
    ASSUME PlainSetting, NEW p \in Programs, NEW b \in Blocks, NEW st, Apart(st), Unborrowed(st)
    PROVE  /\ Apart(LeftWith(p, b, st)) /\ Unborrowed(LeftWith(p, b, st))
           /\ \A live : transfer(p.code[b], live, st) = TransferBlock(p, b, st)
<1> DEFINE code == p.code[b]
           free == NothingExpires(code)
<1>1. Cand1 /\ Len(code) \in Nat /\ \A i \in 1 .. Len(code) : Fits(code[i]) /\ Plain(code[i])
  BY ProgramPlain
<1>2. TransferBlock(p, b, st) = transferThrough(code, free, st)[Len(code)]
  BY DEF TransferBlock, transfer
<1> HIDE DEF code, free
<1>3. Len(code) \in 0 .. Len(code)
  BY <1>1
<1>4. ASSUME NEW live
      PROVE  LET through == transferThrough(code, free, st)
             IN  /\ through[Len(code)] = transferThrough(code, live, st)[Len(code)]
                 /\ Apart(through[Len(code)].st) /\ Unborrowed(through[Len(code)].st)
  BY <1>1, <1>3, TraceFacts
<1>. QED BY <1>2, <1>4 DEF LeftWith, transfer, code

\* Without a mark an edge refines nothing.
LEMMA AlongEdgePlain ==
    ASSUME NEW st, Apart(st), Unborrowed(st), NEW c, IsCondition(c), NEW s
    PROVE  LET sent == AlongEdge(c, s, st)
           IN  Apart(sent) /\ Unborrowed(sent) /\ SameStore(st, sent)
<1>1. ASSUME NEW dest, NEW present, NEW absent
      PROVE  Refined(dest, present, absent, st) = st
  BY DEF Apart, NoneMarked, Refined, Bound
<1>2. \A true_edge : applyOutOwnerRefinement(c, true_edge, st) = st
  BY <1>1 DEF applyOutOwnerRefinement, IsCondition, refineByGuardPolarity, refineByDestNullCheck
<1>3. Unborrowed(AlongEdge(c, s, st)) /\ SameStore(st, AlongEdge(c, s, st))
  BY <1>2 DEF AlongEdge, Apart, FlowOK, IsFlowState, Unborrowed, SameStore
<1>. QED BY <1>3, AlongEdgeApart

LEMMA JoinUnborrowed ==
    ASSUME NEW x, Unborrowed(x), NEW y, Unborrowed(y)
    PROVE  Unborrowed(joinFlow(x, y))
BY DEF Unborrowed, joinFlow, joinCommon

EntriesUnborrowed == \A b \in Reached : Unborrowed(in_states[b])

\* The state at entry is part of the entry state of the entry block.
SeedAbsorbed == Absorbs(program.entry, EnteredWith(program))

LEMMA InitEntries == Init => EntriesUnborrowed /\ SeedAbsorbed
<1> SUFFICES ASSUME Init PROVE EntriesUnborrowed /\ SeedAbsorbed
  OBVIOUS
<1>1. /\ program \in Programs /\ Reached = {program.entry}
      /\ in_states[program.entry] = EnteredWith(program)
  BY DEF Init, Reached, EnteredWith
<1>2. Unborrowed(EnteredWith(program))
  BY DEF EnteredWith, seedParameterState, EmptyFlow, Unborrowed
<1>3. joinFlow(EnteredWith(program), EnteredWith(program)) = EnteredWith(program)
  BY <1>1, SeedOK, JoinFlowFacts DEF FlowOK, EnteredWith
<1>. QED BY <1>1, <1>2, <1>3 DEF EntriesUnborrowed, SeedAbsorbed, Absorbs

LEMMA PropagateEntries ==
    ASSUME PlainSetting, TypeOK, EntriesApart, EntriesUnborrowed, SeedAbsorbed,
           NEW b \in worklist, Propagate(b), program' = program
    PROVE  EntriesUnborrowed' /\ SeedAbsorbed'
<1> DEFINE out == LeftWith(program, b, in_states[b])
<1>1. /\ b \in Reached /\ b \in Blocks /\ program \in Programs
      /\ FlowOK(out)
      /\ UNCHANGED in_states \/ in_states' = Delivered(b, out)
  BY PropagateCases DEF Changes, TypeOK
<1>2. Apart(out) /\ Unborrowed(out)
  BY <1>1, TransferPlain DEF EntriesApart, EntriesUnborrowed
<1> HIDE DEF out
<1>3. \A s : Unborrowed(Sent(b, s, out))
  BY <1>1, <1>2, ProgramFacts, AlongEdgePlain DEF Sent
<1>4. \A s \in Reached \cup program.succ[b] : Unborrowed(Delivered(b, out)[s])
  BY <1>3, JoinUnborrowed DEF Delivered, Arrived, EntriesUnborrowed
<1>5. DOMAIN Delivered(b, out) = Reached \cup program.succ[b]
  BY DEF Delivered
<1>6. FlowOK(EnteredWith(program))
  BY <1>1, SeedOK DEF EnteredWith
<1>7. joinFlow(Delivered(b, out)[program.entry], EnteredWith(program)) =
         Delivered(b, out)[program.entry]
  <2>1. \A s \in Reached : \A x :
           FlowOK(x) /\ joinFlow(in_states[s], x) = in_states[s]
           => joinFlow(Delivered(b, out)[s], x) = Delivered(b, out)[s]
    BY <1>1, DeliveredAbsorbs
  <2>. QED BY <1>6, <2>1 DEF SeedAbsorbed, Absorbs
<1>8. EntriesUnborrowed'
  BY <1>1, <1>4, <1>5 DEF EntriesUnborrowed, Reached
<1>9. SeedAbsorbed'
  <2>1. CASE UNCHANGED in_states
    BY <2>1 DEF SeedAbsorbed, Absorbs, Reached
  <2>2. CASE in_states' = Delivered(b, out)
    BY <1>5, <1>7, <2>2 DEF SeedAbsorbed, Absorbs, Reached
  <2>. QED BY <1>1, <2>1, <2>2
<1>. QED BY <1>8, <1>9

\* A verdict PASS means that nothing was noted in any block that is reached.
Quiet ==
    phase = "done" /\ Findings = {} /\ Obligations = {} =>
        \A b \in Reached : SilentBlock(TransferBlock(program, b, in_states[b]).notes)

LEMMA EmitQuiet ==
    ASSUME PlainSetting, TypeOK, EntriesApart, EntriesUnborrowed, Emit
    PROVE  Quiet'
<1>1. ASSUME NEW b \in Reached, (Findings = {} /\ Obligations = {})'
      PROVE  SilentBlock(TransferBlock(program, b, in_states[b]).notes)
  <2>1. b \in Blocks /\ program \in Programs /\ Apart(in_states[b]) /\ Unborrowed(in_states[b])
    BY DEF TypeOK, Reached, EntriesApart, EntriesUnborrowed
  <2>2. transfer(program.code[b], LiveAfter(b), in_states[b]) = TransferBlock(program, b, in_states[b])
    BY <2>1, TransferPlain
  <2>3. ASSUME NEW n \in TransferBlock(program, b, in_states[b]).notes
        PROVE  n.note.kind \notin {"finding", "unsupported"}
    <3> DEFINE kept == [block |-> b, index |-> n.index, note |-> n.note]
    <3>1. kept \in BlockNotes(b)
      BY <2>2, <2>3 DEF BlockNotes
    <3>2. kept \in notes'
      BY <3>1 DEF Emit, Reached
    <3>3. kept.note.kind \notin {"finding", "unsupported"}
      BY <1>1, <3>2 DEF Findings, Obligations
    <3>. QED BY <3>3
  <2>. QED BY <2>3 DEF SilentBlock
<1>2. UNCHANGED <<program, in_states>>
  BY DEF Emit
<1>. QED BY <1>1, <1>2 DEF Quiet, Reached

Analysed ==
    TypeOK /\ WorklistCovers /\ EntriesApart /\ EntriesUnborrowed /\ SeedAbsorbed /\ Quiet

LEMMA InitAnalysed == Init => Analysed
<1> SUFFICES ASSUME Init PROVE Analysed
  OBVIOUS
<1>1. WorklistCovers
  BY DEF Init, WorklistCovers, Reached, Absorbs, Sent
<1>2. Quiet
  BY DEF Init, Quiet
<1>. QED BY <1>1, <1>2, InitTypeOK, InitApart, InitEntries DEF Analysed

LEMMA NextAnalysed ==
    ASSUME PlainSetting
    PROVE  Analysed /\ [Next]_vars => Analysed'
<1> SUFFICES ASSUME Analysed, [Next]_vars PROVE Analysed'
  OBVIOUS
<1>1. /\ TypeOK /\ WorklistCovers /\ EntriesApart /\ EntriesUnborrowed /\ SeedAbsorbed /\ Quiet
      /\ Cand1 /\ DOMAIN OutOwners = {} /\ SitesFit
  BY DEF Analysed, PlainSetting
<1>2. TypeOK' /\ WorklistCovers' /\ EntriesApart'
  BY <1>1, NextTypeOK, NextWorklistCovers, NextApart
<1>3. ASSUME NEW b \in Blocks, ProcessBlock(b)
      PROVE  EntriesUnborrowed' /\ SeedAbsorbed' /\ Quiet'
  <2>1. b \in worklist /\ Propagate(b) /\ program' = program /\ phase = "fixpoint" /\ phase' = phase
    BY <1>3 DEF ProcessBlock, LowestIn
  <2>. QED BY <1>1, <2>1, PropagateEntries DEF Quiet
<1>4. ASSUME UNCHANGED <<program, in_states>>
      PROVE  EntriesUnborrowed' /\ SeedAbsorbed'
  BY <1>1, <1>4 DEF EntriesUnborrowed, SeedAbsorbed, Absorbs, Reached
<1>5. ASSUME Emit
      PROVE  EntriesUnborrowed' /\ SeedAbsorbed' /\ Quiet'
  BY <1>1, <1>4, <1>5, EmitQuiet DEF Emit
<1>6. ASSUME (\E b \in Blocks : SweepBlock(b)) \/ Converged \/ EndSweep
      PROVE  EntriesUnborrowed' /\ SeedAbsorbed' /\ Quiet'
  <2>1. UNCHANGED <<program, in_states>> /\ phase' # "done"
    BY <1>6 DEF SweepBlock, Converged, EndSweep
  <2>. QED BY <1>4, <2>1 DEF Quiet
<1>7. ASSUME UNCHANGED vars
      PROVE  EntriesUnborrowed' /\ SeedAbsorbed' /\ Quiet'
  BY <1>1, <1>4, <1>7 DEF vars, Quiet, Reached, Findings, Obligations
<1>8. EntriesUnborrowed' /\ SeedAbsorbed' /\ Quiet'
  BY <1>3, <1>5, <1>6, <1>7 DEF Next
<1>. QED BY <1>2, <1>8 DEF Analysed

\* The analysis is over when the run begins.
LEMMA DoneIsDone ==
    ASSUME phase = "done", [Next]_vars
    PROVE  UNCHANGED vars
BY DEF Next, ProcessBlock, SweepBlock, Converged, EndSweep, Emit

-----------------------------------------------------------------------------
(* The invariant of the run *)

\* What the analysis knows after n statements of the block the run is in.
Between(n) == transferThrough(Code, NothingExpires(Code), in_states[at.block])[n].st

\* The statements the run is done with; a call counts from its first argument on.
Behind == IF at.done = {} THEN at.index - 1 ELSE at.index

AtSomeStatement ==
    /\ at = [block |-> at.block, index |-> at.index, done |-> at.done]
    /\ at.block \in Reached
    /\ at.index \in 1 .. Len(Code) + 1
    /\ at.done # {} => /\ at.index <= Len(Code)
                       /\ Current.op = "call"
                       /\ at.done \subseteq DOMAIN Current.args

NotStarted ==
    /\ at = [block |-> program.entry, index |-> 1, done |-> {}]
    /\ violation = "none"
    /\ IsMemory(mem, heap)
    /\ Covers(EnteredWith(program), mem, heap)

Underway == AtSomeStatement /\ IsMemory(mem, heap) /\ Covers(Between(Behind), mem, heap)

RunCovered ==
    /\ phase # "done" => status = "idle"
    /\ status = "idle" => NotStarted
    /\ PASS /\ status = "running" => Underway
    /\ TrustworthyPass

LEMMA EnteredCovers ==
    ASSUME program \in Programs, ExecInit
    PROVE  IsMemory(mem, heap) /\ Covers(EnteredWith(program), mem, heap)
<1> DEFINE params == program.params
           index == DOMAIN params
           seeded == {params[i].s : i \in index}
           first(s) == CHOOSE i \in index : params[i].s = s
           st == EnteredWith(program)
<1>1. /\ DOMAIN st.storages = seeded
      /\ \A s \in seeded : st.storages[s].object_id = kParameterObjectIdBase + first(s)
  BY DEF EnteredWith, seedParameterState, parameterObjectIdForIndex, Binding, EmptyFlow
<1>2. /\ mem = [s \in Storages |-> IF \E i \in index : params[i].s = s THEN first(s)
                                   ELSE Uninitialised]
      /\ heap = [i \in index |-> [id |-> kParameterObjectIdBase + i, alive |-> TRUE]]
  BY DEF ExecInit, parameterObjectIdForIndex
<1>3. /\ Len(params) \in Nat /\ index = 1 .. Len(params)
      /\ \A i \in index : params[i].s \in Storages
  BY ParameterFacts
<1>4. \A s \in seeded : first(s) \in index /\ params[first(s)].s = s
  OBVIOUS
<1>5. seeded \subseteq Storages
  BY <1>3
<1>6. \A s \in Storages : /\ s \in seeded => mem[s] = first(s)
                          /\ s \notin seeded => mem[s] = Uninitialised
  BY <1>2
<1> HIDE DEF first, st, params, seeded
<1>7. \A s \in Storages : /\ s \in seeded => mem[s] \in 1 .. Len(params)
                          /\ s \notin seeded => mem[s] = -1
  BY <1>3, <1>4, <1>6 DEF Uninitialised
<1>8. /\ heap \in Seq([id : Nat, alive : BOOLEAN]) /\ Len(heap) = Len(params)
      /\ \A i \in 1 .. Len(params) : heap[i] = [id |-> kParameterObjectIdBase + i, alive |-> TRUE]
  <2> DEFINE Object == [id : Nat, alive : BOOLEAN]
  <2>1. \A i \in 1 .. Len(params) : [id |-> kParameterObjectIdBase + i, alive |-> TRUE] \in Object
    BY <1>3, IdAssumption
  <2>2. heap \in [1 .. Len(params) -> Object]
    <3> HIDE DEF Object
    <3>. QED BY <1>2, <1>3, <2>1
  <2>3. heap \in Seq(Object) /\ Len(heap) = Len(params)
    <3> HIDE DEF Object
    <3>. QED BY <1>3, <2>2
  <2>. QED BY <1>2, <1>3, <2>3
<1>9. mem \in [Storages -> Int] /\ \A s \in Storages : mem[s] <= Len(heap)
  <2>1. mem = [s \in Storages |-> mem[s]]
    BY <1>2
  <2>2. \A s \in Storages : mem[s] \in Int /\ mem[s] <= Len(heap)
    BY <1>3, <1>7, <1>8
  <2>. QED BY <2>1, <2>2
<1>10. IsMemory(mem, heap)
  BY <1>8, <1>9 DEF IsMemory
<1>11. ASSUME NEW s \in Storages, mem[s] > NullPointer
       PROVE  /\ s \in seeded /\ mem[s] = first(s)
              /\ st.storages[s].object_id = kParameterObjectIdBase + mem[s]
              /\ Tells(st, s, mem, heap)
  <2>1. s \in seeded
    BY <1>7, <1>11 DEF NullPointer
  <2>2. mem[s] = first(s) /\ mem[s] \in 1 .. Len(params)
    BY <1>6, <1>7, <2>1
  <2>3. st.storages[s].object_id = kParameterObjectIdBase + mem[s]
    BY <1>1, <2>1, <2>2
  <2>4. heap[mem[s]] = [id |-> kParameterObjectIdBase + mem[s], alive |-> TRUE]
    BY <1>8, <2>2
  <2>5. st.storages[s].object_id # kNullObjectId
    BY <1>3, <2>2, <2>3, IdAssumption DEF kNullObjectId
  <2>6. heap[mem[s]].alive /\ heap[mem[s]].id = kParameterObjectIdBase + mem[s]
    BY <2>4
  <2>. QED BY <2>1, <2>2, <2>3, <2>5, <2>6 DEF Tells
<1>12. \A s, t \in Storages :
          mem[s] > NullPointer /\ mem[t] > NullPointer =>
             (mem[s] = mem[t] <=> st.storages[s].object_id = st.storages[t].object_id)
  <2> SUFFICES ASSUME NEW s \in Storages, NEW t \in Storages,
                      mem[s] > NullPointer, mem[t] > NullPointer
               PROVE  mem[s] = mem[t] <=> st.storages[s].object_id = st.storages[t].object_id
    OBVIOUS
  <2>1. mem[s] \in Int /\ mem[t] \in Int
    BY <1>9
  <2>2. /\ st.storages[s].object_id = kParameterObjectIdBase + mem[s]
        /\ st.storages[t].object_id = kParameterObjectIdBase + mem[t]
    BY <1>11
  <2>. QED BY <2>1, <2>2, IdAssumption
<1>13. \A s \in DOMAIN st.storages : mem[s] > NullPointer
  BY <1>1, <1>3, <1>5, <1>7 DEF NullPointer
<1>14. Covers(st, mem, heap)
  BY <1>1, <1>11, <1>12, <1>13 DEF Covers
<1>. QED BY <1>10, <1>14 DEF st

LEMMA InitRun == CheckedInit => RunCovered
<1> SUFFICES ASSUME CheckedInit PROVE RunCovered
  OBVIOUS
<1>1. program \in Programs /\ phase # "done" /\ ExecInit
  BY DEF CheckedInit, Init
<1>2. status = "idle" /\ NotStarted
  BY <1>1, EnteredCovers DEF ExecInit, NotStarted
<1>. QED BY <1>1, <1>2 DEF RunCovered, PASS, TrustworthyPass

\* The analysis leaves the run alone, which waits for it.
LEMMA AnalysisRun ==
    ASSUME RunCovered, [Next]_vars, UNCHANGED execVars
    PROVE  RunCovered'
<1>1. CASE phase = "done"
  <2>1. UNCHANGED <<vars, execVars>>
    BY <1>1, DoneIsDone
  <2>2. UNCHANGED <<program, phase, in_states, notes, status, at, mem, heap, violation>>
    BY <2>1 DEF vars, execVars
  <2>. QED BY <2>2 DEF RunCovered, NotStarted, Underway, AtSomeStatement, Between, Behind, Code,
                       Current, Reached, PASS, TrustworthyPass, exitCode, Findings, Obligations
<1>2. CASE phase # "done"
  <2>1. status' = "idle" /\ program' = program /\ NotStarted
    BY <1>2 DEF RunCovered, execVars, Next, ProcessBlock, SweepBlock, Converged, EndSweep, Emit, vars
  <2>2. UNCHANGED <<at, mem, heap, violation>>
    BY DEF execVars
  <2>3. NotStarted'
    BY <2>1, <2>2 DEF NotStarted
  <2>. QED BY <2>1, <2>3 DEF RunCovered, TrustworthyPass, NotStarted
<1>. QED BY <1>1, <1>2

-----------------------------------------------------------------------------
(* The steps of the run *)

\* A run of a function that passed, under way.
Going == Analysed /\ PASS /\ status = "running" /\ Underway

LEMMA Here ==
    ASSUME PlainSetting, Going
    PROVE  /\ program \in Programs /\ at.block \in Reached /\ at.block \in Blocks
           /\ Len(Code) \in Nat /\ at.index \in 1 .. Len(Code) + 1
           /\ \A n \in 1 .. Len(Code) : Fits(Code[n]) /\ Plain(Code[n])
           /\ \A n \in 0 .. Len(Code) : Apart(Between(n)) /\ Unborrowed(Between(n))
           /\ Between(0) = in_states[at.block]
           /\ Between(Len(Code)) = LeftWith(program, at.block, in_states[at.block])
           /\ \A n \in 1 .. Len(Code) : \E live :
                 LET r == processStmt(Code[n], live, Between(n - 1))
                 IN  Between(n) = r.st /\ Silent(r.notes)
<1> DEFINE st == in_states[at.block]
           free == NothingExpires(Code)
           through == transferThrough(Code, free, st)
<1>1. /\ program \in Programs /\ at.block \in Reached /\ at.block \in Blocks
      /\ at.index \in 1 .. Len(Code) + 1
  BY DEF Going, Analysed, TypeOK, Reached, Underway, AtSomeStatement
<1>2. Apart(st) /\ Unborrowed(st)
  BY <1>1 DEF Going, Analysed, EntriesApart, EntriesUnborrowed
<1>3. Cand1 /\ Len(Code) \in Nat /\ \A n \in 1 .. Len(Code) : Fits(Code[n]) /\ Plain(Code[n])
  BY <1>1, ProgramPlain DEF Code
<1>4. TransferBlock(program, at.block, st) = through[Len(Code)]
  BY DEF TransferBlock, transfer, Code
<1>5. SilentBlock(through[Len(Code)].notes)
  <2>1. Findings = {} /\ Obligations = {} /\ phase = "done"
    BY DEF Going, PASS, exitCode
  <2>2. SilentBlock(TransferBlock(program, at.block, st).notes)
    BY <1>1, <2>1 DEF Going, Analysed, Quiet
  <2>. QED BY <1>4, <2>2
<1>6. \A n : Between(n) = through[n].st
  BY DEF Between
<1> HIDE DEF st, free
<1>7. /\ through[0].st = st
      /\ \A n \in 0 .. Len(Code) : Apart(through[n].st) /\ Unborrowed(through[n].st)
      /\ \A n \in 1 .. Len(Code) :
            LET r == processStmt(Code[n], free[n], through[n - 1].st)
            IN  through[n].st = r.st /\ Silent(r.notes)
  BY <1>2, <1>3, <1>5, TraceFacts
<1>8. Between(Len(Code)) = LeftWith(program, at.block, st)
  BY <1>4, <1>6 DEF LeftWith
<1> HIDE DEF through
<1>. QED BY <1>1, <1>3, <1>6, <1>7, <1>8 DEF st

\* A callee that destroys an argument has no other, so that a call of which
\* some arguments are done and some are not destroys none.
Undestructive == \A i \in DOMAIN Current.args : EffectOf(Current, i) # "Destroy"

\* The statement the run is at: what the analysis made of it, silently, from a
\* state that covers the memory.
Facing(e, live, k) ==
    /\ Cand1 /\ Fits(e) /\ IsStatement(e) /\ Plain(e)
    /\ Apart(k) /\ FlowOK(k) /\ Unborrowed(k)
    /\ Silent(handleStmt(e, live, k).notes)
    /\ Between(at.index) = handleStmt(e, live, k).st
    /\ IsMemory(mem, heap)
    /\ at.done = {} \/ Undestructive => Covers(k, mem, heap)

LEMMA AtStatement ==
    ASSUME PlainSetting, Going, at.index <= Len(Code)
    PROVE  \E live, k : Facing(Current, live, k)
<1>1. /\ at.index \in 1 .. Len(Code) /\ at.index - 1 \in 0 .. Len(Code)
      /\ Fits(Current) /\ Plain(Current)
      /\ Apart(Between(at.index - 1)) /\ Unborrowed(Between(at.index - 1))
  BY Here DEF Current
<1>2. PICK live : LET r == processStmt(Current, live, Between(at.index - 1))
                  IN  Between(at.index) = r.st /\ Silent(r.notes)
  BY <1>1, Here DEF Current
<1>3. PICK k : /\ Apart(k) /\ Unborrowed(k) /\ SameStore(Between(at.index - 1), k)
               /\ Between(at.index) = handleStmt(Current, live, k).st
               /\ Silent(handleStmt(Current, live, k).notes)
  BY <1>1, <1>2, Handled
<1>4. Cand1 /\ IsStatement(Current) /\ FlowOK(k) /\ IsMemory(mem, heap)
  BY <1>1, <1>3 DEF PlainSetting, Fits, Apart, Going, Underway
<1>5. at.done = {} => Covers(k, mem, heap)
  <2>1. at.done = {} => Covers(Between(at.index - 1), mem, heap)
    BY DEF Going, Underway, Behind
  <2>. QED BY <1>3, <2>1, SameStoreCovers
<1>6. at.done # {} /\ Undestructive => Covers(k, mem, heap)
  <2> SUFFICES ASSUME at.done # {}, Undestructive PROVE Covers(k, mem, heap)
    OBVIOUS
  <2>1. Current.op = "call" /\ Covers(Between(at.index), mem, heap)
    BY DEF Going, Underway, AtSomeStatement, Behind
  <2>2. Between(at.index) = k
    BY <1>1, <1>3, <1>4, <2>1, CallKeeps DEF Undestructive
  <2>. QED BY <2>1, <2>2
<1>7. Facing(Current, live, k)
  BY <1>1, <1>3, <1>4, <1>5, <1>6 DEF Facing
<1>. QED BY <1>7

\* A step within a block leads to where the analysis is, too.
Landed ==
    /\ UNCHANGED violation
    /\ \/ Advance
       \/ /\ Current.op = "call"
          /\ \E i \in DOMAIN Current.args : ArgumentDone(i)

LEMMA Landing ==
    ASSUME PlainSetting, Going, RunCovered, UNCHANGED vars, at.index <= Len(Code), Landed,
           IsMemory(mem', heap'), Covers(Between(at.index), mem', heap')
    PROVE  RunCovered'
<1>1. at = [block |-> at.block, index |-> at.index, done |-> at.done]
  BY DEF Going, Underway, AtSomeStatement
<1>2. UNCHANGED <<program, phase, in_states, notes>> /\ UNCHANGED violation
  BY DEF vars, Landed
<1>3. Len(Code) \in Nat /\ at.index \in 1 .. Len(Code) + 1 /\ at.block \in Reached
  BY Here
<1>4. /\ at'.block = at.block /\ status' = status
      /\ at' = [block |-> at'.block, index |-> at'.index, done |-> at'.done]
      /\ \/ at'.index = at.index + 1 /\ at'.done = {}
         \/ /\ at'.index = at.index /\ at'.done # {}
            /\ Current.op = "call" /\ at'.done \subseteq DOMAIN Current.args
  <2>1. CASE Advance
    BY <1>1, <2>1 DEF Advance
  <2>2. ASSUME Current.op = "call", NEW i \in DOMAIN Current.args, ArgumentDone(i)
        PROVE  /\ at'.block = at.block /\ status' = status
               /\ at' = [block |-> at'.block, index |-> at'.index, done |-> at'.done]
               /\ at'.index = at.index /\ at'.done # {}
               /\ at'.done \subseteq DOMAIN Current.args
    <3>1. at' = [block |-> at.block, index |-> at.index, done |-> at.done \cup {i}]
      BY <1>1, <2>2 DEF ArgumentDone
    <3>2. at.done \subseteq DOMAIN Current.args
      BY DEF Going, Underway, AtSomeStatement
    <3>. QED BY <2>2, <3>1, <3>2 DEF ArgumentDone
  <2>. QED BY <2>1, <2>2 DEF Landed
<1>5. Code' = Code /\ (at'.index = at.index => Current' = Current) /\ Reached' = Reached
  BY <1>2, <1>4 DEF Code, Current, Reached
<1>6. \A n : Between(n)' = Between(n)
  BY <1>2, <1>4, <1>5 DEF Between
<1>7. Behind' = at.index
  BY <1>3, <1>4 DEF Behind
<1>8. Between(Behind)' = Between(at.index)
  BY <1>2, <1>4, <1>5, <1>7 DEF Between
<1>9. Covers(Between(Behind), mem, heap)'
  BY <1>8
<1>10. AtSomeStatement'
  BY <1>3, <1>4, <1>5 DEF AtSomeStatement
<1>11. Underway'
  BY <1>9, <1>10 DEF Underway
<1>12. status' = "running" /\ phase' = "done"
  BY <1>2, <1>4 DEF Going, PASS
<1>13. TrustworthyPass'
  BY <1>2 DEF RunCovered, TrustworthyPass, PASS, exitCode, Findings, Obligations
<1>. QED BY <1>11, <1>12, <1>13 DEF RunCovered

\* The run may end at any statement, but not over a dead object.
LEMMA Stopping ==
    ASSUME RunCovered, UNCHANGED vars, phase = "done", status' = "stopped",
           PASS => violation' \notin {"use_after_death", "double_destruction"}
    PROVE  RunCovered'
<1>1. PASS' = PASS /\ phase' = "done"
  BY DEF vars, PASS, exitCode, Findings, Obligations
<1>. QED BY <1>1 DEF RunCovered, TrustworthyPass

\* One lemma for the statements without a callee ...
LEMMA StatementRun ==
    ASSUME PlainSetting, Going, RunCovered, UNCHANGED vars,
           SetNull \/ Malloc \/ Copy \/ Free \/ Use \/ SetResult \/ ReceiveResult
    PROVE  RunCovered'
<1> DEFINE e == Current
<1>1. at.index <= Len(Code) /\ phase = "done"
  BY DEF SetNull, Malloc, Copy, Free, Use, SetResult, ReceiveResult, Executing, Going, PASS
<1>2. PICK live, k : Facing(e, live, k)
  BY <1>1, AtStatement
<1>3. /\ Cand1 /\ Fits(e) /\ IsStatement(e) /\ Plain(e)
      /\ Apart(k) /\ FlowOK(k) /\ Unborrowed(k)
      /\ Silent(handleStmt(e, live, k).notes)
      /\ Between(at.index) = handleStmt(e, live, k).st
      /\ IsMemory(mem, heap)
  BY <1>2 DEF Facing
<1>4. Covers(k, mem, heap)
  <2>1. e.op # "call"
    BY DEF SetNull, Malloc, Copy, Free, Use, SetResult, ReceiveResult, Executing
  <2>2. at.done = {}
    BY <1>1, <2>1 DEF Going, Underway, AtSomeStatement
  <2>. QED BY <1>2, <2>2 DEF Facing
<1>5. ASSUME Advance, UNCHANGED violation,
             IsMemory(mem', heap'), Covers(Between(at.index), mem', heap')
      PROVE  RunCovered'
  BY <1>1, <1>5, Landing DEF Landed
<1>6. CASE SetNull
  <2>1. /\ e.op = "null" /\ mem' = [mem EXCEPT ![e.dst] = NullPointer]
        /\ heap' = heap /\ Advance /\ UNCHANGED violation
    BY <1>6 DEF SetNull, Executing, Assign, Hold
  <2>2. /\ IsMemory([mem EXCEPT ![e.dst] = NullPointer], heap)
        /\ Covers(handleStmt(e, live, k).st, [mem EXCEPT ![e.dst] = NullPointer], heap)
    BY <1>3, <1>4, <2>1, NullCovers
  <2>. QED BY <1>3, <1>5, <2>1, <2>2
<1>7. CASE Copy
  <2>1. /\ e.op = "copy" /\ mem' = [mem EXCEPT ![e.dst] = mem[e.src]]
        /\ heap' = heap /\ Advance /\ UNCHANGED violation
    BY <1>7 DEF Copy, Executing, Assign, Hold
  <2>2. /\ IsMemory([mem EXCEPT ![e.dst] = mem[e.src]], heap)
        /\ Covers(handleStmt(e, live, k).st, [mem EXCEPT ![e.dst] = mem[e.src]], heap)
    BY <1>3, <1>4, <2>1, CopyCovers
  <2>. QED BY <1>3, <1>5, <2>1, <2>2
<1>8. CASE Malloc \/ ReceiveResult
  <2>1. /\ e.op \in {"alloc", "result"} /\ Advance /\ UNCHANGED violation
        /\ e.op = "result" =>
              NewObject(e.dst, e.site) \/ Summaries[e.fn].return_effect = "BorrowFromArg"
        /\ e.op = "alloc" => NewObject(e.dst, e.site)
    BY <1>8 DEF Malloc, ReceiveResult, Executing
  <2>2. /\ IsMemory([mem EXCEPT ![e.dst] = Len(heap) + 1], Grown(heap, e.site))
        /\ Covers(handleStmt(e, live, k).st, [mem EXCEPT ![e.dst] = Len(heap) + 1],
                  Grown(heap, e.site))
        /\ e.op = "result" => Summaries[e.fn].return_effect = "Owned"
    BY <1>3, <1>4, <2>1, NewObjectCovers
  <2>3. NewObject(e.dst, e.site)
    BY <2>1, <2>2
  <2>4. mem' = [mem EXCEPT ![e.dst] = Len(heap) + 1] /\ heap' = Grown(heap, e.site)
    BY <2>3 DEF NewObject, Assign, Hold, Grown
  <2>. QED BY <1>3, <1>5, <2>1, <2>2, <2>4
<1>9. CASE Free
  <2>1. /\ e.op = "free" /\ (mem[e.src] > NullPointer => heap[mem[e.src]].alive)
        /\ IsMemory(mem, Killed(mem, heap, e.src))
        /\ Covers(handleStmt(e, live, k).st, mem, Killed(mem, heap, e.src))
    BY <1>3, <1>4, <1>9, FreeCovers DEF Free, Executing
  <2>2. Destruction(e.src) \in {"use_after_move", "none"}
    BY <2>1 DEF Destruction, Dangling, Points
  <2>3. \/ Stop(Destruction(e.src))
        \/ Kill(e.src) /\ Advance /\ UNCHANGED <<mem, violation>>
    BY <1>9 DEF Free
  <2>4. CASE Stop(Destruction(e.src))
    BY <1>1, <2>2, <2>4, Stopping DEF Stop
  <2>5. CASE Kill(e.src) /\ Advance /\ UNCHANGED <<mem, violation>>
    <3>1. mem' = mem /\ heap' = Killed(mem, heap, e.src)
      BY <2>5 DEF Kill, Points, Killed
    <3>. QED BY <1>3, <1>5, <2>1, <2>5, <3>1
  <2>. QED BY <2>3, <2>4, <2>5
<1>10. CASE Use
  <2>1. /\ mem[e.src] > NullPointer => heap[mem[e.src]].alive
        /\ handleStmt(e, live, k).st = k
    BY <1>3, <1>4, <1>10, UseSafe DEF Use, Executing
  <2>2. Access(e.src) \in {"use_after_move", "borrow_conflict", "none"}
    BY <2>1 DEF Access, Dangling, Points
  <2>3. Stop(Access(e.src)) \/ (Advance /\ UNCHANGED <<mem, heap, violation>>)
    BY <1>10 DEF Use
  <2>4. CASE Stop(Access(e.src))
    BY <1>1, <2>2, <2>4, Stopping DEF Stop
  <2>5. CASE Advance /\ UNCHANGED <<mem, heap, violation>>
    BY <1>3, <1>4, <1>5, <2>1, <2>5
  <2>. QED BY <2>3, <2>4, <2>5
<1>11. CASE SetResult
  <2>1. e.op = "set" /\ UNCHANGED <<mem, heap, violation>> /\ Advance
    BY <1>11 DEF SetResult, Executing
  <2>2. handleStmt(e, live, k).st = k
    BY <2>1 DEF handleStmt, Result
  <2>. QED BY <1>3, <1>4, <1>5, <2>1, <2>2
<1>. QED BY <1>6, <1>7, <1>8, <1>9, <1>10, <1>11

\* ... and one for the steps of a call.
LEMMA CallRun ==
    ASSUME PlainSetting, Going, RunCovered, UNCHANGED vars,
           \/ \E i \in ArgumentIndices :
                 CallIgnores(i) \/ CallReads(i) \/ CallDestroys(i) \/ CallTakes(i)
           \/ CallReturns
    PROVE  RunCovered'
<1> DEFINE e == Current
<1>1. at.index <= Len(Code) /\ phase = "done" /\ e.op \in {"call", "produce"}
  BY DEF CallIgnores, CallReads, CallDestroys, CallTakes, Calling, CallReturns, Executing,
         Going, PASS
<1>2. PICK live, k : Facing(e, live, k)
  BY <1>1, AtStatement
<1>3. /\ Cand1 /\ Fits(e) /\ IsStatement(e) /\ Plain(e)
      /\ Apart(k) /\ FlowOK(k) /\ Unborrowed(k)
      /\ Silent(handleStmt(e, live, k).notes)
      /\ Between(at.index) = handleStmt(e, live, k).st
      /\ IsMemory(mem, heap)
      /\ at.done = {} \/ Undestructive => Covers(k, mem, heap)
  BY <1>2 DEF Facing
<1>4. e.op = "call" /\ at.done \subseteq DOMAIN e.args
  BY <1>1, <1>3 DEF Fits, Going, Underway, AtSomeStatement
<1>5. ASSUME Covers(k, mem, heap)
      PROVE  LET new == handleStmt(e, live, k).st
             IN  /\ \A i \in DOMAIN e.args : LET s == e.args[i].s IN
                       /\ EffectOf(e, i) \in {"Borrow", "Destroy"} /\ mem[s] > NullPointer =>
                             heap[mem[s]].alive
                       /\ EffectOf(e, i) = "TakeOwnership" => ~(mem[s] > NullPointer)
                       /\ EffectOf(e, i) = "Destroy" =>
                             /\ IsMemory(mem, Killed(mem, heap, s))
                             /\ Covers(new, mem, Killed(mem, heap, s))
                 /\ Undestructive => new = k
  BY <1>3, <1>4, <1>5, CallCovers DEF Undestructive
<1>6. \A i \in DOMAIN e.args : EffectOf(e, i) = "Destroy" => DOMAIN e.args = {1}
  <2>1. DOMAIN e.args = 1 .. Len(e.args)
    BY <1>3, <1>4 DEF IsStatement, Passes
  <2>. QED BY <1>3, <1>4, <2>1 DEF Plain
<1>7. ASSUME NEW i \in DOMAIN e.args \ at.done
      PROVE  /\ EffectOf(e, i) = "Destroy" \/ Undestructive
             /\ Covers(k, mem, heap)
  <2>1. ASSUME NEW j \in DOMAIN e.args, EffectOf(e, j) = "Destroy"
        PROVE  j = i /\ at.done = {}
    <3>1. DOMAIN e.args = {1}
      BY <1>6, <2>1
    <3>. QED BY <1>4, <1>7, <3>1
  <2>2. EffectOf(e, i) = "Destroy" \/ Undestructive
    BY <2>1 DEF Undestructive
  <2>. QED BY <1>3, <1>7, <2>1, <2>2
<1>8. ASSUME NEW i \in DOMAIN e.args \ at.done, EffectOf(e, i) # "Destroy",
             UNCHANGED <<mem, heap, violation>>, ArgumentDone(i)
      PROVE  RunCovered'
  <2>1. Covers(Between(at.index), mem, heap)
    BY <1>3, <1>5, <1>7, <1>8
  <2>2. Landed
    BY <1>4, <1>8 DEF Landed
  <2>. QED BY <1>1, <1>3, <1>8, <2>1, <2>2, Landing
<1>9. ASSUME NEW i \in ArgumentIndices, CallIgnores(i)
      PROVE  RunCovered'
  BY <1>8, <1>9 DEF CallIgnores, Calling, EffectOn, EffectOf
<1>10. ASSUME NEW i \in ArgumentIndices, CallReads(i)
       PROVE  RunCovered'
  <2> DEFINE s == e.args[i].s
  <2>1. i \in DOMAIN e.args \ at.done /\ EffectOf(e, i) = "Borrow"
    BY <1>10 DEF CallReads, Calling, EffectOn, EffectOf
  <2>2. mem[s] > NullPointer => heap[mem[s]].alive
    BY <1>5, <1>7, <2>1
  <2>3. Access(s) \in {"use_after_move", "borrow_conflict", "none"}
    BY <2>2 DEF Access, Dangling, Points
  <2>4. Stop(Access(s)) \/ (ArgumentDone(i) /\ UNCHANGED <<mem, heap, violation>>)
    BY <1>10 DEF CallReads
  <2>5. CASE Stop(Access(s))
    BY <1>1, <2>3, <2>5, Stopping DEF Stop
  <2>. QED BY <1>8, <2>1, <2>4, <2>5
<1>11. ASSUME NEW i \in ArgumentIndices, CallTakes(i)
       PROVE  RunCovered'
  <2> DEFINE s == e.args[i].s
  <2>1. i \in DOMAIN e.args \ at.done /\ EffectOf(e, i) = "TakeOwnership"
    BY <1>11 DEF CallTakes, Calling, EffectOn, EffectOf
  <2>2. ~Points(s)
    BY <1>5, <1>7, <2>1 DEF Points
  <2>3. Destruction(s) = "none"
    BY <2>2 DEF Destruction, Dangling, MovedFrom
  <2>4. ArgumentDone(i) /\ UNCHANGED <<mem, heap, violation>>
    BY <1>11, <2>2, <2>3 DEF CallTakes, Kill
  <2>. QED BY <1>8, <2>1, <2>4
<1>12. ASSUME NEW i \in ArgumentIndices, CallDestroys(i)
       PROVE  RunCovered'
  <2> DEFINE s == e.args[i].s
  <2>1. i \in DOMAIN e.args \ at.done /\ EffectOf(e, i) = "Destroy"
    BY <1>12 DEF CallDestroys, Calling, EffectOn, EffectOf
  <2>2. /\ mem[s] > NullPointer => heap[mem[s]].alive
        /\ IsMemory(mem, Killed(mem, heap, s))
        /\ Covers(Between(at.index), mem, Killed(mem, heap, s))
    BY <1>3, <1>5, <1>7, <2>1
  <2>3. Destruction(s) \in {"use_after_move", "none"}
    BY <2>2 DEF Destruction, Dangling, Points
  <2>4. \/ Stop(Destruction(s))
        \/ Kill(s) /\ ArgumentDone(i) /\ UNCHANGED <<mem, violation>>
    BY <1>12 DEF CallDestroys
  <2>5. CASE Stop(Destruction(s))
    BY <1>1, <2>3, <2>5, Stopping DEF Stop
  <2>6. CASE Kill(s) /\ ArgumentDone(i) /\ UNCHANGED <<mem, violation>>
    <3>1. mem' = mem /\ heap' = Killed(mem, heap, s)
      BY <2>6 DEF Kill, Points, Killed
    <3>2. Landed
      BY <1>4, <2>1, <2>6 DEF Landed
    <3>. QED BY <1>1, <2>2, <3>1, <3>2, Landing
  <2>. QED BY <2>4, <2>5, <2>6
<1>13. ASSUME CallReturns
       PROVE  RunCovered'
  <2>1. at.done = DOMAIN e.args /\ Advance /\ UNCHANGED <<mem, heap, violation>>
    BY <1>13 DEF CallReturns
  <2>2. Covers(Between(at.index), mem, heap)
    <3>1. CASE at.done = {}
      <4>1. Undestructive
        BY <2>1, <3>1 DEF Undestructive
      <4>. QED BY <1>3, <1>5, <3>1, <4>1
    <3>2. CASE at.done # {}
      BY <3>2 DEF Going, Underway, Behind
    <3>. QED BY <3>1, <3>2
  <2>. QED BY <1>1, <1>3, <2>1, <2>2, Landing DEF Landed
<1>. QED BY <1>9, <1>10, <1>11, <1>12, <1>13

\* At the start of a block the analysis knows its entry state.
LEMMA BlockEntered ==
    ASSUME PlainSetting, Analysed, UNCHANGED vars, NEW b \in Reached,
           at' = [block |-> b, index |-> 1, done |-> {}],
           IsMemory(mem', heap'), Covers(in_states[b], mem', heap')
    PROVE  Underway'
<1>1. at'.block = b /\ at'.index = 1 /\ at'.done = {}
  OBVIOUS
<1>2. UNCHANGED <<program, in_states>>
  BY DEF vars
<1>3. Len(program.code[b]) \in Nat
  BY ProgramPlain DEF Analysed, TypeOK, Reached
<1>4. Code' = program.code[b] /\ Reached' = Reached /\ Behind' = 0
  BY <1>1, <1>2 DEF Code, Reached, Behind
<1>5. AtSomeStatement'
  BY <1>1, <1>3, <1>4 DEF AtSomeStatement
<1>6. \A code, live, st : Len(code) \in Nat => transferThrough(code, live, st)[0].st = st
  BY TransferThroughDef DEF Result
<1>7. Between(Behind)' = in_states[b]
  BY <1>1, <1>2, <1>3, <1>4, <1>6 DEF Between
<1>. QED BY <1>5, <1>7 DEF Underway

LEMMA EnterRun ==
    ASSUME PlainSetting, Analysed, RunCovered, UNCHANGED vars, Enter
    PROVE  RunCovered'
<1>1. /\ phase = "done" /\ NotStarted /\ program \in Programs
      /\ UNCHANGED <<at, mem, heap, violation>> /\ status' = "running"
  BY DEF Enter, RunCovered, Analysed, TypeOK
<1>2. program.entry \in Reached /\ joinFlow(in_states[program.entry], EnteredWith(program)) =
         in_states[program.entry]
  BY DEF Analysed, SeedAbsorbed, Absorbs
<1>3. FlowOK(EnteredWith(program)) /\ FlowOK(in_states[program.entry])
  BY <1>1, <1>2, SeedOK DEF EnteredWith, Analysed, EntriesApart, Apart
<1>4. Covers(in_states[program.entry], mem, heap)
  BY <1>1, <1>2, <1>3, AbsorbingCovers DEF NotStarted
<1>5. Underway'
  <2>1. at' = [block |-> program.entry, index |-> 1, done |-> {}] /\ IsMemory(mem', heap')
    BY <1>1 DEF NotStarted
  <2>. QED BY <1>1, <1>2, <1>4, <2>1, BlockEntered
<1>6. phase' = "done" /\ TrustworthyPass'
  BY <1>1 DEF vars, TrustworthyPass, NotStarted
<1>. QED BY <1>1, <1>5, <1>6 DEF RunCovered

\* An edge: the entry state of the successor has absorbed what is sent to it.
LEMMA BranchRun ==
    ASSUME PlainSetting, Going, RunCovered, UNCHANGED vars, Branch
    PROVE  RunCovered'
<1> DEFINE left == LeftWith(program, at.block, in_states[at.block])
<1>1. /\ program \in Programs /\ at.block \in Reached /\ at.block \in Blocks
      /\ Len(Code) \in Nat /\ at.index \in 1 .. Len(Code) + 1 /\ at.index > Len(Code)
      /\ Between(Len(Code)) = left
      /\ Apart(Between(Len(Code))) /\ Unborrowed(Between(Len(Code)))
  BY Here DEF Branch
<1>2. /\ Apart(left) /\ Unborrowed(left) /\ IsMemory(mem, heap) /\ Covers(left, mem, heap)
  <2>1. at.index - 1 = Len(Code)
    BY <1>1
  <2>2. at.done = {}
    BY <1>1 DEF Going, Underway, AtSomeStatement
  <2>3. Behind = Len(Code)
    BY <2>1, <2>2 DEF Behind
  <2>. QED BY <1>1, <2>3 DEF Going, Underway
<1>3. PICK b \in program.succ[at.block] : at' = [block |-> b, index |-> 1, done |-> {}]
  BY DEF Branch
<1>4. UNCHANGED <<mem, heap, status, violation>> /\ phase = "done"
  BY DEF Branch, Going, PASS
<1> DEFINE sent == Sent(at.block, b, left)
<1>5. b \in Reached /\ joinFlow(in_states[b], sent) = in_states[b]
  BY <1>1, <1>3, <1>4 DEF Going, Analysed, WorklistCovers, Absorbs
<1>6. IsCondition(program.cond[at.block])
  BY <1>1, ProgramFacts
<1> HIDE DEF left
<1>7. Apart(sent) /\ SameStore(left, sent)
  BY <1>2, <1>6, AlongEdgePlain DEF Sent
<1> HIDE DEF sent
<1>8. Covers(sent, mem, heap)
  BY <1>2, <1>7, SameStoreCovers
<1>9. FlowOK(sent) /\ FlowOK(in_states[b])
  BY <1>5, <1>7 DEF Apart, Going, Analysed, EntriesApart
<1>10. Covers(in_states[b], mem, heap)
  BY <1>5, <1>8, <1>9, AbsorbingCovers
<1>11. Underway'
  BY <1>2, <1>3, <1>4, <1>5, <1>10, BlockEntered DEF Going
<1>12. status' = "running" /\ phase' = "done" /\ TrustworthyPass'
  BY <1>4 DEF vars, Going, RunCovered, TrustworthyPass, PASS, exitCode, Findings, Obligations
<1>. QED BY <1>11, <1>12 DEF RunCovered

\* A run of a function that did not pass is not spoken of.
LEMMA UnpassedRun ==
    ASSUME RunCovered, UNCHANGED vars, phase = "done", ~PASS, status' # "idle"
    PROVE  RunCovered'
<1>1. ~PASS' /\ phase' = "done"
  BY DEF vars, PASS, exitCode, Findings, Obligations
<1>. QED BY <1>1 DEF RunCovered, TrustworthyPass

\* Which steps a run may take, and that it does not go back to being idle.
LEMMA RunSteps ==
    ASSUME Run
    PROVE  /\ status' # "idle"
           /\ Enter \/ status = "running"
BY DEF Run, Enter, Leave, Branch, SetNull, Malloc, Copy, Borrow, Move, Free, Use, CallIgnores,
       CallReads, CallDestroys, CallTakes, Calling, CallReturns, CallProduces, SetResult,
       ReceiveResult, Return, Executing, Advance, Stop, ArgumentDone

LEMMA RunRun ==
    ASSUME PlainSetting, Analysed, RunCovered, Run, UNCHANGED vars
    PROVE  RunCovered'
<1>1. CASE Enter
  BY <1>1, EnterRun
<1>2. CASE ~Enter /\ ~PASS
  <2>1. phase = "done" /\ status' # "idle"
    BY <1>2, RunSteps DEF RunCovered
  <2>. QED BY <1>2, <2>1, UnpassedRun
<1>3. CASE ~Enter /\ PASS
  <2>1. Going /\ phase = "done"
    BY <1>3, RunSteps DEF Going, RunCovered, PASS
  <2>2. ~Borrow /\ ~Move /\ ~CallProduces
    <3> SUFFICES ASSUME Borrow \/ Move \/ CallProduces PROVE FALSE
      OBVIOUS
    <3>1. at.index <= Len(Code) /\ Current.op \in {"borrow", "move", "produce"}
      BY DEF Borrow, Move, CallProduces, Executing
    <3>2. Fits(Current) /\ Plain(Current)
      BY <2>1, <3>1, Here DEF Current
    <3>. QED BY <3>1, <3>2 DEF Fits, Plain
  <2>3. CASE Leave
    <3>1. status' = "stopped" /\ violation' = violation
      BY <2>3 DEF Leave
    <3>. QED BY <2>1, <3>1, Stopping DEF RunCovered, TrustworthyPass
  <2>4. CASE Return
    BY <2>1, <2>4, Stopping DEF Return, Stop
  <2>5. CASE Branch
    BY <2>1, <2>5, BranchRun
  <2>6. CASE SetNull \/ Malloc \/ Copy \/ Free \/ Use \/ SetResult \/ ReceiveResult
    BY <2>1, <2>6, StatementRun
  <2>7. CASE \/ \E i \in ArgumentIndices :
                   CallIgnores(i) \/ CallReads(i) \/ CallDestroys(i) \/ CallTakes(i)
             \/ CallReturns
    BY <2>1, <2>7, CallRun
  <2>. QED BY <1>3, <2>2, <2>3, <2>4, <2>5, <2>6, <2>7 DEF Run
<1>. QED BY <1>1, <1>2, <1>3

-----------------------------------------------------------------------------
(* What a PASS is worth *)

CheckedVars == <<vars, execVars>>

LEMMA CheckedStep ==
    ASSUME PlainSetting
    PROVE  Analysed /\ RunCovered /\ [CheckedNext]_CheckedVars => (Analysed /\ RunCovered)'
<1> SUFFICES ASSUME Analysed, RunCovered, [CheckedNext]_CheckedVars
             PROVE  Analysed' /\ RunCovered'
  OBVIOUS
<1>1. \/ [Next]_vars /\ UNCHANGED execVars
      \/ Run /\ UNCHANGED vars
  BY DEF CheckedNext, CheckedVars
<1>2. CASE [Next]_vars /\ UNCHANGED execVars
  BY <1>2, NextAnalysed, AnalysisRun
<1>3. CASE Run /\ UNCHANGED vars
  BY <1>3, NextAnalysed, RunRun
<1>. QED BY <1>1, <1>2, <1>3

LEMMA RunsAreCovered ==
    ASSUME PlainSetting
    PROVE  CheckedSpec => [](Analysed /\ RunCovered)
<1>1. CheckedInit => Analysed /\ RunCovered
  BY InitAnalysed, InitRun DEF CheckedInit
<1>2. Analysed /\ RunCovered /\ [CheckedNext]_CheckedVars => (Analysed /\ RunCovered)'
  BY CheckedStep
<1>. QED BY <1>1, <1>2, PTL DEF CheckedSpec, CheckedVars

LEMMA CoveredOnEntry ==
    ASSUME PlainSetting, Analysed, RunCovered, Entering
    PROVE  LET st == in_states[at.block]
           IN  Covers(st, mem, heap) /\ DOMAIN st.storages \subseteq Storages
<1>1. Going
  BY DEF Entering, Going, RunCovered
<1>2. at.block \in Reached /\ Between(0) = in_states[at.block]
  BY <1>1, Here
<1>3. Covers(Between(0), mem, heap)
  BY <1>1 DEF Going, Underway, Behind, Entering
<1>4. FlowOK(in_states[at.block])
  BY <1>2 DEF Analysed, EntriesApart, Apart
<1>. QED BY <1>2, <1>3, <1>4 DEF FlowOK, IsFlowState, IsMap

\* A function that passed at cand1 uses no object after its death and destroys
\* none twice, on any path and with any number of objects: for functions
\* without borrows, moves and pointer-output calls, whose callees destroy an
\* object only when they have no other argument (ADR-0010; FlowAnalyzer::run,
\* Collector::exitCode).
THEOREM PassIsTrustworthy ==
    ASSUME PlainSetting
    PROVE  CheckedSpec => []TrustworthyPass
<1>1. RunCovered => TrustworthyPass
  BY DEF RunCovered
<1>. QED BY <1>1, RunsAreCovered, PTL

\* What the converged entry state of a block says of a pointer and of the death
\* of its object is true of every run that enters the block (the join of the
\* entry states and the transfer functions, for the same functions).
THEOREM EntryStatesDescribeRuns ==
    ASSUME PlainSetting
    PROVE  CheckedSpec => []EntryStateCovers
<1>1. Analysed /\ RunCovered => EntryStateCovers
  <2> SUFFICES ASSUME Analysed, RunCovered, Entering, NEW s \in Storages, Points(s)
               PROVE  LET st == in_states[at.block]
                          o == st.storages[s].object_id
                      IN  /\ s \in DOMAIN st.storages
                          /\ \/ o = kUnknownObjectId
                             \/ /\ o % kGenerationStride = heap[mem[s]].id % kGenerationStride
                                /\ Dangling(s) => st.objects[o].state \in {"Dead", "MaybeDead", "Unknown"}
    BY DEF EntryStateCovers
  <2>1. Covers(in_states[at.block], mem, heap)
    BY CoveredOnEntry
  <2>. QED BY <2>1 DEF Covers, Tells, Gone, Points, Dangling
<1>. QED BY <1>1, RunsAreCovered, PTL

\* An entry state calls a pointer an owner only if the run has an object there,
\* and it is the one the state names.
THEOREM OwnersHaveObjects ==
    ASSUME PlainSetting
    PROVE  CheckedSpec => []OwnersExist
<1>1. Analysed /\ RunCovered => OwnersExist
  <2> SUFFICES ASSUME Analysed, RunCovered, Entering,
                      NEW s \in DOMAIN in_states[at.block].storages,
                      LET b == in_states[at.block].storages[s]
                      IN  b.relation = "Owner" /\ b.object_id # kUnknownObjectId
               PROVE  LET b == in_states[at.block].storages[s]
                      IN  /\ Points(s)
                          /\ heap[mem[s]].id % kGenerationStride = b.object_id % kGenerationStride
    BY DEF OwnersExist
  <2>1. Covers(in_states[at.block], mem, heap) /\ s \in Storages
    BY CoveredOnEntry
  <2>2. Points(s)
    BY <2>1 DEF Covers, OwnerOf, Points
  <2>. QED BY <2>1, <2>2 DEF Covers, Tells, Points
<1>. QED BY <1>1, RunsAreCovered, PTL

\* Two pointers an entry state binds to one object point to one object: two
\* rounds of a loop that allocates are not taken for one another.
THEOREM ObjectsAreToldApart ==
    ASSUME PlainSetting
    PROVE  CheckedSpec => []ObjectsToldApart
<1>1. Analysed /\ RunCovered => ObjectsToldApart
  <2> SUFFICES ASSUME Analysed, RunCovered, Entering,
                      NEW s \in DOMAIN in_states[at.block].storages,
                      NEW t \in DOMAIN in_states[at.block].storages,
                      LET bind == in_states[at.block].storages
                      IN  /\ bind[s].object_id = bind[t].object_id
                          /\ bind[s].object_id # kUnknownObjectId
                          /\ Points(s) /\ Points(t)
               PROVE  mem[s] = mem[t]
    BY DEF ObjectsToldApart
  <2>1. Covers(in_states[at.block], mem, heap) /\ s \in Storages /\ t \in Storages
    BY CoveredOnEntry
  <2>. QED BY <2>1 DEF Covers, Known, Points
<1>. QED BY <1>1, RunsAreCovered, PTL
===============================================================================
