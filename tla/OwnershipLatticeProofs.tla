----------------------- MODULE OwnershipLatticeProofs -----------------------
(***************************************************************************)
(* The join of flow states behaves as an upper bound: it stays in the      *)
(* domain and absorbs both of its operands, and whatever it absorbed once  *)
(* it still absorbs after it has grown.  These are the facts the fixed     *)
(* point of FlowAnalyzer rests on.  Each is first shown for the values the *)
(* components of a flow state hold and then lifted to whole flow states.   *)
(***************************************************************************)
EXTENDS OwnershipLattice, TLAPS

-----------------------------------------------------------------------------
(* Values *)

LEMMA JoinStateFacts ==
    ASSUME NEW a \in ObjectState, NEW b \in ObjectState, NEW x \in ObjectState
    PROVE  /\ joinState(a, x) \in ObjectState
           /\ joinState(a, a) = a
           /\ joinState(joinState(a, x), x) = joinState(a, x)
           /\ joinState(joinState(a, x), a) = joinState(a, x)
           /\ joinState(a, b) = a => joinState(joinState(a, x), b) = joinState(a, x)
  BY SMTT(60) DEF joinState, ObjectState

LEMMA JoinBorrowStateFacts ==
    ASSUME NEW a \in BorrowState, NEW b \in BorrowState, NEW x \in BorrowState
    PROVE  /\ joinBorrowState(a, x) \in BorrowState
           /\ joinBorrowState(a, a) = a
           /\ joinBorrowState(joinBorrowState(a, x), x) = joinBorrowState(a, x)
           /\ joinBorrowState(joinBorrowState(a, x), a) = joinBorrowState(a, x)
           /\ joinBorrowState(a, b) = a =>
                 joinBorrowState(joinBorrowState(a, x), b) = joinBorrowState(a, x)
  BY SMTT(60) DEF joinBorrowState, BorrowState

LEMMA JoinRelationFacts ==
    ASSUME NEW a \in PointerRelation, NEW b \in PointerRelation, NEW x \in PointerRelation
    PROVE  /\ joinRelation(a, x) \in PointerRelation
           /\ joinRelation(a, a) = a
           /\ joinRelation(joinRelation(a, x), x) = joinRelation(a, x)
           /\ joinRelation(joinRelation(a, x), a) = joinRelation(a, x)
           /\ joinRelation(a, b) = a =>
                 joinRelation(joinRelation(a, x), b) = joinRelation(a, x)
  BY SMTT(60) DEF joinRelation, PointerRelation, MovedRelation

\* The cases of joinTarget.
OneTarget(a, x) == a.object_id = x.object_id
NullAndTarget(a, x) ==
    a.object_id # x.object_id /\ ~Unresolved(a) /\ ~Unresolved(x) /\ KnownNull(a)
NoTarget(a, x) == ~OneTarget(a, x) /\ ~NullAndTarget(a, x) /\ ~NullAndTarget(x, a)

IsBinding(b, id, relation) == b.object_id = id /\ b.relation = relation

LEMMA JoinBindingCases ==
    ASSUME NEW a \in CoherentBinding, NEW x \in CoherentBinding
    PROVE  LET j == joinBinding(a, x)
           IN  /\ OneTarget(a, x) =>
                     IsBinding(j, a.object_id, joinRelation(a.relation, x.relation))
               /\ NullAndTarget(a, x) => IsBinding(j, x.object_id, "MaybeNull")
               /\ NullAndTarget(x, a) => IsBinding(j, a.object_id, "MaybeNull")
               /\ NoTarget(a, x) => IsBinding(j, kUnknownObjectId, "Unknown")
               /\ j.produced_maybe = (a.produced_maybe \/ x.produced_maybe)
<1> DEFINE j == joinBinding(a, x)
<1>1. /\ j.object_id = joinTarget(a, x)[1] /\ j.relation = joinTarget(a, x)[2]
      /\ j.produced_maybe = (a.produced_maybe \/ x.produced_maybe)
  BY DEF joinBinding
<1> HIDE DEF j
<1>2. ASSUME OneTarget(a, x)
      PROVE  IsBinding(j, a.object_id, joinRelation(a.relation, x.relation))
  BY <1>1, <1>2 DEF joinTarget, OneTarget, IsBinding
<1>3. ASSUME NullAndTarget(a, x)
      PROVE  IsBinding(j, x.object_id, "MaybeNull")
  BY <1>1, <1>3 DEF joinTarget, NullAndTarget, IsBinding
<1>4. ASSUME NullAndTarget(x, a)
      PROVE  IsBinding(j, a.object_id, "MaybeNull")
  <2>1. a.object_id # x.object_id /\ ~Unresolved(a) /\ ~Unresolved(x) /\ KnownNull(x) /\ ~KnownNull(a)
    BY <1>4 DEF NullAndTarget, KnownNull
  <2>. QED BY <1>1, <2>1 DEF joinTarget, IsBinding
<1>5. ASSUME NoTarget(a, x)
      PROVE  IsBinding(j, kUnknownObjectId, "Unknown")
  BY <1>1, <1>5 DEF joinTarget, IsBinding, NoTarget, OneTarget, NullAndTarget
<1>. QED BY <1>1, <1>2, <1>3, <1>4, <1>5 DEF j

LEMMA CoherentFacts ==
    ASSUME NEW b
    PROVE  b \in CoherentBinding <=>
              /\ b = [object_id |-> b.object_id, relation |-> b.relation,
                      produced_maybe |-> b.produced_maybe]
              /\ b.object_id \in ObjectIds /\ b.relation \in PointerRelation
              /\ b.produced_maybe \in BOOLEAN
              /\ b.object_id = kUnknownObjectId => b.relation = "Unknown"
              /\ b.object_id = kNullObjectId => b.relation \in {"Null", "Alias", "Unknown"}
  BY DEF CoherentBinding, StorageBinding

LEMMA JoinBindingCoherent ==
    ASSUME NEW a \in CoherentBinding, NEW x \in CoherentBinding
    PROVE  joinBinding(a, x) \in CoherentBinding
<1> DEFINE j == joinBinding(a, x)
<1>1. /\ j = [object_id |-> j.object_id, relation |-> j.relation,
              produced_maybe |-> j.produced_maybe]
      /\ j.produced_maybe \in BOOLEAN
  BY DEF joinBinding
<1>2. /\ a.object_id \in ObjectIds /\ a.relation \in PointerRelation
      /\ x.object_id \in ObjectIds /\ x.relation \in PointerRelation
      /\ a.object_id = kUnknownObjectId => a.relation = "Unknown"
      /\ a.object_id = kNullObjectId => a.relation \in {"Null", "Alias", "Unknown"}
      /\ x.object_id = kNullObjectId => x.relation \in {"Null", "Alias", "Unknown"}
      /\ x.object_id = kUnknownObjectId => x.relation = "Unknown"
  BY CoherentFacts
<1> HIDE DEF j
<1> DEFINE Good == /\ j.object_id \in ObjectIds /\ j.relation \in PointerRelation
                   /\ j.object_id = kUnknownObjectId => j.relation = "Unknown"
                   /\ j.object_id = kNullObjectId => j.relation \in {"Null", "Alias", "Unknown"}
<1>3. ASSUME OneTarget(a, x) PROVE Good
  <2>1. IsBinding(j, a.object_id, joinRelation(a.relation, x.relation))
    BY <1>3, JoinBindingCases DEF j
  <2>2. joinRelation(a.relation, x.relation) \in PointerRelation
    BY <1>2, JoinRelationFacts
  <2>3. a.object_id \in {kNullObjectId, kUnknownObjectId} =>
           joinRelation(a.relation, x.relation) \in {a.relation, "Unknown"}
    BY <1>2, <1>3 DEF joinRelation, MovedRelation, OneTarget
  <2>. QED BY <1>2, <2>1, <2>2, <2>3 DEF IsBinding
<1>4. ASSUME NullAndTarget(a, x) PROVE Good
  <2>1. IsBinding(j, x.object_id, "MaybeNull")
    BY <1>4, JoinBindingCases DEF j
  <2>2. x.object_id \notin {kNullObjectId, kUnknownObjectId}
    BY <1>4 DEF NullAndTarget, Unresolved, KnownNull
  <2>. QED BY <1>2, <2>1, <2>2 DEF IsBinding, PointerRelation
<1>5. ASSUME NullAndTarget(x, a) PROVE Good
  <2>1. IsBinding(j, a.object_id, "MaybeNull")
    BY <1>5, JoinBindingCases DEF j
  <2>2. a.object_id \notin {kNullObjectId, kUnknownObjectId}
    BY <1>5 DEF NullAndTarget, Unresolved, KnownNull
  <2>. QED BY <1>2, <2>1, <2>2 DEF IsBinding, PointerRelation
<1>6. ASSUME NoTarget(a, x) PROVE Good
  <2>1. IsBinding(j, kUnknownObjectId, "Unknown")
    BY <1>6, JoinBindingCases DEF j
  <2>2. kUnknownObjectId \in ObjectIds /\ "Unknown" \in PointerRelation
    BY UnknownIdAssumption DEF ObjectIds, PointerRelation
  <2>. QED BY <2>1, <2>2, UnknownIdAssumption DEF IsBinding
<1>7. Good
  BY <1>3, <1>4, <1>5, <1>6 DEF NoTarget
<1>8. j \in CoherentBinding
  BY <1>1, <1>7, CoherentFacts DEF j
<1>. QED BY <1>8 DEF j

\* j absorbs y: their join is j again.
LEMMA JoinBindingAbsorbs ==
    ASSUME NEW j \in CoherentBinding, NEW y \in CoherentBinding,
           y.produced_maybe => j.produced_maybe,
           \/ OneTarget(j, y) /\ joinRelation(j.relation, y.relation) = j.relation
           \/ NullAndTarget(y, j) /\ j.relation = "MaybeNull"
           \/ NoTarget(j, y) /\ IsBinding(j, kUnknownObjectId, "Unknown")
    PROVE  joinBinding(j, y) = j
<1> DEFINE k == joinBinding(j, y)
<1>1. k.object_id = j.object_id /\ k.relation = j.relation
  BY JoinBindingCases DEF IsBinding
<1>2. k.produced_maybe = j.produced_maybe
  BY CoherentFacts, JoinBindingCases
<1>3. k \in CoherentBinding
  BY JoinBindingCoherent
<1> HIDE DEF k
<1>4. k = j
  BY <1>1, <1>2, <1>3, CoherentFacts
<1>. QED BY <1>4 DEF k

\* And what such a j must be like.
LEMMA AbsorbedCases ==
    ASSUME NEW j \in CoherentBinding, NEW y \in CoherentBinding, joinBinding(j, y) = j
    PROVE  /\ y.produced_maybe => j.produced_maybe
           /\ \/ OneTarget(j, y) /\ joinRelation(j.relation, y.relation) = j.relation
              \/ NullAndTarget(y, j) /\ j.relation = "MaybeNull"
              \/ NoTarget(j, y) /\ IsBinding(j, kUnknownObjectId, "Unknown")
<1>1. ~NullAndTarget(j, y)
  BY JoinBindingCases DEF NullAndTarget, IsBinding
<1>2. y.produced_maybe => j.produced_maybe
  BY CoherentFacts, JoinBindingCases
<1>. QED BY <1>1, <1>2, JoinBindingCases DEF IsBinding, NoTarget

\* A join of coherent bindings is coherent and absorbs both operands.
LEMMA JoinBindingFacts ==
    ASSUME NEW a \in CoherentBinding, NEW b \in CoherentBinding, NEW x \in CoherentBinding
    PROVE  /\ joinBinding(a, x) \in CoherentBinding
           /\ joinBinding(a, a) = a
           /\ joinBinding(joinBinding(a, x), x) = joinBinding(a, x)
           /\ joinBinding(joinBinding(a, x), a) = joinBinding(a, x)
           /\ joinBinding(a, b) = a =>
                 joinBinding(joinBinding(a, x), b) = joinBinding(a, x)
<1> DEFINE j == joinBinding(a, x)
           unknown == IsBinding(j, kUnknownObjectId, "Unknown")
<1>1. j \in CoherentBinding
  BY JoinBindingCoherent
<1>2. joinBinding(a, a) = a
  <2>1. joinRelation(a.relation, a.relation) = a.relation
    BY DEF joinRelation
  <2>. QED BY <2>1, JoinBindingAbsorbs DEF OneTarget
<1>3. /\ a.relation \in PointerRelation /\ x.relation \in PointerRelation
      /\ b.relation \in PointerRelation
  BY CoherentFacts
<1>4. /\ OneTarget(a, x) => IsBinding(j, a.object_id, joinRelation(a.relation, x.relation))
      /\ NullAndTarget(a, x) => IsBinding(j, x.object_id, "MaybeNull")
      /\ NullAndTarget(x, a) => IsBinding(j, a.object_id, "MaybeNull")
      /\ NoTarget(a, x) => unknown
      /\ j.produced_maybe = (a.produced_maybe \/ x.produced_maybe)
  BY JoinBindingCases
<1> HIDE DEF j
\* What is bound to nothing known absorbs everything.
<1>5. ASSUME unknown, NEW y \in CoherentBinding, y.produced_maybe => j.produced_maybe
      PROVE  joinBinding(j, y) = j
  <2>1. CASE OneTarget(j, y)
    <3>1. y.relation = "Unknown" /\ j.relation = "Unknown"
      BY <1>5, <2>1, CoherentFacts DEF OneTarget, IsBinding
    <3>2. joinRelation(j.relation, y.relation) = j.relation
      BY <3>1 DEF joinRelation
    <3>. QED BY <1>1, <1>5, <2>1, <3>2, JoinBindingAbsorbs
  <2>2. CASE ~OneTarget(j, y)
    <3>1. NoTarget(j, y)
      BY <1>5, <2>2 DEF NoTarget, NullAndTarget, Unresolved, IsBinding
    <3>. QED BY <1>1, <1>5, <3>1, JoinBindingAbsorbs
  <2>. QED BY <2>1, <2>2
\* So does what may be null, of another such and of null.
<1>6. ASSUME j.relation = "MaybeNull", NEW y \in CoherentBinding,
             y.produced_maybe => j.produced_maybe,
             OneTarget(j, y) \/ NullAndTarget(y, j)
      PROVE  joinBinding(j, y) = j
  <2>1. joinRelation("MaybeNull", y.relation) = "MaybeNull"
    BY DEF joinRelation
  <2>. QED BY <1>1, <1>6, <2>1, JoinBindingAbsorbs
<1>7. joinBinding(j, x) = j /\ joinBinding(j, a) = j
  <2>1. CASE OneTarget(a, x)
    <3>1. /\ joinRelation(joinRelation(a.relation, x.relation), x.relation) =
                joinRelation(a.relation, x.relation)
          /\ joinRelation(joinRelation(a.relation, x.relation), a.relation) =
                joinRelation(a.relation, x.relation)
      BY <1>3, JoinRelationFacts
    <3>2. OneTarget(j, x) /\ OneTarget(j, a)
      BY <1>4, <2>1 DEF OneTarget, IsBinding
    <3>. QED BY <1>1, <1>4, <2>1, <3>1, <3>2, JoinBindingAbsorbs DEF IsBinding
  <2>2. CASE NullAndTarget(a, x)
    <3>1. OneTarget(j, x) /\ NullAndTarget(a, j) /\ j.relation = "MaybeNull"
      BY <1>4, <2>2 DEF OneTarget, NullAndTarget, Unresolved, KnownNull, IsBinding
    <3>. QED BY <1>4, <1>6, <3>1
  <2>3. CASE NullAndTarget(x, a)
    <3>1. OneTarget(j, a) /\ NullAndTarget(x, j) /\ j.relation = "MaybeNull"
      BY <1>4, <2>3 DEF OneTarget, NullAndTarget, Unresolved, KnownNull, IsBinding
    <3>. QED BY <1>4, <1>6, <3>1
  <2>4. CASE NoTarget(a, x)
    BY <1>4, <1>5, <2>4
  <2>. QED BY <2>1, <2>2, <2>3, <2>4 DEF NoTarget
<1>8. ASSUME joinBinding(a, b) = a
      PROVE  joinBinding(j, b) = j
  <2>1. /\ b.produced_maybe => a.produced_maybe
        /\ \/ OneTarget(a, b) /\ joinRelation(a.relation, b.relation) = a.relation
           \/ NullAndTarget(b, a) /\ a.relation = "MaybeNull"
           \/ NoTarget(a, b) /\ IsBinding(a, kUnknownObjectId, "Unknown")
    BY <1>8, AbsorbedCases
  <2>2. b.produced_maybe => j.produced_maybe
    BY <1>4, <2>1
  <2>3. CASE OneTarget(a, b) /\ joinRelation(a.relation, b.relation) = a.relation
    <3>1. CASE OneTarget(a, x)
      <4>1. joinRelation(joinRelation(a.relation, x.relation), b.relation) =
               joinRelation(a.relation, x.relation)
        BY <1>3, <2>3, JoinRelationFacts
      <4>2. OneTarget(j, b)
        BY <1>4, <2>3, <3>1 DEF OneTarget, IsBinding
      <4>. QED BY <1>1, <1>4, <2>2, <3>1, <4>1, <4>2, JoinBindingAbsorbs DEF IsBinding
    <3>2. CASE NullAndTarget(a, x)
      <4>1. b.relation = "Null"
        BY <1>3, <2>3, <3>2 DEF joinRelation, PointerRelation, MovedRelation, NullAndTarget, KnownNull
      <4>2. NullAndTarget(b, j) /\ j.relation = "MaybeNull"
        BY <1>4, <2>3, <3>2, <4>1
           DEF OneTarget, NullAndTarget, Unresolved, KnownNull, IsBinding
      <4>. QED BY <1>6, <2>2, <4>2
    <3>3. CASE NullAndTarget(x, a)
      <4>1. OneTarget(j, b) /\ j.relation = "MaybeNull"
        BY <1>4, <2>3, <3>3 DEF OneTarget, IsBinding
      <4>. QED BY <1>6, <2>2, <4>1
    <3>4. CASE NoTarget(a, x)
      BY <1>4, <1>5, <2>2, <3>4
    <3>. QED BY <3>1, <3>2, <3>3, <3>4 DEF NoTarget
  <2>4. CASE NullAndTarget(b, a) /\ a.relation = "MaybeNull"
    <3>1. CASE OneTarget(a, x)
      <4>1. joinRelation("MaybeNull", x.relation) = "MaybeNull"
        BY DEF joinRelation
      <4>2. NullAndTarget(b, j) /\ j.relation = "MaybeNull"
        BY <1>4, <2>4, <3>1, <4>1 DEF NullAndTarget, Unresolved, KnownNull, IsBinding
      <4>. QED BY <1>6, <2>2, <4>2
    <3>2. ~NullAndTarget(a, x)
      BY <2>4 DEF NullAndTarget, KnownNull
    <3>3. CASE NullAndTarget(x, a)
      <4>1. NullAndTarget(b, j) /\ j.relation = "MaybeNull"
        BY <1>4, <2>4, <3>3 DEF NullAndTarget, Unresolved, KnownNull, IsBinding
      <4>. QED BY <1>6, <2>2, <4>1
    <3>4. CASE NoTarget(a, x)
      BY <1>4, <1>5, <2>2, <3>4
    <3>. QED BY <3>1, <3>2, <3>3, <3>4 DEF NoTarget
  <2>5. CASE NoTarget(a, b) /\ IsBinding(a, kUnknownObjectId, "Unknown")
    <3>1. CASE OneTarget(a, x)
      <4>1. x.relation = "Unknown"
        BY <2>5, <3>1, CoherentFacts DEF OneTarget, IsBinding
      <4>2. joinRelation("Unknown", "Unknown") = "Unknown"
        BY DEF joinRelation
      <4>3. unknown
        BY <1>4, <2>5, <3>1, <4>1, <4>2 DEF IsBinding
      <4>. QED BY <1>5, <2>2, <4>3
    <3>2. CASE ~OneTarget(a, x)
      <4>1. NoTarget(a, x)
        BY <2>5, <3>2 DEF NoTarget, NullAndTarget, Unresolved, IsBinding
      <4>. QED BY <1>4, <1>5, <2>2, <4>1
    <3>. QED BY <3>1, <3>2
  <2>. QED BY <2>1, <2>3, <2>4, <2>5
<1>. QED BY <1>1, <1>2, <1>7, <1>8 DEF j

LEMMA JoinObjectFacts ==
    ASSUME NEW a \in ObjectInfo, NEW b \in ObjectInfo, NEW x \in ObjectInfo
    PROVE  /\ joinObject(a, x) \in ObjectInfo
           /\ joinObject(a, a) = a
           /\ joinObject(joinObject(a, x), x) = joinObject(a, x)
           /\ joinObject(joinObject(a, x), a) = joinObject(a, x)
           /\ joinObject(a, b) = a =>
                 joinObject(joinObject(a, x), b) = joinObject(a, x)
<1>1. {a.state, b.state, x.state} \subseteq ObjectState
  BY DEF ObjectInfo
<1>2. QED
  BY <1>1, JoinStateFacts, SMTT(60)
     DEF ObjectInfo, ObjectOrigin, ParameterCapability, joinObject

LEMMA JoinBorrowFacts ==
    ASSUME NEW a \in BorrowInfo, NEW b \in BorrowInfo, NEW x \in BorrowInfo
    PROVE  /\ joinBorrow(a, x) \in BorrowInfo
           /\ joinBorrow(a, a) = a
           /\ joinBorrow(joinBorrow(a, x), x) = joinBorrow(a, x)
           /\ joinBorrow(joinBorrow(a, x), a) = joinBorrow(a, x)
           /\ joinBorrow(a, b) = a =>
                 joinBorrow(joinBorrow(a, x), b) = joinBorrow(a, x)
<1>1. {a.state, b.state, x.state} \subseteq BorrowState
  BY DEF BorrowInfo
<1>2. QED
  BY <1>1, JoinBorrowStateFacts, SMTT(60) DEF BorrowInfo, joinBorrow

-----------------------------------------------------------------------------
(* Maps *)

ObjectKeys == ObjectIds \ {kNullObjectId, kUnknownObjectId}

LEMMA DefaultIsCoherent == DefaultBinding \in CoherentBinding
  BY UnknownIdAssumption
     DEF DefaultBinding, Binding, CoherentBinding, StorageBinding, ObjectIds,
         PointerRelation, kNullObjectId

\* The facts of joinBinding hold of storages, an absent storage counting as
\* StorageBinding{}.
LEMMA JoinStoragesFacts ==
    ASSUME NEW S, NEW f, NEW g, NEW h,
           IsMap(f, S, CoherentBinding), IsMap(g, S, CoherentBinding),
           IsMap(h, S, CoherentBinding)
    PROVE  /\ IsMap(joinStorages(f, h), S, CoherentBinding)
           /\ joinStorages(f, f) = f
           /\ joinStorages(joinStorages(f, h), h) = joinStorages(f, h)
           /\ joinStorages(joinStorages(f, h), f) = joinStorages(f, h)
           /\ joinStorages(f, g) = f =>
                 joinStorages(joinStorages(f, h), g) = joinStorages(f, h)
<1> DEFINE D == DOMAIN f \cup DOMAIN h
           fh == joinStorages(f, h)
<1>1. \A s : /\ BindingOr(f, s) \in CoherentBinding
             /\ BindingOr(g, s) \in CoherentBinding
             /\ BindingOr(h, s) \in CoherentBinding
  BY DefaultIsCoherent DEF IsMap, BindingOr
<1>2. /\ fh = [s \in D |-> fh[s]]
      /\ DOMAIN fh = D
      /\ \A s \in D : fh[s] = joinBinding(BindingOr(f, s), BindingOr(h, s))
      /\ \A s \in D : BindingOr(fh, s) = fh[s]
  BY DEF joinStorages, BindingOr
<1>9. ASSUME NEW s \in D
      PROVE  /\ fh[s] \in CoherentBinding
             /\ joinBinding(BindingOr(fh, s), BindingOr(h, s)) = fh[s]
             /\ joinBinding(BindingOr(fh, s), BindingOr(f, s)) = fh[s]
             /\ joinBinding(BindingOr(f, s), BindingOr(g, s)) = BindingOr(f, s) =>
                   joinBinding(BindingOr(fh, s), BindingOr(g, s)) = fh[s]
  <2> DEFINE fs == BindingOr(f, s)
             gs == BindingOr(g, s)
             hs == BindingOr(h, s)
  <2>1. fs \in CoherentBinding /\ gs \in CoherentBinding /\ hs \in CoherentBinding
    BY <1>1
  <2>2. fh[s] = joinBinding(fs, hs) /\ BindingOr(fh, s) = fh[s]
    BY <1>2
  <2> HIDE DEF fs, gs, hs, fh, D
  <2>3. /\ joinBinding(fs, hs) \in CoherentBinding
        /\ joinBinding(joinBinding(fs, hs), hs) = joinBinding(fs, hs)
        /\ joinBinding(joinBinding(fs, hs), fs) = joinBinding(fs, hs)
        /\ joinBinding(fs, gs) = fs =>
              joinBinding(joinBinding(fs, hs), gs) = joinBinding(fs, hs)
    BY <2>1, JoinBindingFacts
  <2>4. QED
    BY <2>2, <2>3 DEF fs, gs, hs
<1>3. IsMap(fh, S, CoherentBinding)
  <2>1. \A s \in D : fh[s] \in CoherentBinding
    BY <1>9
  <2>2. QED
    BY <1>2, <2>1 DEF IsMap
<1>4. joinStorages(f, f) = f
  <2>1. \A s \in DOMAIN f : joinBinding(BindingOr(f, s), BindingOr(f, s)) = f[s]
    BY <1>1, JoinBindingFacts DEF BindingOr
  <2>2. f = [s \in DOMAIN f |-> f[s]]
    BY DEF IsMap
  <2>3. QED
    BY <2>1, <2>2 DEF joinStorages
<1>5. joinStorages(fh, h) = fh
  <2>1. \A s \in D : joinBinding(BindingOr(fh, s), BindingOr(h, s)) = fh[s]
    BY <1>9
  <2>2. DOMAIN fh \cup DOMAIN h = D
    BY <1>2
  <2>3. QED
    BY <1>2, <2>1, <2>2 DEF joinStorages
<1>6. joinStorages(fh, f) = fh
  <2>1. \A s \in D : joinBinding(BindingOr(fh, s), BindingOr(f, s)) = fh[s]
    BY <1>9
  <2>2. DOMAIN fh \cup DOMAIN f = D
    BY <1>2
  <2>3. QED
    BY <1>2, <2>1, <2>2 DEF joinStorages
<1>7. ASSUME joinStorages(f, g) = f
      PROVE  joinStorages(fh, g) = fh
  <2>1. /\ DOMAIN g \subseteq DOMAIN f
        /\ \A s \in DOMAIN f : joinBinding(BindingOr(f, s), BindingOr(g, s)) = f[s]
    BY <1>7 DEF joinStorages
  <2>2. \A s : joinBinding(BindingOr(f, s), BindingOr(g, s)) = BindingOr(f, s)
    <3>1. joinBinding(DefaultBinding, DefaultBinding) = DefaultBinding
      BY DefaultIsCoherent, JoinBindingFacts
    <3>2. QED
      BY <2>1, <3>1 DEF BindingOr
  <2>3. \A s \in D : joinBinding(BindingOr(fh, s), BindingOr(g, s)) = fh[s]
    BY <1>9, <2>2
  <2>4. DOMAIN fh \cup DOMAIN g = D
    BY <1>2, <2>1
  <2>5. QED
    BY <1>2, <2>3, <2>4 DEF joinStorages
<1>8. QED
  BY <1>3, <1>4, <1>5, <1>6, <1>7

\* The facts of joinObject hold of the objects; a key only one side has is copied.
LEMMA JoinObjectsFacts ==
    ASSUME NEW K, NEW f, NEW g, NEW h,
           IsMap(f, K, ObjectInfo), IsMap(g, K, ObjectInfo), IsMap(h, K, ObjectInfo)
    PROVE  LET fh == joinCommon(f, h, joinObject)
           IN  /\ IsMap(fh, K, ObjectInfo)
               /\ joinCommon(f, f, joinObject) = f
               /\ joinCommon(fh, h, joinObject) = fh
               /\ joinCommon(fh, f, joinObject) = fh
               /\ joinCommon(f, g, joinObject) = f =>
                     joinCommon(fh, g, joinObject) = fh
<1> DEFINE Merged(m, n) == joinCommon(m, n, joinObject)
           D == DOMAIN f \cup DOMAIN h
           fh == Merged(f, h)
<1>1. /\ \A k \in DOMAIN f : f[k] \in ObjectInfo
      /\ \A k \in DOMAIN g : g[k] \in ObjectInfo
      /\ \A k \in DOMAIN h : h[k] \in ObjectInfo
      /\ f = [k \in DOMAIN f |-> f[k]]
      /\ D \subseteq K
  BY DEF IsMap
<1>2. /\ fh = [k \in D |-> fh[k]]
      /\ DOMAIN fh = D
      /\ \A k \in D : fh[k] = IF k \notin DOMAIN h THEN f[k]
                               ELSE IF k \notin DOMAIN f THEN h[k]
                               ELSE joinObject(f[k], h[k])
  BY DEF joinCommon
<1>3. ASSUME NEW k \in D
      PROVE  /\ fh[k] \in ObjectInfo
             /\ k \in DOMAIN h => joinObject(fh[k], h[k]) = fh[k]
             /\ k \in DOMAIN f => joinObject(fh[k], f[k]) = fh[k]
             /\ k \in DOMAIN f /\ k \in DOMAIN g /\ joinObject(f[k], g[k]) = f[k] =>
                   joinObject(fh[k], g[k]) = fh[k]
  <2> HIDE DEF fh
  <2>1. CASE k \notin DOMAIN h
    <3>1. k \in DOMAIN f /\ fh[k] = f[k] /\ f[k] \in ObjectInfo
      BY <1>1, <1>2, <2>1
    <3>2. joinObject(f[k], f[k]) = f[k]
      BY <3>1, JoinObjectFacts
    <3>3. QED
      BY <2>1, <3>1, <3>2
  <2>2. CASE k \notin DOMAIN f
    <3>1. k \in DOMAIN h /\ fh[k] = h[k] /\ h[k] \in ObjectInfo
      BY <1>1, <1>2, <2>2
    <3>2. joinObject(h[k], h[k]) = h[k]
      BY <3>1, JoinObjectFacts
    <3>3. QED
      BY <2>2, <3>1, <3>2
  <2>3. CASE k \in DOMAIN f /\ k \in DOMAIN h
    <3>1. fh[k] = joinObject(f[k], h[k]) /\ f[k] \in ObjectInfo /\ h[k] \in ObjectInfo
      BY <1>1, <1>2, <2>3
    <3>2. k \in DOMAIN g => g[k] \in ObjectInfo
      BY <1>1
    <3>3. /\ joinObject(f[k], h[k]) \in ObjectInfo
          /\ joinObject(joinObject(f[k], h[k]), h[k]) = joinObject(f[k], h[k])
          /\ joinObject(joinObject(f[k], h[k]), f[k]) = joinObject(f[k], h[k])
          /\ k \in DOMAIN g /\ joinObject(f[k], g[k]) = f[k] =>
                joinObject(joinObject(f[k], h[k]), g[k]) = joinObject(f[k], h[k])
      BY <3>1, <3>2, JoinObjectFacts
    <3>4. QED
      BY <3>1, <3>3
  <2>4. QED
    BY <2>1, <2>2, <2>3
<1>4. Merged(f, f) = f
  BY <1>1, JoinObjectFacts DEF joinCommon
<1> HIDE DEF fh, D
<1>5. Merged(fh, h) = fh
  <2>1. DOMAIN fh \cup DOMAIN h = DOMAIN fh
    BY <1>2 DEF D
  <2>2. QED
    BY <1>2, <1>3, <2>1 DEF joinCommon
<1>6. Merged(fh, f) = fh
  <2>1. DOMAIN fh \cup DOMAIN f = DOMAIN fh
    BY <1>2 DEF D
  <2>2. QED
    BY <1>2, <1>3, <2>1 DEF joinCommon
<1>7. ASSUME Merged(f, g) = f
      PROVE  Merged(fh, g) = fh
  <2>1. /\ DOMAIN g \subseteq DOMAIN f
        /\ \A k \in DOMAIN g : joinObject(f[k], g[k]) = f[k]
    BY <1>7 DEF joinCommon
  <2>2. DOMAIN fh \cup DOMAIN g = DOMAIN fh /\ DOMAIN g \subseteq D
    BY <1>2, <2>1 DEF D
  <2>3. \A k \in DOMAIN g : joinObject(fh[k], g[k]) = fh[k]
    BY <1>3, <2>1, <2>2
  <2>4. QED
    BY <1>2, <2>2, <2>3 DEF joinCommon
<1>8. IsMap(fh, K, ObjectInfo)
  BY <1>1, <1>2, <1>3 DEF IsMap
<1>9. QED
  BY <1>4, <1>5, <1>6, <1>7, <1>8 DEF fh

\* The facts of joinBorrow hold of the borrows; a key only one side has is copied.
LEMMA JoinBorrowsFacts ==
    ASSUME NEW K, NEW f, NEW g, NEW h,
           IsMap(f, K, BorrowInfo), IsMap(g, K, BorrowInfo), IsMap(h, K, BorrowInfo)
    PROVE  LET fh == joinCommon(f, h, joinBorrow)
           IN  /\ IsMap(fh, K, BorrowInfo)
               /\ joinCommon(f, f, joinBorrow) = f
               /\ joinCommon(fh, h, joinBorrow) = fh
               /\ joinCommon(fh, f, joinBorrow) = fh
               /\ joinCommon(f, g, joinBorrow) = f =>
                     joinCommon(fh, g, joinBorrow) = fh
<1> DEFINE Merged(m, n) == joinCommon(m, n, joinBorrow)
           D == DOMAIN f \cup DOMAIN h
           fh == Merged(f, h)
<1>1. /\ \A k \in DOMAIN f : f[k] \in BorrowInfo
      /\ \A k \in DOMAIN g : g[k] \in BorrowInfo
      /\ \A k \in DOMAIN h : h[k] \in BorrowInfo
      /\ f = [k \in DOMAIN f |-> f[k]]
      /\ D \subseteq K
  BY DEF IsMap
<1>2. /\ fh = [k \in D |-> fh[k]]
      /\ DOMAIN fh = D
      /\ \A k \in D : fh[k] = IF k \notin DOMAIN h THEN f[k]
                               ELSE IF k \notin DOMAIN f THEN h[k]
                               ELSE joinBorrow(f[k], h[k])
  BY DEF joinCommon
<1>3. ASSUME NEW k \in D
      PROVE  /\ fh[k] \in BorrowInfo
             /\ k \in DOMAIN h => joinBorrow(fh[k], h[k]) = fh[k]
             /\ k \in DOMAIN f => joinBorrow(fh[k], f[k]) = fh[k]
             /\ k \in DOMAIN f /\ k \in DOMAIN g /\ joinBorrow(f[k], g[k]) = f[k] =>
                   joinBorrow(fh[k], g[k]) = fh[k]
  <2> HIDE DEF fh
  <2>1. CASE k \notin DOMAIN h
    <3>1. k \in DOMAIN f /\ fh[k] = f[k] /\ f[k] \in BorrowInfo
      BY <1>1, <1>2, <2>1
    <3>2. joinBorrow(f[k], f[k]) = f[k]
      BY <3>1, JoinBorrowFacts
    <3>3. QED
      BY <2>1, <3>1, <3>2
  <2>2. CASE k \notin DOMAIN f
    <3>1. k \in DOMAIN h /\ fh[k] = h[k] /\ h[k] \in BorrowInfo
      BY <1>1, <1>2, <2>2
    <3>2. joinBorrow(h[k], h[k]) = h[k]
      BY <3>1, JoinBorrowFacts
    <3>3. QED
      BY <2>2, <3>1, <3>2
  <2>3. CASE k \in DOMAIN f /\ k \in DOMAIN h
    <3>1. fh[k] = joinBorrow(f[k], h[k]) /\ f[k] \in BorrowInfo /\ h[k] \in BorrowInfo
      BY <1>1, <1>2, <2>3
    <3>2. k \in DOMAIN g => g[k] \in BorrowInfo
      BY <1>1
    <3>3. /\ joinBorrow(f[k], h[k]) \in BorrowInfo
          /\ joinBorrow(joinBorrow(f[k], h[k]), h[k]) = joinBorrow(f[k], h[k])
          /\ joinBorrow(joinBorrow(f[k], h[k]), f[k]) = joinBorrow(f[k], h[k])
          /\ k \in DOMAIN g /\ joinBorrow(f[k], g[k]) = f[k] =>
                joinBorrow(joinBorrow(f[k], h[k]), g[k]) = joinBorrow(f[k], h[k])
      BY <3>1, <3>2, JoinBorrowFacts
    <3>4. QED
      BY <3>1, <3>3
  <2>4. QED
    BY <2>1, <2>2, <2>3
<1>4. Merged(f, f) = f
  BY <1>1, JoinBorrowFacts DEF joinCommon
<1> HIDE DEF fh, D
<1>5. Merged(fh, h) = fh
  <2>1. DOMAIN fh \cup DOMAIN h = DOMAIN fh
    BY <1>2 DEF D
  <2>2. QED
    BY <1>2, <1>3, <2>1 DEF joinCommon
<1>6. Merged(fh, f) = fh
  <2>1. DOMAIN fh \cup DOMAIN f = DOMAIN fh
    BY <1>2 DEF D
  <2>2. QED
    BY <1>2, <1>3, <2>1 DEF joinCommon
<1>7. ASSUME Merged(f, g) = f
      PROVE  Merged(fh, g) = fh
  <2>1. /\ DOMAIN g \subseteq DOMAIN f
        /\ \A k \in DOMAIN g : joinBorrow(f[k], g[k]) = f[k]
    BY <1>7 DEF joinCommon
  <2>2. DOMAIN fh \cup DOMAIN g = DOMAIN fh /\ DOMAIN g \subseteq D
    BY <1>2, <2>1 DEF D
  <2>3. \A k \in DOMAIN g : joinBorrow(fh[k], g[k]) = fh[k]
    BY <1>3, <2>1, <2>2
  <2>4. QED
    BY <1>2, <2>2, <2>3 DEF joinCommon
<1>8. IsMap(fh, K, BorrowInfo)
  BY <1>1, <1>2, <1>3 DEF IsMap
<1>9. QED
  BY <1>4, <1>5, <1>6, <1>7, <1>8 DEF fh

-----------------------------------------------------------------------------
(* Flow states *)

\* joinFlow stays within the flow states over the storages S, is idempotent,
\* absorbs each of its operands, and goes on absorbing what it absorbed.
THEOREM JoinFlowFacts ==
    ASSUME NEW S, NEW a, NEW b, NEW x,
           IsFlowState(a, S), IsFlowState(b, S), IsFlowState(x, S)
    PROVE  /\ IsFlowState(joinFlow(a, x), S)
           /\ joinFlow(a, a) = a
           /\ joinFlow(joinFlow(a, x), x) = joinFlow(a, x)
           /\ joinFlow(joinFlow(a, x), a) = joinFlow(a, x)
           /\ joinFlow(a, b) = a => joinFlow(joinFlow(a, x), b) = joinFlow(a, x)
<1> DEFINE ax == joinFlow(a, x)
<1>1. /\ IsMap(ax.storages, S, CoherentBinding)
      /\ joinStorages(a.storages, a.storages) = a.storages
      /\ joinStorages(ax.storages, x.storages) = ax.storages
      /\ joinStorages(ax.storages, a.storages) = ax.storages
      /\ joinStorages(a.storages, b.storages) = a.storages =>
            joinStorages(ax.storages, b.storages) = ax.storages
  BY JoinStoragesFacts DEF IsFlowState, joinFlow
<1>2. /\ IsMap(ax.objects, ObjectIds \ {kNullObjectId, kUnknownObjectId}, ObjectInfo)
      /\ joinCommon(a.objects, a.objects, joinObject) = a.objects
      /\ joinCommon(ax.objects, x.objects, joinObject) = ax.objects
      /\ joinCommon(ax.objects, a.objects, joinObject) = ax.objects
      /\ joinCommon(a.objects, b.objects, joinObject) = a.objects =>
            joinCommon(ax.objects, b.objects, joinObject) = ax.objects
  BY JoinObjectsFacts DEF IsFlowState, joinFlow
<1>3. /\ IsMap(ax.borrows, S, BorrowInfo)
      /\ joinCommon(a.borrows, a.borrows, joinBorrow) = a.borrows
      /\ joinCommon(ax.borrows, x.borrows, joinBorrow) = ax.borrows
      /\ joinCommon(ax.borrows, a.borrows, joinBorrow) = ax.borrows
      /\ joinCommon(a.borrows, b.borrows, joinBorrow) = a.borrows =>
            joinCommon(ax.borrows, b.borrows, joinBorrow) = ax.borrows
  <2>1. /\ IsMap(a.borrows, S, BorrowInfo)
        /\ IsMap(b.borrows, S, BorrowInfo)
        /\ IsMap(x.borrows, S, BorrowInfo)
    BY DEF IsFlowState
  <2>2. ax.borrows = joinCommon(a.borrows, x.borrows, joinBorrow)
    BY DEF joinFlow
  <2> HIDE DEF ax
  <2>3. QED
    BY <2>1, <2>2, JoinBorrowsFacts
<1>4. IsFlowState(ax, S)
  <2>1. \A guard \in ax.pending_out_guards : guard.dest \in S
    BY DEF IsFlowState, joinFlow
  <2>2. ax = [storages |-> ax.storages, objects |-> ax.objects, borrows |-> ax.borrows,
              allocation_generations   |-> ax.allocation_generations,
              widened_allocation_sites |-> ax.widened_allocation_sites,
              pending_out_guards       |-> ax.pending_out_guards]
    BY DEF joinFlow
  <2> HIDE DEF ax
  <2>3. QED
    BY <1>1, <1>2, <1>3, <2>1, <2>2 DEF IsFlowState
<1>5. joinFlow(a, a) = a
  BY <1>1, <1>2, <1>3 DEF IsFlowState, joinFlow
<1>6. joinFlow(ax, x) = ax
  BY <1>1, <1>2, <1>3 DEF joinFlow
<1>7. joinFlow(ax, a) = ax
  BY <1>1, <1>2, <1>3 DEF joinFlow
<1>8. ASSUME joinFlow(a, b) = a
      PROVE  joinFlow(ax, b) = ax
  <2>1. /\ joinStorages(a.storages, b.storages) = a.storages
        /\ joinCommon(a.objects, b.objects, joinObject) = a.objects
        /\ joinCommon(a.borrows, b.borrows, joinBorrow) = a.borrows
        /\ b.allocation_generations \subseteq a.allocation_generations
        /\ b.widened_allocation_sites \subseteq a.widened_allocation_sites
        /\ a.pending_out_guards \subseteq b.pending_out_guards
    BY <1>8 DEF joinFlow
  <2>2. QED
    BY <1>1, <1>2, <1>3, <2>1 DEF joinFlow
<1>9. QED
  BY <1>4, <1>5, <1>6, <1>7, <1>8

=============================================================================
