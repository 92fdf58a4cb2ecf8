------------------------- MODULE FlowAnalyzerProofs -------------------------
(***************************************************************************)
(* Proofs about FlowAnalyzer: its type invariant, the inductive invariant  *)
(* of the worklist, and what follows from them for every program: the      *)
(* entry states only climb, the iteration stops at a solution of the flow  *)
(* equations, and it implements ChaoticIteration.  Then the liveness of    *)
(* borrows: the sweeps end in the least solution of their own equations.   *)
(***************************************************************************)
EXTENDS FlowAnalyzer, OwnershipLatticeProofs, OwnershipTransferProofs, FiniteSetTheorems

-----------------------------------------------------------------------------
(* Programs *)

LEMMA ProgramFacts ==
    ASSUME NEW p \in Programs
    PROVE  /\ p.entry \in Blocks
           /\ Blocks \subseteq Nat
           /\ \A b \in Blocks : p.succ[b] \subseteq Blocks
           /\ \A b \in Blocks : /\ Len(p.code[b]) \in Nat
                                /\ \A i \in 1 .. Len(p.code[b]) : IsStatement(p.code[b][i])
                                /\ IsCondition(p.cond[b])
  BY ProgramAssumption

LEMMA ParameterFacts ==
    ASSUME NEW p \in Programs
    PROVE  /\ Len(p.params) \in Nat
           /\ DOMAIN p.params = 1 .. Len(p.params)
           /\ kParameterObjectIdBase + Len(p.params) < kUnknownObjectId
           /\ \A i \in DOMAIN p.params :
                 p.params[i].s \in Storages /\ p.params[i].effect \in ParamEffect
<1> DEFINE Parameter == [s : Storages, effect : ParamEffect]
<1>1. p.params \in Seq(Parameter)
  BY ProgramAssumption
<1>2. kParameterObjectIdBase + Len(p.params) < kUnknownObjectId
  BY ProgramAssumption
<1>3. \A x \in Parameter : x.s \in Storages /\ x.effect \in ParamEffect
  OBVIOUS
<1> HIDE DEF Parameter
<1>4. /\ Len(p.params) \in Nat
      /\ DOMAIN p.params = 1 .. Len(p.params)
      /\ \A i \in DOMAIN p.params : p.params[i] \in Parameter
  BY <1>1
<1>5. QED
  BY <1>2, <1>3, <1>4

\* The state a function is entered with is a flow state.
LEMMA SeedOK ==
    ASSUME NEW p \in Programs
    PROVE  FlowOK(seedParameterState(p.params))
<1> DEFINE params == p.params
           index  == DOMAIN params
           effect(o) == params[o - kParameterObjectIdBase].effect
           first(s) == CHOOSE i \in index : params[i].s = s
           storages == [s \in {params[i].s : i \in index} |->
                          Binding(kParameterObjectIdBase + first(s),
                                  IF params[first(s)].effect = "TakeOwnership"
                                  THEN "Owner" ELSE "Alias")]
           objects  == [o \in {kParameterObjectIdBase + i : i \in index} |->
                          [state |-> "Owned", origin |-> "Parameter",
                           capability |-> IF effect(o) = "None" THEN "Unknown"
                                                               ELSE effect(o)]]
<1>1. /\ index = 1 .. Len(params)
      /\ Len(params) \in Nat
      /\ kParameterObjectIdBase + Len(params) < kUnknownObjectId
      /\ \A i \in index : params[i].s \in Storages /\ params[i].effect \in ParamEffect
  BY ParameterFacts
<1>2. \A i \in index :
        kParameterObjectIdBase + i \in ObjectIds \ {kNullObjectId, kUnknownObjectId}
  <2> HIDE DEF params
  <2>1. kParameterObjectIdBase \in Nat /\ kUnknownObjectId \in Nat
    BY UnknownIdAssumption, IdAssumption
  <2>2. QED
    BY <1>1, <2>1 DEF ObjectIds, kNullObjectId
<1>3. IsMap(storages, Storages, CoherentBinding)
  <2>1. \A s \in {params[i].s : i \in index} : first(s) \in index
    OBVIOUS
  <2>2. QED
    BY <1>1, <1>2, <2>1, NewBindings DEF IsMap, PointerRelation
<1>4. IsMap(objects, ObjectIds \ {kNullObjectId, kUnknownObjectId}, ObjectInfo)
  <2>1. \A i \in index : (kParameterObjectIdBase + i) - kParameterObjectIdBase = i
    BY <1>1, IdAssumption
  <2>2. \A i \in index : effect(kParameterObjectIdBase + i) \in ParamEffect
    BY <1>1, <2>1
  <2>3. QED
    BY <1>2, <2>2
       DEF IsMap, ObjectInfo, ObjectState, ObjectOrigin, ParameterCapability, ParamEffect
<1>5. seedParameterState(params) =
        [storages |-> storages, objects |-> objects, borrows |-> [s \in {} |-> {}],
         allocation_generations |-> {}, widened_allocation_sites |-> {},
         pending_out_guards |-> {}]
  <2>1. seedParameterState(params) =
          [EmptyFlow EXCEPT !.storages = storages, !.objects = objects]
    BY DEF seedParameterState, parameterObjectIdForIndex
  <2> HIDE DEF storages, objects, params
  <2>2. QED
    BY <2>1 DEF EmptyFlow
<1>6. IsMap([s \in {} |-> {}], Storages, BorrowInfo)
  BY DEF IsMap
<1>7. QED
  <2> HIDE DEF storages, objects, params
  <2>1. IsFlowState(seedParameterState(params), Storages)
    BY <1>3, <1>4, <1>5, <1>6 DEF IsFlowState
  <2>2. QED
    BY <2>1 DEF FlowOK, params

-----------------------------------------------------------------------------
(* Type correctness *)

LEMMA TransferOfBlock ==
    ASSUME TypeOK, NEW b \in DOMAIN in_states, NEW live
    PROVE  BlockOK(transfer(program.code[b], live, in_states[b]))
<1>1. /\ Len(program.code[b]) \in Nat
      /\ \A i \in 1 .. Len(program.code[b]) : IsStatement(program.code[b][i])
      /\ FlowOK(in_states[b])
  BY ProgramFacts DEF TypeOK, FlowOK
<1>2. QED
  BY <1>1, TransferBlockOK

LEMMA LiveBeforeType ==
    ASSUME known_borrow_storages \subseteq Storages, NEW code, NEW k,
           NEW out \in SUBSET Storages
    PROVE  LiveBefore(code, k, out) \subseteq Storages
  BY DEF LiveBefore

LEMMA InitTypeOK == Init => TypeOK
<1> SUFFICES ASSUME Init PROVE TypeOK
  OBVIOUS
<1>1. program \in Programs /\ program.entry \in Blocks
  BY ProgramFacts DEF Init
<1>2. /\ DOMAIN in_states = {program.entry}
      /\ in_states[program.entry] = seedParameterState(program.params)
  BY DEF Init
<1>3. IsFlowState(in_states[program.entry], Storages)
  BY <1>1, <1>2, SeedOK DEF FlowOK
<1>4. QED
  BY <1>1, <1>2, <1>3 DEF Init, TypeOK

LEMMA SentOK ==
    ASSUME TypeOK, NEW b \in Blocks, NEW out, FlowOK(out), NEW s
    PROVE  FlowOK(Sent(b, s, out))
  BY ProgramFacts, AlongEdgeOK DEF Sent, TypeOK

\* The entry states after the result out has gone to the successors of b.
LEMMA DeliveredOK ==
    ASSUME TypeOK, NEW b \in DOMAIN in_states, NEW out, FlowOK(out)
    PROVE  LET after == Delivered(b, out)
           IN  /\ DOMAIN after = Reached \cup program.succ[b]
               /\ DOMAIN after \subseteq Blocks
               /\ \A s \in DOMAIN after : IsFlowState(after[s], Storages)
<1>1. program.succ[b] \subseteq Blocks /\ b \in Blocks
  BY ProgramFacts DEF TypeOK
<1>2. \A s : FlowOK(Sent(b, s, out))
  BY <1>1, SentOK
<1>3. \A s \in Reached : FlowOK(joinFlow(in_states[s], Sent(b, s, out)))
  BY <1>2, JoinFlowFacts DEF TypeOK, FlowOK, Reached
<1>4. QED
  BY <1>1, <1>2, <1>3 DEF Delivered, Arrived, Reached, TypeOK, FlowOK

LEMMA PropagateTypeOK ==
    ASSUME TypeOK, NEW b \in worklist, Propagate(b),
           UNCHANGED <<program, phase, livenessVars, notes>>
    PROVE  TypeOK'
<1>1. b \in DOMAIN in_states /\ b \in Blocks
  BY DEF TypeOK
<1>2. PICK r \in {TransferBlock(program, b, in_states[b])} :
        /\ known_borrow_storages' = known_borrow_storages \cup Registrations(r.notes)
        /\ \/ /\ Unchanged(b, r.st)
              /\ worklist' = worklist \ {b}
              /\ UNCHANGED <<in_states, out_states>>
           \/ /\ ~Unchanged(b, r.st)
              /\ out_states' = With(out_states, b, r.st)
              /\ in_states' = Delivered(b, r.st)
              /\ worklist' = (worklist \ {b}) \cup
                              {s \in program.succ[b] :
                                  Unsettled(s, Sent(b, s, r.st))}
  BY DEF Propagate
<1>3. BlockOK(r)
  BY <1>1, <1>2, TransferOfBlock DEF TransferBlock
<1>4. known_borrow_storages' \subseteq Storages
  BY <1>2, <1>3 DEF TypeOK, BlockOK, IsNote, Registrations
<1>5. CASE Unchanged(b, r.st)
  BY <1>2, <1>4, <1>5 DEF TypeOK, livenessVars
<1>6. CASE ~Unchanged(b, r.st)
  <2> DEFINE after == Delivered(b, r.st)
  <2>1. /\ DOMAIN after = Reached \cup program.succ[b]
        /\ DOMAIN after \subseteq Blocks
        /\ \A s \in DOMAIN after : IsFlowState(after[s], Storages)
    BY <1>1, <1>3, DeliveredOK DEF BlockOK
  <2>2. /\ out_states' = With(out_states, b, r.st)
        /\ in_states' = after
        /\ worklist' = (worklist \ {b}) \cup {s \in program.succ[b] : Unsettled(s, Sent(b, s, r.st))}
    BY <1>2, <1>6
  <2> HIDE DEF after
  <2>3. /\ DOMAIN out_states' \subseteq DOMAIN in_states'
        /\ \A c \in DOMAIN out_states' : IsFlowState(out_states'[c], Storages)
    BY <1>1, <1>3, <2>1, <2>2 DEF With, TypeOK, Reached, BlockOK, FlowOK
  <2>4. worklist' \subseteq DOMAIN in_states'
    BY <2>1, <2>2 DEF TypeOK, Reached
  <2>5. QED
    BY <1>4, <2>1, <2>2, <2>3, <2>4 DEF TypeOK, livenessVars
<1>7. QED
  BY <1>5, <1>6

LEMMA SweepTypeOK ==
    ASSUME TypeOK, NEW b \in Blocks, SweepBlock(b)
    PROVE  TypeOK'
<1> DEFINE out == LiveOut(b)
           in  == borrowLivenessTransfer(b, out)
<1>1. out \in SUBSET Storages
  <2>1. program.succ[b] \subseteq Blocks
    BY ProgramFacts DEF TypeOK
  <2>2. QED
    BY <2>1 DEF TypeOK, LiveOut
<1>2. in \in SUBSET Storages
  <2> HIDE DEF out
  <2>1. out \cup Tested(b) \in SUBSET Storages
    BY <1>1 DEF Tested, TypeOK
  <2>2. QED
    BY <2>1, LiveBeforeType DEF TypeOK, borrowLivenessTransfer
<1>3. /\ borrow_live_out' = [borrow_live_out EXCEPT ![b] = out]
      /\ borrow_live_in' = [borrow_live_in EXCEPT ![b] = in]
      /\ changed' \in BOOLEAN
      /\ sweep' = sweep \ {b}
  BY DEF SweepBlock
<1>4. UNCHANGED <<program, phase, in_states, out_states, worklist,
                  known_borrow_storages, notes>>
  BY DEF SweepBlock
<1> HIDE DEF in, out
<1>5. QED
  BY <1>1, <1>2, <1>3, <1>4 DEF TypeOK

LEMMA EmitTypeOK ==
    ASSUME TypeOK, Emit
    PROVE  TypeOK'
<1>1. \A b \in DOMAIN in_states : \A n \in BlockNotes(b) : n.block \in Blocks /\ IsNote(n.note)
  <2> SUFFICES ASSUME NEW b \in DOMAIN in_states
               PROVE  \A n \in BlockNotes(b) : n.block \in Blocks /\ IsNote(n.note)
    OBVIOUS
  <2>1. BlockOK(transfer(program.code[b], LiveAfter(b), in_states[b]))
    BY TransferOfBlock
  <2>2. QED
    BY <2>1 DEF BlockNotes, BlockOK, TypeOK
<1>2. \A n \in notes' : n.block \in Blocks /\ IsNote(n.note)
  BY <1>1 DEF Emit
<1>3. known_borrow_storages' \subseteq Storages
  BY <1>2 DEF Emit, TypeOK, Registrations, IsNote
<1>4. QED
  BY <1>2, <1>3 DEF Emit, TypeOK, livenessVars

LEMMA NextTypeOK == TypeOK /\ [Next]_vars => TypeOK'
<1> SUFFICES ASSUME TypeOK, [Next]_vars PROVE TypeOK'
  OBVIOUS
<1>1. CASE UNCHANGED vars
  BY <1>1 DEF vars, livenessVars, TypeOK
<1>2. ASSUME NEW b \in Blocks, ProcessBlock(b) PROVE TypeOK'
  BY <1>2, PropagateTypeOK DEF ProcessBlock, LowestIn
<1>3. ASSUME NEW b \in Blocks, SweepBlock(b) PROVE TypeOK'
  BY <1>3, SweepTypeOK
<1>4. CASE Converged
  BY <1>4 DEF Converged, TypeOK
<1>5. CASE EndSweep
  BY <1>5 DEF EndSweep, TypeOK
<1>6. CASE Emit
  BY <1>6, EmitTypeOK
<1>7. QED
  BY <1>1, <1>2, <1>3, <1>4, <1>5, <1>6 DEF Next

\* Every state of the analysis is well typed: entry and exit states are flow
\* states over the declared storages, with coherent bindings only.
THEOREM TypeCorrect == Spec => []TypeOK
  BY InitTypeOK, NextTypeOK, PTL DEF Spec

-----------------------------------------------------------------------------
(* The worklist *)

\* A step of the worklist loop that found a new result for block b.
Changes(b, out) ==
    /\ ~Unchanged(b, out)
    /\ out_states' = With(out_states, b, out)
    /\ in_states' = Delivered(b, out)
    /\ worklist' = (worklist \ {b}) \cup {s \in program.succ[b] : Unsettled(s, Sent(b, s, out))}

\* One turn on block b either finds the result it had before, or delivers a new one.
LEMMA PropagateCases ==
    ASSUME TypeOK, NEW b \in worklist, Propagate(b)
    PROVE  LET out == LeftWith(program, b, in_states[b])
           IN  /\ b \in Reached /\ b \in Blocks
               /\ FlowOK(out)
               /\ known_borrow_storages \subseteq known_borrow_storages'
               /\ \/ /\ Unchanged(b, out)
                     /\ worklist' = worklist \ {b}
                     /\ UNCHANGED <<in_states, out_states>>
                  \/ Changes(b, out)
<1>1. b \in DOMAIN in_states /\ b \in Blocks
  BY DEF TypeOK
<1>2. BlockOK(TransferBlock(program, b, in_states[b]))
  BY <1>1, TransferOfBlock DEF TransferBlock
<1>3. QED
  BY <1>1, <1>2 DEF Propagate, Changes, LeftWith, BlockOK, Reached

\* Delivering a result loses nothing: each successor absorbs it, and each entry
\* state absorbs all it absorbed before and itself.
LEMMA DeliveredAbsorbs ==
    ASSUME TypeOK, NEW b \in Blocks, NEW out, FlowOK(out)
    PROVE  LET after == Delivered(b, out)
           IN  /\ DOMAIN after = Reached \cup program.succ[b]
               /\ \A s \in program.succ[b] : joinFlow(after[s], Sent(b, s, out)) = after[s]
               /\ \A s \in Reached : joinFlow(after[s], in_states[s]) = after[s]
               /\ \A s \in Reached : \A x :
                     /\ FlowOK(x)
                     /\ joinFlow(in_states[s], x) = in_states[s]
                     => joinFlow(after[s], x) = after[s]
               /\ \A s \in Reached :
                     \/ s \in program.succ[b] /\ Unsettled(s, Sent(b, s, out))
                     \/ after[s] = in_states[s]
<1> DEFINE after == Delivered(b, out)
           joined(s) == joinFlow(in_states[s], Sent(b, s, out))
<1>1. /\ DOMAIN after = Reached \cup program.succ[b]
      /\ \A s \in Reached : after[s] = IF s \in program.succ[b] THEN joined(s)
                                                            ELSE in_states[s]
      /\ \A s \in program.succ[b] \ Reached : after[s] = Sent(b, s, out)
  BY DEF Delivered, Arrived
<1>2. \A s \in Reached :
        /\ joinFlow(in_states[s], in_states[s]) = in_states[s]
        /\ joinFlow(joined(s), Sent(b, s, out)) = joined(s)
        /\ joinFlow(joined(s), in_states[s]) = joined(s)
        /\ \A x : /\ FlowOK(x)
                 /\ joinFlow(in_states[s], x) = in_states[s]
                 => joinFlow(joined(s), x) = joined(s)
  <2>1. \A s : FlowOK(Sent(b, s, out))
    BY SentOK
  <2>2. QED
    BY <2>1, JoinFlowFacts DEF TypeOK, Reached, FlowOK
<1>3. \A s : joinFlow(Sent(b, s, out), Sent(b, s, out)) = Sent(b, s, out)
  BY SentOK, JoinFlowFacts DEF FlowOK
<1>4. \A s \in Reached : Unsettled(s, Sent(b, s, out)) \/ joined(s) = in_states[s]
  BY DEF Unsettled, Arrived
<1> HIDE DEF after, joined
<1>5. /\ \A s \in program.succ[b] : joinFlow(after[s], Sent(b, s, out)) = after[s]
      /\ \A s \in Reached : joinFlow(after[s], in_states[s]) = after[s]
      /\ \A s \in Reached : \A x :
            /\ FlowOK(x)
            /\ joinFlow(in_states[s], x) = in_states[s]
            => joinFlow(after[s], x) = after[s]
      /\ \A s \in Reached :
            \/ s \in program.succ[b] /\ Unsettled(s, Sent(b, s, out))
            \/ after[s] = in_states[s]
  BY <1>1, <1>2, <1>3, <1>4
<1>6. QED
  BY <1>1, <1>5 DEF after

LEMMA ChangesCover ==
    ASSUME TypeOK, WorklistCovers, phase = "fixpoint",
           NEW b \in Reached, b \in Blocks, UNCHANGED <<program, phase>>,
           FlowOK(LeftWith(program, b, in_states[b])),
           Changes(b, LeftWith(program, b, in_states[b]))
    PROVE  WorklistCovers'
<1> DEFINE out == LeftWith(program, b, in_states[b])
           after == Delivered(b, out)
<1>1. /\ DOMAIN after = Reached \cup program.succ[b]
      /\ \A s \in program.succ[b] : joinFlow(after[s], Sent(b, s, out)) = after[s]
      /\ \A s \in Reached : \A x :
            /\ FlowOK(x)
            /\ joinFlow(in_states[s], x) = in_states[s]
            => joinFlow(after[s], x) = after[s]
      /\ \A s \in Reached :
            \/ s \in program.succ[b] /\ Unsettled(s, Sent(b, s, out))
            \/ after[s] = in_states[s]
  BY DeliveredAbsorbs
<1>2. /\ in_states' = after
      /\ DOMAIN out_states' = DOMAIN out_states \cup {b}
      /\ out_states'[b] = out
      /\ \A c \in DOMAIN out_states \ {b} : out_states'[c] = out_states[c]
      /\ worklist' = (worklist \ {b}) \cup {s \in program.succ[b] : Unsettled(s, Sent(b, s, out))}
      /\ program' = program /\ phase' = phase
  BY DEF Changes, With
<1>3. \A s \in program.succ[b] : Unsettled(s, Sent(b, s, out)) \/ s \in Reached
  BY DEF Unsettled
<1>4. \A c \in DOMAIN out_states : \A s : FlowOK(Sent(c, s, out_states[c]))
  BY SentOK DEF TypeOK, FlowOK
<1>5. (program.entry \in Reached)'
  BY <1>1, <1>2 DEF WorklistCovers, Reached
<1>6. ASSUME NEW c \in Reached', c \notin worklist'
      PROVE  c \in DOMAIN out_states' /\ out_states'[c] = LeftWith(program, c, in_states'[c])
  <2>1. c \in Reached /\ in_states'[c] = in_states[c]
    BY <1>1, <1>2, <1>3, <1>6 DEF Reached
  <2>2. CASE c = b
    BY <1>2, <2>1, <2>2
  <2>3. CASE c # b
    BY <1>2, <1>6, <2>1, <2>3 DEF WorklistCovers
  <2>4. QED
    BY <2>2, <2>3
<1>7. ASSUME NEW c \in DOMAIN out_states', NEW s \in program.succ[c]
      PROVE  Absorbs(s, Sent(c, s, out_states[c]))' 
  <2>1. CASE c = b
    BY <1>1, <1>2, <1>7, <2>1 DEF Absorbs, Reached, Sent
  <2>2. CASE c # b
    <3>1. c \in DOMAIN out_states /\ out_states'[c] = out_states[c]
      BY <1>2, <1>7, <2>2
    <3> DEFINE sent == Sent(c, s, out_states[c])
    <3>2. s \in Reached /\ joinFlow(in_states[s], sent) = in_states[s]
      BY <1>7, <3>1 DEF WorklistCovers, Absorbs
    <3>3. joinFlow(after[s], sent) = after[s]
      BY <1>1, <1>4, <3>1, <3>2
    <3>4. QED
      BY <1>1, <1>2, <3>1, <3>2, <3>3 DEF Absorbs, Reached, Sent
  <2>3. QED
    BY <2>1, <2>2
<1> HIDE DEF out, after
<1>8. \A c \in DOMAIN out_states' : \A s \in program'.succ[c] :
        Absorbs(s, AlongEdge(program.cond[c], s, out_states[c]))'
  BY <1>2, <1>7 DEF Sent
<1>9. QED
  <2> DEFINE Current(c) == /\ c \in DOMAIN out_states
                           /\ out_states[c] = LeftWith(program, c, in_states[c])
  <2>1. \A c \in Reached' \ worklist' : Current(c)'
    BY <1>2, <1>6
  <2>2. (phase # "fixpoint" => worklist = {})'
    BY <1>2
  <2>3. QED
    BY <1>5, <1>8, <2>1, <2>2 DEF WorklistCovers, Sent

LEMMA NextWorklistCovers == TypeOK /\ WorklistCovers /\ [Next]_vars => WorklistCovers'
<1> SUFFICES ASSUME TypeOK, WorklistCovers, [Next]_vars PROVE WorklistCovers'
  OBVIOUS
<1>1. CASE UNCHANGED <<program, phase, in_states, out_states, worklist>>
  BY <1>1 DEF WorklistCovers, Reached, Absorbs, Sent
<1>2. ASSUME NEW b \in Blocks, ProcessBlock(b) PROVE WorklistCovers'
  <2> DEFINE out == LeftWith(program, b, in_states[b])
  <2>1. /\ b \in worklist /\ Propagate(b) /\ phase = "fixpoint"
        /\ program' = program /\ phase' = phase
    BY <1>2 DEF ProcessBlock, LowestIn
  <2>2. /\ b \in Reached
        /\ FlowOK(out)
        /\ \/ /\ Unchanged(b, out)
              /\ worklist' = worklist \ {b}
              /\ UNCHANGED <<in_states, out_states>>
           \/ Changes(b, out)
    BY <2>1, PropagateCases
  <2>3. CASE Changes(b, out)
    BY <2>1, <2>2, <2>3, ChangesCover
  <2>4. CASE /\ Unchanged(b, out)
             /\ worklist' = worklist \ {b}
             /\ UNCHANGED <<in_states, out_states>>
    BY <2>1, <2>4 DEF WorklistCovers, Reached, Absorbs, Sent, Unchanged
  <2>5. QED
    BY <2>2, <2>3, <2>4
<1>3. CASE Converged
  BY <1>3 DEF Converged, WorklistCovers, Reached, Absorbs, Sent
<1>4. ASSUME phase # "fixpoint", UNCHANGED <<program, in_states, out_states, worklist>>,
             phase' # "fixpoint"
      PROVE  WorklistCovers'
  BY <1>4 DEF WorklistCovers, Reached, Absorbs, Sent
<1>5. CASE (\E b \in Blocks : SweepBlock(b)) \/ EndSweep \/ Emit
  BY <1>4, <1>5 DEF SweepBlock, EndSweep, Emit
<1>6. QED
  BY <1>1, <1>2, <1>3, <1>5 DEF Next, vars

\* In every state of every run a block that is not on the worklist has nothing
\* left to contribute.
THEOREM WorklistCorrect == Spec => []WorklistCovers
<1>1. Init => WorklistCovers
  BY DEF Init, WorklistCovers, Reached, Absorbs, Sent
<1>2. QED
  BY <1>1, NextWorklistCovers, TypeCorrect, PTL DEF Spec

\* When the iteration stops, the entry states solve the flow equations.
THEOREM FixpointCorrect == Spec => []PostFixpoint
<1>1. WorklistCovers => PostFixpoint
  BY DEF WorklistCovers, PostFixpoint, SentAfter, Sent
<1>2. QED
  BY <1>1, WorklistCorrect, PTL

-----------------------------------------------------------------------------
(* What a step may do *)

\* What EntryStatesAscend asks of a step.
Ascends ==
    /\ known_borrow_storages \subseteq known_borrow_storages'
    /\ \A b \in Reached :
          b \in DOMAIN in_states' /\ joinFlow(in_states'[b], in_states[b]) = in_states'[b]

LEMMA NextAscends == TypeOK /\ [Next]_vars => Ascends
<1> SUFFICES ASSUME TypeOK, [Next]_vars PROVE Ascends
  OBVIOUS
<1>1. \A b \in Reached : joinFlow(in_states[b], in_states[b]) = in_states[b]
  BY JoinFlowFacts DEF TypeOK, Reached
<1>2. CASE UNCHANGED in_states /\ known_borrow_storages \subseteq known_borrow_storages'
  BY <1>1, <1>2 DEF Ascends, Reached
<1>3. ASSUME NEW b \in Blocks, ProcessBlock(b) PROVE Ascends
  <2> DEFINE out == LeftWith(program, b, in_states[b])
             after == Delivered(b, out)
  <2>1. /\ b \in Reached
        /\ FlowOK(out)
        /\ known_borrow_storages \subseteq known_borrow_storages'
        /\ UNCHANGED in_states \/ Changes(b, out)
    BY <1>3, PropagateCases DEF ProcessBlock, LowestIn
  <2>2. CASE Changes(b, out)
    <3>1. in_states' = after
      BY <2>2 DEF Changes
    <3>2. /\ DOMAIN after = Reached \cup program.succ[b]
          /\ \A s \in Reached : joinFlow(after[s], in_states[s]) = after[s]
      BY <2>1, DeliveredAbsorbs
    <3> HIDE DEF after
    <3>3. QED
      BY <2>1, <3>1, <3>2 DEF Ascends
  <2>3. CASE UNCHANGED in_states
    BY <1>1, <2>1, <2>3 DEF Ascends, Reached
  <2>4. QED
    BY <2>1, <2>2, <2>3
<1>4. CASE (\E b \in Blocks : SweepBlock(b)) \/ Converged \/ EndSweep \/ Emit
  BY <1>2, <1>4 DEF SweepBlock, Converged, EndSweep, Emit
<1>5. QED
  BY <1>2, <1>3, <1>4 DEF Next, vars

\* The iteration only climbs: an entry state absorbs what it was, and a
\* registered borrow stays registered.
THEOREM EntryStatesOnlyAscend == Spec => EntryStatesAscend
<1>1. TypeOK /\ [Next]_vars => [Ascends]_vars
  BY NextAscends
<1>2. QED
  BY <1>1, TypeCorrect, PTL DEF Spec, EntryStatesAscend, Ascends

\* What EmissionFollowsConvergence asks of a step.
FollowsConvergence ==
    /\ phase # "fixpoint" => UNCHANGED <<in_states, out_states>>
    /\ phase = "liveness" => UNCHANGED known_borrow_storages
    /\ notes' # notes => phase = "emit" /\ UNCHANGED livenessVars

LEMMA NextFollowsConvergence == [Next]_vars => [FollowsConvergence]_vars
<1> SUFFICES ASSUME Next PROVE FollowsConvergence
  OBVIOUS
<1>1. CASE \E b \in Blocks : ProcessBlock(b) \/ SweepBlock(b)
  BY <1>1 DEF ProcessBlock, SweepBlock, FollowsConvergence
<1>2. CASE Converged \/ EndSweep
  BY <1>2 DEF Converged, EndSweep, FollowsConvergence
<1>3. CASE Emit
  BY <1>3 DEF Emit, FollowsConvergence
<1>4. QED
  BY <1>1, <1>2, <1>3 DEF Next

\* Nothing is emitted before convergence, and nothing emitted is out of date.
THEOREM EmissionIsPostConvergence == Spec => EmissionFollowsConvergence
  BY NextFollowsConvergence, PTL DEF Spec, EmissionFollowsConvergence, FollowsConvergence

-----------------------------------------------------------------------------
(* Refinement *)

LEMMA InitRefines == Init => Iteration!Init
  BY DEF Init, Iteration!Init, EnteredWith

LEMMA ProcessRefines ==
    ASSUME TypeOK, WorklistCovers, NEW b \in Blocks, ProcessBlock(b)
    PROVE  [Iteration!Next]_(Iteration!vars)
<1> DEFINE out == LeftWith(program, b, in_states[b])
<1>1. /\ b \in Reached /\ phase = "fixpoint" /\ phase' = phase /\ program' = program
      /\ UNCHANGED in_states \/ Changes(b, out)
  BY PropagateCases DEF ProcessBlock, LowestIn
<1>2. CASE UNCHANGED in_states
  BY <1>1, <1>2 DEF Iteration!vars
<1>3. CASE Changes(b, out)
  <2>1. in_states' = [s \in Reached \cup program.succ[b] |->
                        IF s \notin program.succ[b] THEN in_states[s]
                        ELSE IF s \notin Reached THEN Sent(b, s, out)
                        ELSE joinFlow(in_states[s], Sent(b, s, out))]
    BY <1>3 DEF Changes, Delivered, Arrived
  <2>2. Iteration!Grow(b)
    BY <1>1, <2>1 DEF Iteration!Grow, Iteration!Out, Reached, SentAfter, Sent
  <2>3. QED
    BY <2>2 DEF Iteration!Next
<1>4. QED
  BY <1>1, <1>2, <1>3

LEMMA NextRefines ==
    TypeOK /\ WorklistCovers /\ [Next]_vars => [Iteration!Next]_(Iteration!vars)
<1> SUFFICES ASSUME TypeOK, WorklistCovers, [Next]_vars
             PROVE  [Iteration!Next]_(Iteration!vars)
  OBVIOUS
<1>1. CASE UNCHANGED vars
  BY <1>1 DEF vars, Iteration!vars
<1>2. ASSUME NEW b \in Blocks, ProcessBlock(b) PROVE [Iteration!Next]_(Iteration!vars)
  BY <1>2, ProcessRefines
<1>3. CASE Converged
  <2>1. Iteration!Settle
    BY <1>3 DEF Converged, WorklistCovers, Absorbs, Reached,
                Iteration!Settle, Iteration!Absorbed, Iteration!Out,
                SentAfter, Sent
  <2>2. QED
    BY <2>1 DEF Iteration!Next
<1>4. CASE (\E b \in Blocks : SweepBlock(b)) \/ EndSweep \/ Emit
  BY <1>4 DEF SweepBlock, EndSweep, Emit, Iteration!vars
<1>5. QED
  BY <1>1, <1>2, <1>3, <1>4 DEF Next

\* The worklist algorithm implements chaotic iteration of the flow equations.
THEOREM Refinement == Spec => RefinesChaoticIteration
  BY InitRefines, NextRefines, TypeCorrect, WorklistCorrect, PTL
     DEF Spec, RefinesChaoticIteration, Iteration!Spec

-----------------------------------------------------------------------------
(* The liveness sweeps *)

\* A set that only grows inside a finite one settles within as many steps as
\* that one has elements.
LEMMA GrowthSettles ==
    ASSUME NEW B, IsFiniteSet(B), NEW step \in [SUBSET B -> SUBSET B],
           \A X \in SUBSET B : X \subseteq step[X],
           NEW f, f[0] \in SUBSET B, \A n \in 1 .. Cardinality(B) : f[n] = step[f[n - 1]]
    PROVE  f[Cardinality(B)] \in SUBSET B /\ step[f[Cardinality(B)]] = f[Cardinality(B)]
<1> DEFINE m == Cardinality(B)
           Grown(n) == n <= Cardinality(f[n]) \/ step[f[n]] = f[n]
           S == {n \in Nat : n <= m => f[n] \in SUBSET B /\ Grown(n)}
<1>1. m \in Nat
  BY FS_CardinalityType
<1>2. \A X \in SUBSET B : IsFiniteSet(X) /\ Cardinality(X) \in Nat /\ Cardinality(X) <= m
  BY FS_Subset, FS_CardinalityType
<1>3. 0 \in S
  BY <1>2
<1>4. ASSUME NEW n \in Nat, n \in S PROVE n + 1 \in S
  <2> SUFFICES ASSUME n + 1 <= m PROVE f[n + 1] \in SUBSET B /\ Grown(n + 1)
    OBVIOUS
  <2>1. f[n] \in SUBSET B /\ Grown(n)
    BY <1>1, <1>4
  <2>2. f[n + 1] = step[f[n]]
    <3>1. n + 1 \in 1 .. m /\ (n + 1) - 1 = n
      BY <1>1
    <3> HIDE DEF m
    <3>. QED BY <3>1 DEF m
  <2>3. f[n + 1] \in SUBSET B /\ f[n] \subseteq f[n + 1]
    BY <2>1, <2>2
  <2>4. CASE step[f[n]] = f[n]
    BY <2>2, <2>3, <2>4
  <2>5. CASE step[f[n]] # f[n]
    <3>1. /\ IsFiniteSet(f[n + 1]) /\ f[n] \in SUBSET f[n + 1] /\ f[n] # f[n + 1]
      BY <1>2, <2>2, <2>3, <2>5
    <3>2. Cardinality(f[n]) <= Cardinality(f[n + 1]) /\ Cardinality(f[n]) # Cardinality(f[n + 1])
      BY <3>1, FS_Subset
    <3>3. Cardinality(f[n]) \in Nat /\ Cardinality(f[n + 1]) \in Nat /\ n <= Cardinality(f[n])
      BY <1>2, <2>1, <2>3, <2>5
    <3>. QED BY <2>3, <3>2, <3>3
  <2>. QED BY <2>4, <2>5
<1>5. m \in S
  <2> HIDE DEF S, m
  <2>. QED BY <1>1, <1>3, <1>4, NatSetInduction
<1>6. f[m] \in SUBSET B /\ Grown(m)
  BY <1>1, <1>5
<1>7. CASE m <= Cardinality(f[m])
  <2>1. Cardinality(f[m]) = m
    BY <1>1, <1>2, <1>6, <1>7
  <2>2. f[m] = B
    BY <1>6, <2>1, FS_Subset
  <2>3. step[B] \in SUBSET B /\ B \subseteq step[B]
    OBVIOUS
  <2>. QED BY <1>6, <2>2, <2>3
<1>. QED BY <1>6, <1>7

LEMMA UsesWithinDef ==
    ASSUME NEW s
    PROVE  LET within == UsesWithin(s)
           IN  /\ within[0] = {b \in Blocks : Exposed(s, b)}
               /\ \A n \in 1 .. Cardinality(Blocks) :
                     within[n] = within[n - 1] \cup Nearer(s, within[n - 1])
<1> DEFINE m == Cardinality(Blocks)
           V == SUBSET Blocks
           start == {b \in Blocks : Exposed(s, b)}
           Step(n, X) == X \cup Nearer(s, X)
           step == [x \in (1 .. m) \X V |-> Step(x[1], x[2])]
           within == CHOOSE g : g = [n \in 0 .. m |-> IF n = 0 THEN start ELSE Step(n, g[n - 1])]
<1>1. m \in Nat
  BY BlocksAssumption, FS_CardinalityType
<1>2. start \in V /\ \A n \in 1 .. m : \A X \in V : Step(n, X) \in V
  BY DEF Nearer
<1>3. UsesWithin(s) = within
  BY DEF UsesWithin
<1> HIDE DEF m, Step, start, V
<1>4. step \in [(1 .. m) \X V -> V]
  BY <1>2
<1>5. \A n \in 1 .. m : \A X \in V : step[<<n, X>>] = Step(n, X)
  OBVIOUS
<1> HIDE DEF step
<1>6. PICK g : Follows(g, m, V, start, step)
  BY <1>1, <1>2, <1>4, StepwiseFunction
<1>7. /\ g = [n \in 0 .. m |-> g[n]]
      /\ g[0] = start
      /\ \A n \in 1 .. m : g[n] = step[<<n, g[n - 1]>>]
      /\ \A n \in 1 .. m : g[n - 1] \in V
  BY <1>1, <1>6 DEF Follows
<1>8. \A n \in 0 .. m : g[n] = IF n = 0 THEN start ELSE Step(n, g[n - 1])
  <2>1. \A n \in 1 .. m : g[n] = Step(n, g[n - 1])
    BY <1>5, <1>7
  <2>2. \A n \in 0 .. m : n = 0 \/ n \in 1 .. m
    BY <1>1
  <2>3. \A n \in 1 .. m : n # 0
    BY <1>1
  <2>4. g[0] = start
    BY <1>7
  <2> HIDE DEF within
  <2>. QED BY <2>1, <2>2, <2>3, <2>4
<1>9. g = [n \in 0 .. m |-> IF n = 0 THEN start ELSE Step(n, g[n - 1])]
  BY <1>7, <1>8
<1>10. within = [n \in 0 .. m |-> IF n = 0 THEN start ELSE Step(n, within[n - 1])]
  BY <1>9
<1> HIDE DEF within
<1>11. within[0] = start /\ \A n \in 1 .. m : within[n] = Step(n, within[n - 1])
  BY <1>1, <1>10
<1>. QED BY <1>3, <1>11 DEF start, Step, m

\* UsedWithin(s) is the least set of blocks that holds those with a use and is
\* closed under going backwards.
LEMMA UsedWithinIsLeast ==
    ASSUME NEW s
    PROVE  /\ UsedWithin(s) \subseteq Blocks
           /\ \A b \in Blocks : Exposed(s, b) => b \in UsedWithin(s)
           /\ Nearer(s, UsedWithin(s)) \subseteq UsedWithin(s)
           /\ \A W : (\A b \in Blocks : Exposed(s, b) => b \in W) /\ Nearer(s, W) \subseteq W
                     => UsedWithin(s) \subseteq W
<1> DEFINE m == Cardinality(Blocks)
           f == UsesWithin(s)
           uses == {b \in Blocks : Exposed(s, b)}
           step == [X \in SUBSET Blocks |-> X \cup Nearer(s, X)]
<1>1. m \in Nat /\ 0 \in 0 .. m /\ m \in 0 .. m
  BY BlocksAssumption, FS_CardinalityType
<1>2. f[0] = uses /\ \A n \in 1 .. m : f[n] = f[n - 1] \cup Nearer(s, f[n - 1])
  BY UsesWithinDef
<1>3. UsedWithin(s) = f[m]
  BY DEF UsedWithin
<1> HIDE DEF f, m
<1>4. \A X : Nearer(s, X) \subseteq Blocks
  BY DEF Nearer
<1>5. \A n \in 0 .. m : f[n] \in {X \in SUBSET Blocks : uses \subseteq X}
  <2> DEFINE V == {X \in SUBSET Blocks : uses \subseteq X}
  <2>1. f[0] \in V
    BY <1>2
  <2>2. \A n \in 1 .. m : f[n - 1] \in V => f[n] \in V
    BY <1>2, <1>4
  <2> HIDE DEF V
  <2>3. \A n \in 0 .. m : f[n] \in V
    BY <1>1, <2>1, <2>2, StaysInSet
  <2>. QED BY <2>3 DEF V
<1>6. f[m] \in SUBSET Blocks /\ step[f[m]] = f[m]
  <2>1. step \in [SUBSET Blocks -> SUBSET Blocks] /\ \A X \in SUBSET Blocks : X \subseteq step[X]
    BY <1>4
  <2>2. f[0] \in SUBSET Blocks /\ \A n \in 1 .. m : f[n] = step[f[n - 1]]
    <3>1. \A n \in 1 .. m : n - 1 \in 0 .. m
      BY <1>1
    <3>. QED BY <1>1, <1>2, <1>5, <3>1
  <2> HIDE DEF step
  <2>. QED BY <2>1, <2>2, BlocksAssumption, GrowthSettles DEF m
<1>7. ASSUME NEW W, uses \subseteq W, Nearer(s, W) \subseteq W PROVE f[m] \subseteq W
  <2>1. \A X : X \subseteq W => Nearer(s, X) \subseteq Nearer(s, W)
    BY DEF Nearer
  <2>2. f[0] \in SUBSET W /\ \A n \in 1 .. m : f[n - 1] \in SUBSET W => f[n] \in SUBSET W
    BY <1>2, <1>7, <2>1
  <2>3. \A n \in 0 .. m : f[n] \in SUBSET W
    BY <1>1, <2>2, StaysInSet
  <2>. QED BY <1>1, <2>3
<1>8. Nearer(s, f[m]) \subseteq f[m] /\ uses \subseteq f[m]
  BY <1>1, <1>5, <1>6
<1>. QED BY <1>3, <1>6, <1>7, <1>8

\* What is live at the start of a block: what it uses, and what goes through it.
LEMMA LiveThrough ==
    ASSUME NEW s, NEW b, NEW out
    PROVE  /\ s \in borrowLivenessTransfer(b, out) <=>
                 Exposed(s, b) \/ (s \in out /\ Transparent(s, b))
           /\ s \in borrowLivenessTransfer(b, out) => s \in known_borrow_storages \/ s \in out
  BY DEF borrowLivenessTransfer, Exposed, Transparent, LiveBefore, Tested

\* The equations of the sweeps, at block b.
Solved(b) ==
    /\ borrow_live_out[b] = LiveOut(b)
    /\ borrow_live_in[b] = borrowLivenessTransfer(b, LiveOut(b))

\* Before the sweeps nothing is live.  Then only what is used ahead is, and
\* while a sweep has changed nothing the equations hold where it has been.
LivenessInv ==
    /\ phase = "fixpoint" => \A b \in Blocks : borrow_live_in[b] = {}
    /\ phase # "done" => \A b \in Blocks : \A s \in borrow_live_in[b] :
          s \in known_borrow_storages /\ b \in UsedWithin(s)
    /\ phase = "liveness" /\ ~changed => \A b \in Blocks \ sweep : Solved(b)
    /\ phase = "emit" => \A b \in Blocks : Solved(b)

LEMMA SweepLivenessInv ==
    ASSUME TypeOK, LivenessInv, NEW b \in Blocks, SweepBlock(b)
    PROVE  LivenessInv'
<1> DEFINE out == LiveOut(b)
           in  == borrowLivenessTransfer(b, out)
<1>1. /\ phase = "liveness" /\ phase' = phase
      /\ program' = program /\ known_borrow_storages' = known_borrow_storages
      /\ sweep' = sweep \ {b}
      /\ borrow_live_out' = [borrow_live_out EXCEPT ![b] = out]
      /\ borrow_live_in' = [borrow_live_in EXCEPT ![b] = in]
      /\ changed' = (changed \/ out # borrow_live_out[b] \/ in # borrow_live_in[b])
  BY DEF SweepBlock
<1>2. /\ DOMAIN borrow_live_in = Blocks /\ DOMAIN borrow_live_out = Blocks
      /\ program.succ[b] \subseteq Blocks
  BY ProgramFacts DEF TypeOK
<1>3. \A s : UsedWithin(s)' = UsedWithin(s)
  BY <1>1 DEF UsedWithin, UsesWithin, Exposed, Transparent, Nearer, LiveBefore, Tested
<1>5. ASSUME NEW s \in in PROVE s \in known_borrow_storages /\ b \in UsedWithin(s)
  <2>1. s \in out => s \in known_borrow_storages /\ program.succ[b] \cap UsedWithin(s) # {}
    BY <1>1, <1>2 DEF LiveOut, LivenessInv
  <2>2. Exposed(s, b) \/ (s \in out /\ Transparent(s, b))
    BY <1>5, LiveThrough
  <2>3. b \in UsedWithin(s)
    BY <2>1, <2>2, UsedWithinIsLeast DEF Nearer
  <2>. QED BY <1>5, <2>1, <2>3, LiveThrough
<1> HIDE DEF out, in
<1>6. \A c \in Blocks : \A s \in borrow_live_in'[c] :
        s \in known_borrow_storages' /\ c \in UsedWithin(s)'
  BY <1>1, <1>2, <1>3, <1>5 DEF LivenessInv
<1>7. ASSUME ~changed' PROVE \A c \in Blocks \ sweep' : Solved(c)'
  <2>1. ~changed /\ out = borrow_live_out[b] /\ in = borrow_live_in[b]
    BY <1>1, <1>7
  <2>2. borrow_live_in' = borrow_live_in /\ borrow_live_out' = borrow_live_out
    <3>1. /\ borrow_live_in \in [Blocks -> SUBSET Storages]
          /\ borrow_live_out \in [Blocks -> SUBSET Storages]
      BY DEF TypeOK
    <3>2. \A f \in [Blocks -> SUBSET Storages] : [f EXCEPT ![b] = f[b]] = f
      OBVIOUS
    <3>. QED BY <1>1, <2>1, <3>1, <3>2
  <2>3. \A c : LiveOut(c)' = LiveOut(c)
    BY <1>1, <2>2 DEF LiveOut
  <2>4. \A c : Solved(c)' = Solved(c)
    BY <1>1, <2>2, <2>3 DEF Solved, borrowLivenessTransfer, LiveBefore, Tested
  <2>5. Solved(b)
    BY <2>1 DEF Solved, out, in
  <2>. QED BY <1>1, <2>1, <2>4, <2>5 DEF LivenessInv
<1>. QED BY <1>1, <1>6, <1>7 DEF LivenessInv

LEMMA NextLivenessInv == TypeOK /\ LivenessInv /\ [Next]_vars => LivenessInv'
<1> SUFFICES ASSUME TypeOK, LivenessInv, [Next]_vars PROVE LivenessInv'
  OBVIOUS
<1>1. ASSUME NEW b \in Blocks, ProcessBlock(b) PROVE LivenessInv'
  BY <1>1 DEF ProcessBlock, livenessVars, LivenessInv
<1>2. ASSUME NEW b \in Blocks, SweepBlock(b) PROVE LivenessInv'
  BY <1>2, SweepLivenessInv
<1>3. CASE Converged
  BY <1>3 DEF Converged, LivenessInv, TypeOK
<1> DEFINE Kept == UNCHANGED <<program, known_borrow_storages, borrow_live_in, borrow_live_out>>
<1>4. ASSUME Kept PROVE /\ \A s : UsedWithin(s)' = UsedWithin(s)
                        /\ \A b : Solved(b)' = Solved(b)
  <2>1. \A s : UsedWithin(s)' = UsedWithin(s)
    BY <1>4 DEF UsedWithin, UsesWithin, Exposed, Transparent, Nearer, LiveBefore, Tested
  <2>2. \A b : Solved(b)' = Solved(b)
    BY <1>4 DEF Solved, LiveOut, borrowLivenessTransfer, LiveBefore, Tested
  <2>. QED BY <2>1, <2>2
<1>5. CASE EndSweep
  <2>1. /\ Kept /\ phase = "liveness" /\ sweep = {}
        /\ \/ changed /\ sweep' = Blocks /\ phase' = phase
           \/ ~changed /\ phase' = "emit"
    BY <1>5 DEF EndSweep
  <2>. QED BY <1>4, <2>1 DEF LivenessInv
<1>6. CASE Emit
  BY <1>6 DEF Emit, LivenessInv
<1>7. CASE UNCHANGED vars
  <2>1. Kept /\ UNCHANGED <<phase, changed, sweep>>
    BY <1>7 DEF vars, livenessVars
  <2>. QED BY <1>4, <2>1 DEF LivenessInv
<1>. QED BY <1>1, <1>2, <1>3, <1>5, <1>6, <1>7 DEF Next

\* The equations have no solution below the blocks a use lies ahead of.
LEMMA SolutionIsComplete ==
    ASSUME TypeOK, \A b \in Blocks : Solved(b), NEW s \in known_borrow_storages
    PROVE  \A b \in UsedWithin(s) : s \in borrow_live_in[b]
<1> DEFINE W == {b \in Blocks : s \in borrow_live_in[b]}
<1>1. \A b \in Blocks : Exposed(s, b) => b \in W
  BY LiveThrough DEF Solved
<1>2. Nearer(s, W) \subseteq W
  <2> SUFFICES ASSUME NEW b \in Nearer(s, W) PROVE b \in W
    OBVIOUS
  <2>1. b \in Blocks /\ Transparent(s, b) /\ s \in LiveOut(b)
    BY DEF Nearer, LiveOut
  <2>. QED BY <2>1, LiveThrough DEF Solved
<1>3. UsedWithin(s) \subseteq W
  <2> HIDE DEF W
  <2>. QED BY <1>1, <1>2, UsedWithinIsLeast
<1>. QED BY <1>3

\* When the sweeps end, a borrow is live at the start of a block if and only if
\* a path from there leads to a use of it that nothing kills on the way, and at
\* its end if it is at the start of a successor: the emission pass expires no
\* borrow too early, and keeps none too long (computeBorrowLiveness).
THEOREM SweepsFindTheUses == Spec => []LivenessIsReachableUse
<1>1. Init => LivenessInv
  BY DEF Init, LivenessInv
<1>2. TypeOK /\ LivenessInv => LivenessIsReachableUse
  <2> SUFFICES ASSUME TypeOK, LivenessInv, phase = "emit"
               PROVE  /\ \A s \in Storages :
                            {b \in Blocks : s \in borrow_live_in[b]} =
                                IF s \in known_borrow_storages THEN UsedWithin(s) ELSE {}
                      /\ \A b \in Blocks : borrow_live_out[b] = LiveOut(b)
    BY DEF LivenessIsReachableUse
  <2>1. \A b \in Blocks : Solved(b)
    BY DEF LivenessInv
  <2>2. \A s \in known_borrow_storages : \A b \in UsedWithin(s) : s \in borrow_live_in[b]
    BY <2>1, SolutionIsComplete
  <2>3. \A b \in Blocks : \A s \in borrow_live_in[b] :
          s \in known_borrow_storages /\ b \in UsedWithin(s)
    BY DEF LivenessInv
  <2>4. \A s : UsedWithin(s) \subseteq Blocks
    BY UsedWithinIsLeast
  <2>5. \A s \in Storages : {b \in Blocks : s \in borrow_live_in[b]} =
          IF s \in known_borrow_storages THEN UsedWithin(s) ELSE {}
    BY <2>2, <2>3, <2>4
  <2>. QED BY <2>1, <2>5 DEF Solved
<1>. QED BY <1>1, <1>2, NextLivenessInv, TypeCorrect, PTL DEF Spec
=============================================================================
