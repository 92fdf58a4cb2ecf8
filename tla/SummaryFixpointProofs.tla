------------------------ MODULE SummaryFixpointProofs ------------------------
(***************************************************************************)
(* Proofs about SummaryFixpoint, for every set of translation units: the   *)
(* summaries are well formed, trusted inputs never replace the summary of  *)
(* a body, conflicts stay, rounds that end early have solved the equations *)
(* of the summaries, as all do without recursion, summaries that solve     *)
(* them tell what the bodies destroy and where their results come from,    *)
(* and a contract that is compared once stays in agreement where later     *)
(* rounds can only fill in what was Unknown.                               *)
(***************************************************************************)
EXTENDS SummaryMeaning, FiniteRecursion, FiniteSetTheorems

StoreOK(st) == \A x \in DOMAIN st : st[x] \in FunctionSummary

\* What build needs to know of an event it sees.
EventOK(e, arity) ==
    /\ e.op = "call" => Len(e.args) \in Nat
    /\ e.op = "return_call" => \A j \in DOMAIN e.args : e.args[j].direct \in Nat
    /\ e.op = "return_param" => e.param \in 1 .. arity

CodeOK(code, arity) ==
    /\ Len(code) \in Nat
    /\ \A n \in 1 .. Len(code) : EventOK(code[n], arity)

Returns == [effect : ReturnEffect, arg : Nat]
Results == [effect : ReturnEffect, arg : Nat, conflict : BOOLEAN]

-----------------------------------------------------------------------------
(* Effects on parameters *)

LEMMA SummaryFields ==
    ASSUME NEW s \in FunctionSummary
    PROVE  /\ Len(s.params) \in Nat
           /\ DOMAIN s.params = 1 .. Len(s.params)
           /\ \A j \in DOMAIN s.params : s.params[j] \in ParamEffect
           /\ s.return_effect \in ReturnEffect
           /\ s.return_borrow_arg \in Nat
           /\ s.conflict \in BOOLEAN
<1>1. s.params \in Seq(ParamEffect)
  BY DEF FunctionSummary
<1>2. QED
  BY <1>1 DEF FunctionSummary

LEMMA CalleeEffectOK ==
    ASSUME NEW st, StoreOK(st), NEW e, NEW j
    PROVE  CalleeEffect(e, j, st) \in ParamEffect
<1>1. CASE e.fn \in DOMAIN st
  <2>1. st[e.fn] \in FunctionSummary
    BY <1>1 DEF StoreOK
  <2>2. \A k \in DOMAIN st[e.fn].params : st[e.fn].params[k] \in ParamEffect
    BY <2>1, SummaryFields
  <2>3. QED
    BY <2>2 DEF CalleeEffect, ParamEffect
<1>2. CASE e.fn \notin DOMAIN st
  BY <1>2 DEF CalleeEffect, ParamEffect
<1>3. QED
  BY <1>1, <1>2

LEMMA PassedOK ==
    ASSUME NEW old \in ParamEffect, NEW i, NEW arg, NEW effect \in ParamEffect, NEW conditional
    PROVE  passed(old, i, arg, effect, conditional) \in ParamEffect
<1>1. Kept(effect, conditional) \in ParamEffect
  BY DEF Kept, ParamEffect
<1>2. \A new \in ParamEffect : Combined(old, new) \in ParamEffect
  BY DEF Combined, ParamEffect
<1>3. "Unknown" \in ParamEffect
  BY DEF ParamEffect
<1>4. QED
  BY <1>1, <1>2, <1>3 DEF passed

\* The effect after each argument of a call.
CallTrace(after, old, i, e, st) ==
    /\ called(old, i, e, st) = after[Len(e.args)]
    /\ after[0] = old
    /\ \A n \in 1 .. Len(e.args) :
          after[n] = passed(after[n - 1], i, e.args[n], CalleeEffect(e, n, st), e.conditional)
    /\ \A n \in 0 .. Len(e.args) : after[n] \in ParamEffect

LEMMA CalledTrace ==
    ASSUME NEW st, StoreOK(st), NEW old \in ParamEffect, NEW i, NEW e, Len(e.args) \in Nat
    PROVE  \E after : CallTrace(after, old, i, e, st)
<1> DEFINE m == Len(e.args)
           start == old
           Step(n, r) == passed(r, i, e.args[n], CalleeEffect(e, n, st), e.conditional)
           step == [p \in (1 .. m) \X ParamEffect |-> Step(p[1], p[2])]
           after == CHOOSE g : g = [n \in 0 .. m |-> IF n = 0 THEN start ELSE Step(n, g[n - 1])]
<1>0. start \in ParamEffect
  OBVIOUS
<1>1. \A n \in 1 .. m : \A r \in ParamEffect : Step(n, r) \in ParamEffect
  BY CalleeEffectOK, PassedOK
<1>2. m \in Nat
  OBVIOUS
<1> HIDE DEF m, Step
<1>3. step \in [(1 .. m) \X ParamEffect -> ParamEffect]
  BY <1>1
<1>4. \A n \in 1 .. m : \A r \in ParamEffect : step[<<n, r>>] = Step(n, r)
  OBVIOUS
<1> HIDE DEF step
<1> HIDE DEF start
<1>5. PICK g : Follows(g, m, ParamEffect, start, step)
  BY <1>0, <1>2, <1>3, StepwiseFunction
<1>6. g = [n \in 0 .. m |-> g[n]]
  BY <1>5 DEF Follows
<1>7. \A n \in 1 .. m : g[n - 1] \in ParamEffect
  BY <1>2, <1>5 DEF Follows
<1>8. g = [n \in 0 .. m |-> IF n = 0 THEN start ELSE Step(n, g[n - 1])]
  <2>1. \A n \in 0 .. m : g[n] = IF n = 0 THEN start ELSE Step(n, g[n - 1])
    <3>1. \A n \in 1 .. m : g[n] = step[<<n, g[n - 1]>>]
      BY <1>5 DEF Follows
    <3>2. \A n \in 1 .. m : g[n] = Step(n, g[n - 1])
      BY <1>4, <1>7, <3>1
    <3>3. g[0] = start
      BY <1>5 DEF Follows
    <3>4. QED
      BY <1>2, <3>2, <3>3
  <2>2. QED
    BY <1>6, <2>1
<1>9. after = [n \in 0 .. m |-> IF n = 0 THEN start ELSE Step(n, after[n - 1])]
  BY <1>8
<1>10. called(old, i, e, st) = after[m]
  BY DEF called, Step, start, m
<1> HIDE DEF after
<1>11. after[0] = start /\ \A n \in 1 .. m : after[n] = Step(n, after[n - 1])
  BY <1>2, <1>9
<1>12. \A n \in 0 .. m : after[n] \in ParamEffect
  <2>1. after[0] \in ParamEffect
    BY <1>0, <1>11
  <2>2. \A n \in 1 .. m : after[n - 1] \in ParamEffect => after[n] \in ParamEffect
    BY <1>1, <1>11
  <2>3. QED
    BY <1>2, <2>1, <2>2, StaysInSet
<1>13. QED
  BY <1>10, <1>11, <1>12 DEF CallTrace, m, start, Step

LEMMA CalledOK ==
    ASSUME NEW st, StoreOK(st), NEW old \in ParamEffect, NEW i, NEW e, Len(e.args) \in Nat
    PROVE  called(old, i, e, st) \in ParamEffect
<1>1. PICK after : CallTrace(after, old, i, e, st)
  BY CalledTrace
<1>2. Len(e.args) \in 0 .. Len(e.args)
  OBVIOUS
<1>3. QED
  BY <1>1, <1>2 DEF CallTrace

LEMMA TouchedOK ==
    ASSUME NEW old \in ParamEffect, NEW i, NEW e, NEW indirect
    PROVE  touched(old, i, e, indirect) \in ParamEffect
  BY DEF touched, ParamEffect

\* What the event e makes of the effect old.
AfterEvent(old, i, e, f, st) ==
    CASE e.op \in {"deref", "element", "flow"} -> touched(old, i, e, f.indirect)
      [] e.op = "call" -> called(old, i, e, st)
      [] OTHER -> old

LEMMA EffectsTrace ==
    ASSUME NEW st, StoreOK(st), NEW f, NEW i, f.annotated[i] \in ParamEffect,
           NEW code, NEW arity, CodeOK(code, arity)
    PROVE  LET after == effects(i, code, f, st)
           IN  /\ after[0] = f.annotated[i]
               /\ \A n \in 1 .. Len(code) : after[n] = AfterEvent(after[n - 1], i, code[n], f, st)
               /\ \A n \in 0 .. Len(code) : after[n] \in ParamEffect
<1> DEFINE m == Len(code)
           start == f.annotated[i]
           Step(n, r) == LET e == code[n]
                         IN  CASE e.op \in {"deref", "element", "flow"} -> touched(r, i, e, f.indirect)
                               [] e.op = "call" -> called(r, i, e, st)
                               [] OTHER -> r
           step == [p \in (1 .. m) \X ParamEffect |-> Step(p[1], p[2])]
           after == CHOOSE g : g = [n \in 0 .. m |-> IF n = 0 THEN start ELSE Step(n, g[n - 1])]
<1>0. start \in ParamEffect
  OBVIOUS
<1>1. \A n \in 1 .. m : \A r \in ParamEffect : Step(n, r) \in ParamEffect
  <2> SUFFICES ASSUME NEW n \in 1 .. m, NEW r \in ParamEffect PROVE Step(n, r) \in ParamEffect
    OBVIOUS
  <2>1. touched(r, i, code[n], f.indirect) \in ParamEffect
    BY TouchedOK
  <2>2. code[n].op = "call" => called(r, i, code[n], st) \in ParamEffect
    BY CalledOK DEF CodeOK, EventOK
  <2>3. QED
    BY <2>1, <2>2
<1>2. m \in Nat
  BY DEF CodeOK
<1> HIDE DEF m, Step
<1>3. step \in [(1 .. m) \X ParamEffect -> ParamEffect]
  BY <1>1
<1>4. \A n \in 1 .. m : \A r \in ParamEffect : step[<<n, r>>] = Step(n, r)
  OBVIOUS
<1> HIDE DEF step
<1> HIDE DEF start
<1>5. PICK g : Follows(g, m, ParamEffect, start, step)
  BY <1>0, <1>2, <1>3, StepwiseFunction
<1>6. g = [n \in 0 .. m |-> g[n]]
  BY <1>5 DEF Follows
<1>7. \A n \in 1 .. m : g[n - 1] \in ParamEffect
  BY <1>2, <1>5 DEF Follows
<1>8. g = [n \in 0 .. m |-> IF n = 0 THEN start ELSE Step(n, g[n - 1])]
  <2>1. \A n \in 0 .. m : g[n] = IF n = 0 THEN start ELSE Step(n, g[n - 1])
    <3>1. \A n \in 1 .. m : g[n] = step[<<n, g[n - 1]>>]
      BY <1>5 DEF Follows
    <3>2. \A n \in 1 .. m : g[n] = Step(n, g[n - 1])
      BY <1>4, <1>7, <3>1
    <3>3. g[0] = start
      BY <1>5 DEF Follows
    <3>4. QED
      BY <1>2, <3>2, <3>3
  <2>2. QED
    BY <1>6, <2>1
<1>9. after = [n \in 0 .. m |-> IF n = 0 THEN start ELSE Step(n, after[n - 1])]
  BY <1>8
<1>10. effects(i, code, f, st) = after
  BY DEF effects, Step, start, m
<1> HIDE DEF after
<1>11. after[0] = start /\ \A n \in 1 .. m : after[n] = Step(n, after[n - 1])
  BY <1>2, <1>9
<1>12. \A n \in 0 .. m : after[n] \in ParamEffect
  <2>1. after[0] \in ParamEffect
    BY <1>0, <1>11
  <2>2. \A n \in 1 .. m : after[n - 1] \in ParamEffect => after[n] \in ParamEffect
    BY <1>1, <1>11
  <2>3. QED
    BY <1>2, <2>1, <2>2, StaysInSet
<1>13. QED
  BY <1>10, <1>11, <1>12 DEF AfterEvent, m, start, Step

LEMMA EffectsOK ==
    ASSUME NEW st, StoreOK(st), NEW f, NEW i, f.annotated[i] \in ParamEffect,
           NEW code, NEW arity, CodeOK(code, arity)
    PROVE  \A n \in 0 .. Len(code) : effects(i, code, f, st)[n] \in ParamEffect
  BY EffectsTrace

-----------------------------------------------------------------------------
(* Returned values *)

LEMMA ReturnedCallOK ==
    ASSUME NEW st, StoreOK(st), NEW e, NEW f,
           \A j \in DOMAIN e.args : e.args[j].direct \in Nat
    PROVE  returnedCall(e, f, st) \in Returns
<1>1. CASE e.fn \in DOMAIN st
  <2>1. st[e.fn] \in FunctionSummary
    BY <1>1 DEF StoreOK
  <2>2. st[e.fn].return_effect \in ReturnEffect /\ st[e.fn].return_borrow_arg \in Nat
    BY <2>1, SummaryFields
  <2>3. st[e.fn].return_borrow_arg \in DOMAIN e.args =>
           e.args[st[e.fn].return_borrow_arg].direct \in Nat
    OBVIOUS
  <2>4. QED
    BY <2>2, <2>3 DEF returnedCall, Returned, Returns, ReturnEffect
<1>2. CASE e.fn \notin DOMAIN st
  BY <1>2 DEF returnedCall, Returned, Returns, ReturnEffect
<1>3. QED
  BY <1>1, <1>2

LEMMA ReturnedParamOK ==
    ASSUME NEW e, e.param \in Nat, NEW f, NEW effect
    PROVE  returnedParam(e, f, effect) \in Returns
  BY DEF returnedParam, Returned, Returns, ReturnEffect

LEMMA ReturnedLocalOK ==
    ASSUME NEW e, NEW st
    PROVE  returnedLocal(e, st) \in Returns
  BY DEF returnedLocal, Returned, Returns, ReturnEffect

LEMMA CombineReturnOK ==
    ASSUME NEW s \in Results, NEW r \in Returns
    PROVE  combineReturn(s, r) \in Results
  BY DEF combineReturn, Result, Results, Returns

LEMMA AnnotatedReturnOK ==
    ASSUME NEW f, IsFunction(f)
    PROVE  annotatedReturn(f) \in Results
<1>1. f.returns \in ReturnEffect /\ f.returns_from \in Nat
  BY DEF IsFunction, ReturnEffect
<1>2. QED
  BY <1>1 DEF annotatedReturn, Result, Results, ReturnEffect

\* What event n makes of the result r.
ResultAfter(r, n, code, f, st) ==
    LET e == code[n]
    IN  CASE e.op = "return_param" ->
                combineReturn(r, returnedParam(e, f, effects(e.param, code, f, st)[n - 1]))
          [] e.op = "return_call" -> combineReturn(r, returnedCall(e, f, st))
          [] e.op = "return_local" -> combineReturn(r, returnedLocal(e, st))
          [] e.op = "return_other" -> combineReturn(r, Returned("Unknown", 0))
          [] e.op = "call" /\ e.fn = "realloc" -> Result(r.effect, r.arg, TRUE)
          [] OTHER -> r

LEMMA ResultsTrace ==
    ASSUME NEW st, StoreOK(st), NEW f, IsFunction(f), NEW code, NEW arity \in Nat, CodeOK(code, arity)
    PROVE  LET after == results(code, f, st)
           IN  /\ after[0] = annotatedReturn(f)
               /\ \A n \in 1 .. Len(code) : after[n] = ResultAfter(after[n - 1], n, code, f, st)
               /\ \A n \in 0 .. Len(code) : after[n] \in Results
<1> DEFINE m == Len(code)
           start == annotatedReturn(f)
           Step(n, r) ==
             LET e == code[n]
             IN  CASE e.op = "return_param" ->
                         combineReturn(r, returnedParam(e, f, effects(e.param, code, f, st)[n - 1]))
                   [] e.op = "return_call" -> combineReturn(r, returnedCall(e, f, st))
                   [] e.op = "return_local" -> combineReturn(r, returnedLocal(e, st))
                   [] e.op = "return_other" -> combineReturn(r, Returned("Unknown", 0))
                   [] e.op = "call" /\ e.fn = "realloc" -> Result(r.effect, r.arg, TRUE)
                   [] OTHER -> r
           step == [p \in (1 .. m) \X Results |-> Step(p[1], p[2])]
           after == CHOOSE g : g = [n \in 0 .. m |-> IF n = 0 THEN start ELSE Step(n, g[n - 1])]
<1>0. start \in Results
  BY AnnotatedReturnOK
<1>1. \A n \in 1 .. m : \A r \in Results : Step(n, r) \in Results
  <2> SUFFICES ASSUME NEW n \in 1 .. m, NEW r \in Results PROVE Step(n, r) \in Results
    OBVIOUS
  <2> DEFINE e == code[n]
  <2>1. EventOK(e, arity)
    BY DEF CodeOK
  <2>2. e.op = "return_param" => e.param \in Nat
    BY <2>1 DEF EventOK
  <2>3. e.op = "return_call" => returnedCall(e, f, st) \in Returns
    BY <2>1, ReturnedCallOK DEF EventOK
  <2>4. Returned("Unknown", 0) \in Returns
    BY DEF Returned, Returns, ReturnEffect
  <2>5. Result(r.effect, r.arg, TRUE) \in Results
    BY DEF Result, Results
  <2>6. CASE e.op = "return_param"
    <3>1. returnedParam(e, f, effects(e.param, code, f, st)[n - 1]) \in Returns
      BY <2>2, <2>6, ReturnedParamOK
    <3>2. QED
      BY <2>6, <3>1, CombineReturnOK
  <2>7. CASE e.op = "return_call"
    BY <2>3, <2>7, CombineReturnOK
  <2>8. CASE e.op = "return_local"
    BY <2>8, ReturnedLocalOK, CombineReturnOK
  <2>9. CASE e.op = "return_other"
    BY <2>4, <2>9, CombineReturnOK
  <2>10. CASE e.op \notin {"return_param", "return_call", "return_local", "return_other"}
    BY <2>5, <2>10
  <2>11. QED
    BY <2>6, <2>7, <2>8, <2>9, <2>10
<1>2. m \in Nat
  BY DEF CodeOK
<1> HIDE DEF m, Step
<1>3. step \in [(1 .. m) \X Results -> Results]
  BY <1>1
<1>4. \A n \in 1 .. m : \A r \in Results : step[<<n, r>>] = Step(n, r)
  OBVIOUS
<1> HIDE DEF step
<1> HIDE DEF start
<1>5. PICK g : Follows(g, m, Results, start, step)
  BY <1>0, <1>2, <1>3, StepwiseFunction
<1>6. g = [n \in 0 .. m |-> g[n]]
  BY <1>5 DEF Follows
<1>7. \A n \in 1 .. m : g[n - 1] \in Results
  BY <1>2, <1>5 DEF Follows
<1>8. g = [n \in 0 .. m |-> IF n = 0 THEN start ELSE Step(n, g[n - 1])]
  <2>1. \A n \in 0 .. m : g[n] = IF n = 0 THEN start ELSE Step(n, g[n - 1])
    <3>1. \A n \in 1 .. m : g[n] = step[<<n, g[n - 1]>>]
      BY <1>5 DEF Follows
    <3>2. \A n \in 1 .. m : g[n] = Step(n, g[n - 1])
      BY <1>4, <1>7, <3>1
    <3>3. g[0] = start
      BY <1>5 DEF Follows
    <3>4. QED
      BY <1>2, <3>2, <3>3
  <2>2. QED
    BY <1>6, <2>1
<1>9. after = [n \in 0 .. m |-> IF n = 0 THEN start ELSE Step(n, after[n - 1])]
  BY <1>8
<1>10. results(code, f, st) = after
  BY DEF results, Step, start, m
<1> HIDE DEF after
<1>11. after[0] = start /\ \A n \in 1 .. m : after[n] = Step(n, after[n - 1])
  BY <1>2, <1>9
<1>12. \A n \in 0 .. m : after[n] \in Results
  <2>1. after[0] \in Results
    BY <1>0, <1>11
  <2>2. \A n \in 1 .. m : after[n - 1] \in Results => after[n] \in Results
    BY <1>1, <1>11
  <2>3. QED
    BY <1>2, <2>1, <2>2, StaysInSet
<1>13. QED
  BY <1>10, <1>11, <1>12 DEF ResultAfter, m, start, Step

LEMMA ResultsOK ==
    ASSUME NEW st, StoreOK(st), NEW f, IsFunction(f), NEW code, NEW arity \in Nat, CodeOK(code, arity)
    PROVE  results(code, f, st)[Len(code)] \in Results
<1>1. Len(code) \in 0 .. Len(code)
  BY DEF CodeOK
<1>2. QED
  BY <1>1, ResultsTrace

-----------------------------------------------------------------------------
(* build *)

LEMMA SequenceOfLength ==
    ASSUME NEW k \in Nat, NEW V, NEW s \in [1 .. k -> V]
    PROVE  s \in Seq(V) /\ Len(s) = k
  OBVIOUS

LEMMA ForeignOK ==
    ASSUME NEW e, Len(e.args) \in Nat
    PROVE  /\ Len(ForeignArguments(e)) \in Nat
           /\ \A j \in DOMAIN ForeignArguments(e) : ForeignArguments(e)[j].direct \in Nat
<1>1. ForeignArguments(e) \in [1 .. Len(e.args) -> {Foreign}]
  BY DEF ForeignArguments
<1>2. Len(ForeignArguments(e)) = Len(e.args)
  BY <1>1, SequenceOfLength
<1>3. Foreign.direct = 0
  BY DEF Foreign
<1>4. QED
  BY <1>1, <1>2, <1>3

LEMMA VisibleCodeOK ==
    ASSUME NEW f, IsFunction(f), NEW definition
    PROVE  CodeOK(VisibleCode(f, definition), f.arity)
<1>1. f.arity \in Nat /\ Len(f.code) \in Nat
  BY DEF IsFunction
<1>2. \A n \in 1 .. Len(f.code) : IsEvent(f.code[n], f.arity)
  BY DEF IsFunction
<1>3. \A n \in 1 .. Len(f.code) : EventOK(f.code[n], f.arity)
  <2> SUFFICES ASSUME NEW n \in 1 .. Len(f.code) PROVE EventOK(f.code[n], f.arity)
    OBVIOUS
  <2> DEFINE e == f.code[n]
  <2>1. IsEvent(e, f.arity)
    BY <1>2
  <2> HIDE DEF e
  <2>2. e.op \in {"call", "return_call"} => IsCall(e, f.arity)
    BY <2>1 DEF IsEvent
  <2>3. IsCall(e, f.arity) => /\ Len(e.args) \in Nat
                             /\ \A j \in DOMAIN e.args : e.args[j].direct \in Nat
    BY <1>1 DEF IsCall, IsArgument
  <2>4. e.op = "return_param" => e.param \in 1 .. f.arity
    BY <2>1 DEF IsEvent
  <2>5. QED
    BY <2>2, <2>3, <2>4 DEF EventOK, e
<1>4. \A n \in 1 .. Len(f.code) : EventOK(SeenByRedeclaration(f.code[n]), f.arity)
  <2> SUFFICES ASSUME NEW n \in 1 .. Len(f.code)
               PROVE  EventOK(SeenByRedeclaration(f.code[n]), f.arity)
    OBVIOUS
  <2> DEFINE e == f.code[n]
  <2>1. IsEvent(e, f.arity)
    BY <1>2
  <2> SUFFICES EventOK(SeenByRedeclaration(e), f.arity)
    OBVIOUS
  <2> HIDE DEF e
  <2>2. CASE e.op \in {"call", "return_call"}
    <3>1. Len(e.args) \in Nat
      BY <2>1, <2>2 DEF IsEvent, IsCall
    <3>2. QED
      BY <2>2, <3>1, ForeignOK DEF SeenByRedeclaration, EventOK
  <2>3. CASE e.op \notin {"call", "return_call"}
    <3>1. CASE e.op \in {"deref", "element", "flow"}
      <4>1. SeenByRedeclaration(e).op = e.op
        BY <3>1 DEF SeenByRedeclaration
      <4>2. QED
        BY <3>1, <4>1 DEF EventOK
    <3>2. CASE e.op = "return_param"
      <4>1. SeenByRedeclaration(e).op = "return_other"
        BY <3>2 DEF SeenByRedeclaration
      <4>2. QED
        BY <4>1 DEF EventOK
    <3>3. CASE e.op \notin {"deref", "element", "flow", "return_param"}
      <4>1. SeenByRedeclaration(e) = e
        BY <2>3, <3>3 DEF SeenByRedeclaration
      <4>2. QED
        BY <2>3, <3>3, <4>1 DEF EventOK
    <3>4. QED
      BY <3>1, <3>2, <3>3
  <2>4. QED
    BY <2>2, <2>3
<1>5. CASE definition
  BY <1>1, <1>3, <1>5 DEF VisibleCode, CodeOK
<1>6. CASE ~definition
  <2> DEFINE seen == [n \in 1 .. Len(f.code) |-> SeenByRedeclaration(f.code[n])]
  <2>1. seen \in [1 .. Len(f.code) -> {SeenByRedeclaration(f.code[n]) : n \in 1 .. Len(f.code)}]
    OBVIOUS
  <2>2. Len(seen) = Len(f.code)
    BY <1>1, <2>1, SequenceOfLength
  <2>3. \A n \in 1 .. Len(f.code) : seen[n] = SeenByRedeclaration(f.code[n])
    OBVIOUS
  <2>4. VisibleCode(f, definition) = seen
    BY <1>6 DEF VisibleCode
  <2> HIDE DEF seen
  <2>5. QED
    BY <1>1, <1>4, <2>2, <2>3, <2>4 DEF CodeOK
<1>7. QED
  BY <1>5, <1>6

\* A summary that is built is a summary, and of a body.
LEMMA BuildOK ==
    ASSUME NEW st, StoreOK(st), NEW f, IsFunction(f), NEW definition
    PROVE  /\ build(f, definition, st) \in FunctionSummary
           /\ build(f, definition, st).origin = "BodyVerified"
<1> DEFINE code   == VisibleCode(f, definition)
           result == results(code, f, st)[Len(code)]
           found  == [i \in 1 .. f.arity |-> effects(i, code, f, st)[Len(code)]]
           params == IF result.conflict THEN AllUnknown(f.arity) ELSE found
           effect == IF result.conflict \/ (f.pointer /\ result.effect = "None")
                     THEN "Unknown" ELSE result.effect
           arg    == IF result.conflict THEN 0 ELSE result.arg
<1>1. f.arity \in Nat /\ \A i \in 1 .. f.arity : f.annotated[i] \in ParamEffect
  BY DEF IsFunction
<1>2. CodeOK(code, f.arity)
  BY VisibleCodeOK
<1> HIDE DEF code
<1>3. Len(code) \in Nat
  BY <1>2 DEF CodeOK
<1>4. result \in Results
  BY <1>1, <1>2, ResultsOK
<1>5. \A i \in 1 .. f.arity : effects(i, code, f, st)[Len(code)] \in ParamEffect
  <2> SUFFICES ASSUME NEW i \in 1 .. f.arity PROVE effects(i, code, f, st)[Len(code)] \in ParamEffect
    OBVIOUS
  <2>1. \A n \in 0 .. Len(code) : effects(i, code, f, st)[n] \in ParamEffect
    BY <1>1, <1>2, EffectsOK
  <2>2. QED
    BY <1>3, <2>1
<1>6. params \in [1 .. f.arity -> ParamEffect]
  BY <1>5 DEF AllUnknown, ParamEffect
<1>7. build(f, definition, st) =
        [params |-> params, return_effect |-> effect, return_borrow_arg |-> arg,
         origin |-> "BodyVerified", conflict |-> result.conflict]
  BY DEF build, code
<1>8. effect \in ReturnEffect /\ arg \in Nat /\ result.conflict \in BOOLEAN
  BY <1>4 DEF Results, ReturnEffect
<1> HIDE DEF params, effect, arg, result
<1>9. params \in Seq(ParamEffect)
  BY <1>1, <1>6, SequenceOfLength
<1>10. QED
  BY <1>7, <1>8, <1>9 DEF FunctionSummary, SummaryOrigin

-----------------------------------------------------------------------------
(* What build reads of the store *)

\* The events that look up a function in the store.
Calling == {"call", "return_call", "return_local"}

\* Two stores say the same of x.
SameFor(x, s, t) ==
    /\ x \in DOMAIN s <=> x \in DOMAIN t
    /\ x \in DOMAIN s => s[x] = t[x]

\* Two stores say the same of every function the code names.
Agree(code, s, t) ==
    \A n \in 1 .. Len(code) : code[n].op \in Calling => SameFor(code[n].fn, s, t)

LEMMA CalleeEffectAgrees ==
    ASSUME NEW e, NEW s, NEW t, SameFor(e.fn, s, t), NEW j
    PROVE  CalleeEffect(e, j, s) = CalleeEffect(e, j, t)
  BY DEF SameFor, CalleeEffect

LEMMA CalledAgrees ==
    ASSUME NEW s, StoreOK(s), NEW t, StoreOK(t), NEW old \in ParamEffect, NEW i,
           NEW e, Len(e.args) \in Nat, SameFor(e.fn, s, t)
    PROVE  called(old, i, e, s) = called(old, i, e, t)
<1>1. PICK f : CallTrace(f, old, i, e, s)
  BY CalledTrace
<1>2. PICK g : CallTrace(g, old, i, e, t)
  BY CalledTrace
<1>3. \A n \in 1 .. Len(e.args) : f[n - 1] = g[n - 1] => f[n] = g[n]
  BY <1>1, <1>2, CalleeEffectAgrees DEF CallTrace
<1>4. f[0] = g[0]
  BY <1>1, <1>2 DEF CallTrace
<1>5. \A n \in 0 .. Len(e.args) : f[n] = g[n]
  BY <1>3, <1>4, StaysEqual
<1>6. QED
  BY <1>1, <1>2, <1>5 DEF CallTrace

LEMMA EffectsAgree ==
    ASSUME NEW s, StoreOK(s), NEW t, StoreOK(t), NEW f, NEW i, f.annotated[i] \in ParamEffect,
           NEW code, NEW arity, CodeOK(code, arity), Agree(code, s, t)
    PROVE  \A n \in 0 .. Len(code) : effects(i, code, f, s)[n] = effects(i, code, f, t)[n]
<1> DEFINE a == effects(i, code, f, s)
           b == effects(i, code, f, t)
<1>1. /\ a[0] = f.annotated[i] /\ \A n \in 1 .. Len(code) : a[n] = AfterEvent(a[n - 1], i, code[n], f, s)
      /\ \A n \in 0 .. Len(code) : a[n] \in ParamEffect
  BY EffectsTrace
<1>2. b[0] = f.annotated[i] /\ \A n \in 1 .. Len(code) : b[n] = AfterEvent(b[n - 1], i, code[n], f, t)
  BY EffectsTrace
<1> HIDE DEF a, b
<1>3. ASSUME NEW n \in 1 .. Len(code), a[n - 1] = b[n - 1]
      PROVE  a[n] = b[n]
  <2> DEFINE e == code[n]
  <2>1. a[n - 1] \in ParamEffect
    <3>1. n - 1 \in 0 .. Len(code)
      BY DEF CodeOK
    <3>2. QED
      BY <1>1, <3>1
  <2>2. e.op = "call" => called(a[n - 1], i, e, s) = called(a[n - 1], i, e, t)
    BY <2>1, CalledAgrees DEF CodeOK, EventOK, Agree, Calling
  <2>3. AfterEvent(a[n - 1], i, e, f, s) = AfterEvent(a[n - 1], i, e, f, t)
    BY <2>2 DEF AfterEvent
  <2>4. QED
    BY <1>1, <1>2, <1>3, <2>3
<1>4. \A n \in 0 .. Len(code) : a[n] = b[n]
  <2>1. Len(code) \in Nat
    BY DEF CodeOK
  <2>2. \A n \in 1 .. Len(code) : a[n - 1] = b[n - 1] => a[n] = b[n]
    BY <1>3
  <2>3. a[0] = b[0]
    BY <1>1, <1>2
  <2>4. QED
    BY <2>1, <2>2, <2>3, StaysEqual
<1>5. QED
  BY <1>4 DEF a, b

LEMMA ResultsAgree ==
    ASSUME NEW s, StoreOK(s), NEW t, StoreOK(t), NEW f, IsFunction(f),
           NEW code, CodeOK(code, f.arity), Agree(code, s, t)
    PROVE  results(code, f, s)[Len(code)] = results(code, f, t)[Len(code)]
<1> DEFINE a == results(code, f, s)
           b == results(code, f, t)
<1>1. f.arity \in Nat /\ \A i \in 1 .. f.arity : f.annotated[i] \in ParamEffect
  BY DEF IsFunction
<1>2. a[0] = annotatedReturn(f) /\ \A n \in 1 .. Len(code) : a[n] = ResultAfter(a[n - 1], n, code, f, s)
  BY <1>1, ResultsTrace
<1>3. b[0] = annotatedReturn(f) /\ \A n \in 1 .. Len(code) : b[n] = ResultAfter(b[n - 1], n, code, f, t)
  BY <1>1, ResultsTrace
<1> HIDE DEF a, b
<1>4. ASSUME NEW n \in 1 .. Len(code), a[n - 1] = b[n - 1]
      PROVE  a[n] = b[n]
  <2> DEFINE e == code[n]
  <2>1. n - 1 \in 0 .. Len(code)
    BY DEF CodeOK
  <2>2. e.op = "return_param" =>
            effects(e.param, code, f, s)[n - 1] = effects(e.param, code, f, t)[n - 1]
    <3>1. e.op = "return_param" => e.param \in 1 .. f.arity
      BY DEF CodeOK, EventOK
    <3>2. QED
      BY <1>1, <2>1, <3>1, EffectsAgree
  <2>3. e.op \in Calling => SameFor(e.fn, s, t)
    BY DEF Agree
  <2>4. e.op = "return_call" => returnedCall(e, f, s) = returnedCall(e, f, t)
    BY <2>3 DEF returnedCall, SameFor, Calling
  <2>5. e.op = "return_local" => returnedLocal(e, s) = returnedLocal(e, t)
    BY <2>3 DEF returnedLocal, SameFor, Calling
  <2>6. ResultAfter(a[n - 1], n, code, f, s) = ResultAfter(a[n - 1], n, code, f, t)
    <3>1. CASE e.op = "return_param"
      BY <2>2, <3>1 DEF ResultAfter
    <3>2. CASE e.op = "return_call"
      BY <2>4, <3>2 DEF ResultAfter
    <3>3. CASE e.op = "return_local"
      BY <2>5, <3>3 DEF ResultAfter
    <3>4. CASE e.op \notin {"return_param", "return_call", "return_local"}
      BY <3>4 DEF ResultAfter
    <3>5. QED
      BY <3>1, <3>2, <3>3, <3>4
  <2>7. QED
    BY <1>2, <1>3, <1>4, <2>6
<1>5. \A n \in 0 .. Len(code) : a[n] = b[n]
  <2>1. Len(code) \in Nat
    BY DEF CodeOK
  <2>2. \A n \in 1 .. Len(code) : a[n - 1] = b[n - 1] => a[n] = b[n]
    BY <1>4
  <2>3. a[0] = b[0]
    BY <1>2, <1>3
  <2>4. QED
    BY <2>1, <2>2, <2>3, StaysEqual
<1>6. Len(code) \in 0 .. Len(code)
  BY DEF CodeOK
<1>7. QED
  BY <1>5, <1>6 DEF a, b

LEMMA VisibleCodeAgrees ==
    ASSUME NEW f, IsFunction(f), NEW definition, NEW s, NEW t, Agree(f.code, s, t)
    PROVE  Agree(VisibleCode(f, definition), s, t)
<1>1. CASE definition
  BY <1>1 DEF VisibleCode
<1>2. CASE ~definition
  <2> DEFINE seen == [n \in 1 .. Len(f.code) |-> SeenByRedeclaration(f.code[n])]
  <2>1. seen \in [1 .. Len(f.code) -> {SeenByRedeclaration(f.code[n]) : n \in 1 .. Len(f.code)}]
    OBVIOUS
  <2>2. Len(seen) = Len(f.code)
    BY <2>1, SequenceOfLength DEF IsFunction
  <2>3. \A e : SeenByRedeclaration(e).op \in Calling =>
                  e.op \in Calling /\ SeenByRedeclaration(e).fn = e.fn
    <3> SUFFICES ASSUME NEW e, SeenByRedeclaration(e).op \in Calling
                 PROVE  e.op \in Calling /\ SeenByRedeclaration(e).fn = e.fn
      OBVIOUS
    <3>1. CASE e.op \in {"deref", "element", "flow"}
      BY <3>1 DEF SeenByRedeclaration, Calling
    <3>2. CASE e.op = "call"
      BY <3>2 DEF SeenByRedeclaration, Calling
    <3>3. CASE e.op = "return_call"
      BY <3>3 DEF SeenByRedeclaration, Calling
    <3>4. CASE e.op = "return_param"
      BY <3>4 DEF SeenByRedeclaration, Calling
    <3>5. CASE e.op \notin {"deref", "element", "flow", "call", "return_call", "return_param"}
      <4>1. SeenByRedeclaration(e) = e
        BY <3>5 DEF SeenByRedeclaration
      <4>2. QED
        BY <4>1
    <3>6. QED
      BY <3>1, <3>2, <3>3, <3>4, <3>5
  <2>4. VisibleCode(f, definition) = seen
    BY <1>2 DEF VisibleCode
  <2>5. \A n \in 1 .. Len(f.code) : seen[n] = SeenByRedeclaration(f.code[n])
    OBVIOUS
  <2> HIDE DEF seen
  <2>6. QED
    BY <2>2, <2>3, <2>4, <2>5 DEF Agree
<1>3. QED
  BY <1>1, <1>2

\* What is built of a function depends on the summaries of the functions its
\* code names, and on no others.
LEMMA BuildAgrees ==
    ASSUME NEW s, StoreOK(s), NEW t, StoreOK(t), NEW f, IsFunction(f), NEW definition,
           Agree(f.code, s, t)
    PROVE  build(f, definition, s) = build(f, definition, t)
<1> DEFINE code == VisibleCode(f, definition)
<1>1. CodeOK(code, f.arity) /\ Agree(code, s, t)
  BY VisibleCodeOK, VisibleCodeAgrees
<1> HIDE DEF code
<1>2. Len(code) \in 0 .. Len(code)
  BY <1>1 DEF CodeOK
<1>3. \A i \in 1 .. f.arity : effects(i, code, f, s)[Len(code)] = effects(i, code, f, t)[Len(code)]
  <2> SUFFICES ASSUME NEW i \in 1 .. f.arity
               PROVE  effects(i, code, f, s)[Len(code)] = effects(i, code, f, t)[Len(code)]
    OBVIOUS
  <2>1. f.annotated[i] \in ParamEffect
    BY DEF IsFunction
  <2>2. QED
    BY <1>1, <1>2, <2>1, EffectsAgree
<1>4. results(code, f, s)[Len(code)] = results(code, f, t)[Len(code)]
  BY <1>1, ResultsAgree
<1>5. [i \in 1 .. f.arity |-> effects(i, code, f, s)[Len(code)]] =
      [i \in 1 .. f.arity |-> effects(i, code, f, t)[Len(code)]]
  BY <1>3
<1>6. QED
  BY <1>4, <1>5 DEF build, code

-----------------------------------------------------------------------------
(* Trusted inputs *)

LEMMA ReturnOrOK ==
    ASSUME NEW ret \in ReturnEffect \cup {"unstated"}, NEW d
    PROVE  ReturnOr(ret, d) \in ReturnEffect
  BY DEF ReturnOr, ReturnEffect

LEMMA AllUnknownOK ==
    ASSUME NEW arity \in Nat
    PROVE  AllUnknown(arity) \in Seq(ParamEffect)
<1>1. AllUnknown(arity) \in [1 .. arity -> ParamEffect]
  BY DEF AllUnknown, ParamEffect
<1>2. QED
  BY <1>1, SequenceOfLength

LEMMA AnnotationSummaryOK ==
    ASSUME NEW a, IsAnnotated(a), NEW d
    PROVE  annotationSummary(a, d) \in FunctionSummary
<1>1. /\ a.facts.params \in Seq(ParamEffect) /\ a.facts.borrow \in Nat
      /\ a.facts.ret \in ReturnEffect \cup {"unstated"}
  BY DEF IsAnnotated, Facts
<1>2. ReturnOr(a.facts.ret, d) \in ReturnEffect
  BY <1>1, ReturnOrOK
<1>3. QED
  BY <1>1, <1>2 DEF annotationSummary, FunctionSummary, SummaryOrigin

LEMMA ExternalSummaryOK ==
    ASSUME NEW facts \in Facts, NEW d, IsDeclaration(d), NEW symbol
    PROVE  externalSummary(symbol, facts, d) \in FunctionSummary
<1> DEFINE stated(i) == IF i \in DOMAIN facts.params /\ facts.params[i] # "unstated"
                        THEN facts.params[i] ELSE "Unknown"
           said   == [i \in 1 .. d.arity |-> stated(i)]
           params == IF symbol = "realloc" THEN AllUnknown(d.arity) ELSE said
           ret    == IF symbol = "realloc" THEN "Unknown" ELSE ReturnOr(facts.ret, d)
           borrow == IF symbol = "realloc" THEN 0 ELSE facts.borrow
<1>1. /\ facts.params \in Seq(ParamEffect \cup {"unstated"}) /\ facts.borrow \in Nat
      /\ facts.ret \in ReturnEffect \cup {"unstated"} /\ d.arity \in Nat
  BY DEF Facts, IsDeclaration
<1>2. \A i \in DOMAIN facts.params : facts.params[i] \in ParamEffect \cup {"unstated"}
  BY <1>1
<1>3. \A i : stated(i) \in ParamEffect
  BY <1>2 DEF ParamEffect
<1> HIDE DEF stated
<1>4. said \in [1 .. d.arity -> ParamEffect]
  BY <1>3
<1> HIDE DEF said
<1>5. params \in Seq(ParamEffect)
  BY <1>1, <1>4, AllUnknownOK, SequenceOfLength
<1>6. ret \in ReturnEffect /\ borrow \in Nat
  BY <1>1, ReturnOrOK DEF ReturnEffect
<1>7. externalSummary(symbol, facts, d) =
        [params |-> params, return_effect |-> ret, return_borrow_arg |-> borrow,
         origin |-> "ExternalTrusted", conflict |-> FALSE]
  BY DEF externalSummary, said, stated
<1> HIDE DEF params, ret, borrow
<1>8. QED
  BY <1>5, <1>6, <1>7 DEF FunctionSummary, SummaryOrigin

\* A contract leaves a summary, and of that of a body everything but a conflict
\* that was not there.
LEMMA ContractedOK ==
    ASSUME NEW old \in FunctionSummary, NEW facts \in Facts, NEW d, IsDeclaration(d), NEW symbol
    PROVE  LET new == contracted(old, symbol, facts, d)
           IN  /\ new \in FunctionSummary
               /\ old.origin = "BodyVerified" =>
                     new.origin = "BodyVerified" /\ (old.conflict => new.conflict)
<1>1. externalSummary(symbol, facts, d) \in FunctionSummary
  BY ExternalSummaryOK
<1>2. contradictedSummary(d) \in FunctionSummary
  <2>1. AllUnknown(d.arity) \in Seq(ParamEffect)
    BY AllUnknownOK DEF IsDeclaration
  <2>2. QED
    BY <2>1 DEF contradictedSummary, FunctionSummary, ReturnEffect, SummaryOrigin
<1>3. /\ [old EXCEPT !.conflict = TRUE] \in FunctionSummary
      /\ [old EXCEPT !.conflict = TRUE].origin = old.origin
      /\ [old EXCEPT !.conflict = TRUE].conflict
  BY DEF FunctionSummary
<1>4. CASE old.origin = "BodyVerified"
  <2>1. contracted(old, symbol, facts, d) =
           IF Confirms(old, facts) THEN old ELSE [old EXCEPT !.conflict = TRUE]
    BY <1>4 DEF contracted
  <2>2. QED
    BY <1>3, <1>4, <2>1
<1>5. CASE old.origin # "BodyVerified"
  <2>1. contracted(old, symbol, facts, d)
          \in {externalSummary(symbol, facts, d), contradictedSummary(d), old}
    BY <1>5 DEF contracted
  <2>2. QED
    BY <1>1, <1>2, <1>5, <2>1
<1>6. QED
  BY <1>4, <1>5

LEMMA UnknownSummaryOK ==
    ASSUME NEW arity \in Nat
    PROVE  unknownSummary(arity) \in FunctionSummary
<1>1. AllUnknown(arity) \in Seq(ParamEffect)
  BY AllUnknownOK
<1>2. QED
  BY <1>1 DEF unknownSummary, FunctionSummary, ReturnEffect, SummaryOrigin

-----------------------------------------------------------------------------
(* The invariant *)

LEMMA UnitFacts ==
    ASSUME NEW u \in Units
    PROVE  /\ \A f \in DOMAIN u.bodies : IsFunction(u.bodies[f])
           /\ Len(u.functions) \in Nat
           /\ DOMAIN u.functions = 1 .. Len(u.functions)
           /\ \A i \in 1 .. Len(u.functions) :
                 /\ u.functions[i].name \in DOMAIN u.bodies
                 /\ u.functions[i].definition \in BOOLEAN
                 /\ u.functions[i] = [name |-> u.functions[i].name,
                                      definition |-> u.functions[i].definition]
           /\ \A f \in DOMAIN u.bodies : \E i \in 1 .. Len(u.functions) : u.functions[i].name = f
           /\ \A x \in DOMAIN u.externals : x \notin DOMAIN u.bodies /\ IsDeclaration(u.externals[x])
           /\ \A i \in 1 .. Len(u.annotated) :
                 IsAnnotated(u.annotated[i]) /\ u.annotated[i].symbol \in DOMAIN u.externals
           /\ Len(u.annotated) \in Nat
           /\ Len(u.contracts) \in Nat /\ DOMAIN u.contracts = 1 .. Len(u.contracts)
           /\ \A i \in 1 .. Len(u.contracts) :
                 /\ u.contracts[i].symbol \in DOMAIN u.externals \cup DOMAIN u.bodies
                 /\ u.contracts[i].facts \in Facts
<1>1. IsUnit(u)
  BY UnitAssumption
<1> DEFINE Entries == [name : DOMAIN u.bodies, definition : BOOLEAN]
<1>2. u.functions \in Seq(Entries)
  BY <1>1 DEF IsUnit
<1>3. \A e \in Entries : /\ e.name \in DOMAIN u.bodies /\ e.definition \in BOOLEAN
                          /\ e = [name |-> e.name, definition |-> e.definition]
  OBVIOUS
<1> HIDE DEF Entries
<1>4. /\ Len(u.functions) \in Nat /\ DOMAIN u.functions = 1 .. Len(u.functions)
      /\ \A i \in 1 .. Len(u.functions) : u.functions[i] \in Entries
  BY <1>2
<1>5. \A f \in DOMAIN u.bodies : \E i \in 1 .. Len(u.functions) : u.functions[i].name = f
  BY <1>1, <1>4 DEF IsUnit
<1>6. \A x \in DOMAIN u.externals : x \notin DOMAIN u.bodies /\ IsDeclaration(u.externals[x])
  BY <1>1 DEF IsUnit
<1>7. QED
  BY <1>1, <1>3, <1>4, <1>5, <1>6 DEF IsUnit

\* Every body has a summary of its own: in the infer phase those of the round
\* before, or the first ones, which are Unknown.
BodiesBuilt ==
    /\ \A f \in Bodies \cap DOMAIN next : next[f].origin = "BodyVerified"
    /\ phase = "infer" => \A i \in 1 .. position : unit.functions[i].name \in DOMAIN next
    /\ phase = "reinfer" => Bodies \subseteq DOMAIN next
    /\ phase # "infer" => \A f \in Bodies : f \in DOMAIN store /\ store[f].origin = "BodyVerified"

\* In the last rounds a conflict is what it was before the round.
ConflictsPinned ==
    phase = "reinfer" => \A f \in Bodies : store[f].conflict => next[f] = store[f]

\* The declaration of f this round built last.
BuiltLast(f, i) ==
    /\ i \in 1 .. position
    /\ unit.functions[i].name = f
    /\ \A j \in 1 .. position : j > i => unit.functions[j].name # f
    /\ next[f] = build(unit.bodies[f], unit.functions[i].definition, store)

\* What a round has done to a function it does not pin.
RoundFollowsStore ==
    phase \in {"infer", "reinfer"} =>
        \A f \in Bodies : (phase = "reinfer" => ~store[f].conflict) =>
            \/ \A j \in 1 .. position : unit.functions[j].name # f
            \/ \E i \in 1 .. position : BuiltLast(f, i)

IInv ==
    /\ unit \in Units
    /\ TypeOK
    /\ BodiesWin
    /\ BodiesBuilt
    /\ ConflictsPinned
    /\ RoundFollowsStore

LEMMA Initially == Init => IInv
<1> SUFFICES ASSUME Init PROVE IInv
  OBVIOUS
<1>1. unit \in Units /\ phase = "infer" /\ position = 0
  BY DEF Init
<1>2. DOMAIN next = {} /\ DOMAIN store = Bodies
  BY DEF Init, NoSummaries
<1>3. \A f \in Bodies : store[f] = unknownSummary(unit.bodies[f].arity) /\ store[f] \in FunctionSummary
  <2> SUFFICES ASSUME NEW f \in Bodies
               PROVE  store[f] = unknownSummary(unit.bodies[f].arity) /\ store[f] \in FunctionSummary
    OBVIOUS
  <2>1. store[f] = unknownSummary(unit.bodies[f].arity)
    BY DEF Init
  <2>2. unit.bodies[f].arity \in Nat
    BY <1>1, UnitFacts DEF Bodies, IsFunction
  <2>3. QED
    BY <2>1, <2>2, UnknownSummaryOK
<1>4. TypeOK
  BY <1>2, <1>3 DEF Init, TypeOK
<1>5. BodiesWin
  <2>1. \A arity : unknownSummary(arity).origin = "Unknown"
    BY DEF unknownSummary
  <2>2. QED
    BY <1>3, <2>1 DEF BodiesWin
<1>6. BodiesBuilt
  BY <1>1, <1>2 DEF BodiesBuilt
<1>7. ConflictsPinned /\ RoundFollowsStore
  BY <1>1 DEF ConflictsPinned, RoundFollowsStore
<1>8. QED
  BY <1>1, <1>4, <1>5, <1>6, <1>7 DEF IInv

\* One declaration of a round.
LEMMA BuildPreserves == IInv /\ Build => IInv'
<1> SUFFICES ASSUME IInv, Build PROVE IInv'
  OBVIOUS
<1> DEFINE declared == unit.functions[position + 1]
           f == declared.name
           v == build(unit.bodies[f], declared.definition, store)
<1>1. /\ unit' = unit /\ phase' = phase /\ round' = round /\ store' = store
      /\ contract_error' = contract_error /\ position' = position + 1
      /\ unit \in Units /\ phase \in {"infer", "reinfer"}
      /\ position \in Nat /\ position < Len(unit.functions)
      /\ next' = IF Pinned(f) THEN next ELSE With(next, f, v)
  BY DEF IInv, TypeOK, Build, Rounds, reviewVars
<1>2. /\ position + 1 \in 1 .. Len(unit.functions) /\ f \in Bodies
      /\ IsFunction(unit.bodies[f]) /\ Bodies' = Bodies
  <2>1. position + 1 \in 1 .. Len(unit.functions)
    BY <1>1, UnitFacts
  <2>2. f \in DOMAIN unit.bodies
    BY <1>1, <2>1, UnitFacts
  <2>3. QED
    BY <1>1, <2>1, <2>2, UnitFacts DEF Bodies
<1>3. StoreOK(store) /\ StoreOK(next)
  BY DEF IInv, TypeOK, StoreOK
<1>4. v \in FunctionSummary /\ v.origin = "BodyVerified"
  BY <1>2, <1>3, BuildOK
<1> HIDE DEF v
<1>5. phase = "reinfer" => Bodies \subseteq DOMAIN store /\ Bodies \subseteq DOMAIN next
  BY DEF IInv, BodiesBuilt
<1>6. /\ StoreOK(next')
      /\ \A g \in DOMAIN next : g # f => next'[g] = next[g]
      /\ DOMAIN next \subseteq DOMAIN next'
      /\ ~Pinned(f) => DOMAIN next' = DOMAIN next \cup {f} /\ next'[f] = v
      /\ Pinned(f) => next' = next
  <2>1. /\ StoreOK(With(next, f, v)) /\ DOMAIN With(next, f, v) = DOMAIN next \cup {f}
        /\ With(next, f, v)[f] = v
        /\ \A x \in DOMAIN next : x # f => With(next, f, v)[x] = next[x]
    BY <1>3, <1>4 DEF With, StoreOK
  <2>2. CASE Pinned(f)
    BY <1>1, <1>3, <2>2
  <2>3. CASE ~Pinned(f)
    <3>1. next' = With(next, f, v)
      BY <1>1, <2>3
    <3>2. QED
      BY <2>1, <2>3, <3>1
  <2>4. QED
    BY <2>2, <2>3
<1>7. TypeOK'
  BY <1>1, <1>6 DEF IInv, TypeOK, StoreOK
<1>8. BodiesWin'
  BY <1>1, <1>2 DEF IInv, BodiesWin
<1>9. BodiesBuilt'
  <2>1. \A g \in Bodies \cap DOMAIN next' : next'[g].origin = "BodyVerified"
    BY <1>4, <1>6 DEF IInv, BodiesBuilt
  <2>2. phase = "infer" => \A i \in 1 .. position + 1 : unit.functions[i].name \in DOMAIN next'
    BY <1>1, <1>6 DEF IInv, BodiesBuilt, Pinned
  <2>3. QED
    BY <1>1, <1>2, <1>5, <1>6, <2>1, <2>2 DEF IInv, BodiesBuilt
<1>10. ConflictsPinned'
  <2> SUFFICES ASSUME phase = "reinfer", NEW g \in Bodies, store[g].conflict
               PROVE  next'[g] = store[g]
    BY <1>1, <1>2 DEF ConflictsPinned
  <2>1. next[g] = store[g]
    BY DEF IInv, ConflictsPinned
  <2>2. g = f => Pinned(f)
    BY <1>5 DEF Pinned
  <2>3. QED
    BY <1>5, <1>6, <2>1, <2>2
<1>11. RoundFollowsStore'
  <2> SUFFICES ASSUME NEW g \in Bodies, phase = "reinfer" => ~store[g].conflict
               PROVE  \/ \A j \in 1 .. position + 1 : unit.functions[j].name # g
                      \/ \E i \in 1 .. position + 1 : BuiltLast(g, i)'
    BY <1>1, <1>2 DEF RoundFollowsStore, BuiltLast
  <2>1. CASE g = f
    <3>1. next'[f] = v
      BY <1>6, <2>1 DEF Pinned
    <3>2. PICK last \in 1 .. position + 1 : last = position + 1
      BY <1>1
    <3>3. BuiltLast(g, last)'
      BY <1>1, <1>2, <2>1, <3>1, <3>2 DEF BuiltLast, v
    <3>4. QED
      BY <3>3
  <2>2. CASE g # f
    <3>1. g \in DOMAIN next => next'[g] = next[g]
      BY <1>6, <2>2
    <3>2. CASE \A j \in 1 .. position : unit.functions[j].name # g
      <4>1. \A j \in 1 .. position + 1 : j \in 1 .. position \/ j = position + 1
        BY <1>1
      <4>2. QED
        BY <2>2, <3>2, <4>1
    <3>3. ASSUME NEW i \in 1 .. position, BuiltLast(g, i)
          PROVE  BuiltLast(g, i)'
      <4>1. unit.functions[i].name = g
        BY <3>3 DEF BuiltLast
      <4>2. g \in DOMAIN next
        BY <1>1, <1>5, <4>1 DEF IInv, BodiesBuilt
      <4>3. QED
        BY <1>1, <2>2, <3>1, <3>3, <4>2 DEF BuiltLast
    <3>4. QED
      BY <1>1, <3>2, <3>3 DEF IInv, RoundFollowsStore
  <2>3. QED
    BY <2>1, <2>2
<1>12. QED
  BY <1>1, <1>7, <1>8, <1>9, <1>10, <1>11 DEF IInv

\* The end of a round: every body has been built in it.
LEMMA RoundComplete ==
    IInv /\ EndRound =>
        /\ Bodies \subseteq DOMAIN next
        /\ \A g \in Bodies : next[g].origin = "BodyVerified"
<1> SUFFICES ASSUME IInv, EndRound
             PROVE  /\ Bodies \subseteq DOMAIN next
                    /\ \A g \in Bodies : next[g].origin = "BodyVerified"
  OBVIOUS
<1>1. unit \in Units /\ phase \in {"infer", "reinfer"} /\ position = Len(unit.functions)
  BY DEF IInv, EndRound, Rounds
<1>2. \A g \in Bodies : \E i \in 1 .. position : unit.functions[i].name = g
  BY <1>1, UnitFacts DEF Bodies
<1>3. Bodies \subseteq DOMAIN next
  BY <1>1, <1>2 DEF IInv, BodiesBuilt
<1>4. QED
  BY <1>3 DEF IInv, BodiesBuilt

LEMMA EndRoundPreserves == IInv /\ EndRound => IInv'
<1> SUFFICES ASSUME IInv, EndRound PROVE IInv'
  OBVIOUS
<1>1. /\ unit' = unit /\ store' = next /\ position' = 0 /\ contract_error' = contract_error
      /\ unit \in Units /\ phase \in {"infer", "reinfer"} /\ Bodies' = Bodies
      /\ \/ phase' = Following(phase) /\ round' = 0 /\ next' = NoSummaries
         \/ phase' = phase /\ round' = round + 1
               /\ next' = IF phase = "infer" THEN NoSummaries ELSE next
  BY DEF IInv, EndRound, Rounds, reviewVars, Bodies
<1>2. Bodies \subseteq DOMAIN next /\ \A g \in Bodies : next[g].origin = "BodyVerified"
  BY RoundComplete
<1>3. DOMAIN NoSummaries = {}
  BY DEF NoSummaries
<1>4. phase' = "reinfer" => next' = next
  BY <1>1 DEF Following
<1>5. TypeOK'
  BY <1>1, <1>3 DEF IInv, TypeOK, Following
<1>6. BodiesWin'
  BY <1>1, <1>2 DEF BodiesWin
<1>7. BodiesBuilt'
  BY <1>1, <1>2, <1>3, <1>4 DEF BodiesBuilt
<1>8. ConflictsPinned' /\ RoundFollowsStore'
  BY <1>1, <1>4 DEF ConflictsPinned, RoundFollowsStore
<1>9. QED
  BY <1>1, <1>5, <1>6, <1>7, <1>8 DEF IInv

\* Annotations add summaries of functions without a body.
LEMMA ReviewAnnotationPreserves == IInv /\ ReviewAnnotation => IInv'
<1> SUFFICES ASSUME IInv, ReviewAnnotation PROVE IInv'
  OBVIOUS
<1> DEFINE a == unit.annotated[position + 1]
           v == annotationSummary(a, unit.externals[a.symbol])
<1>1. /\ unit' = unit /\ phase' = phase /\ phase = "annotations" /\ round' = round /\ next' = next
      /\ position \in Nat /\ position < Len(unit.annotated)
      /\ unit \in Units /\ Bodies' = Bodies
      /\ store' = store \/ store' = With(store, a.symbol, v)
      /\ position' = Len(unit.annotated) \/ position' = position + 1
      /\ contract_error' \in BOOLEAN
  BY DEF IInv, TypeOK, ReviewAnnotation, Bodies
<1>2. /\ IsAnnotated(a) /\ a.symbol \notin Bodies /\ position' \in Nat
  BY <1>1, UnitFacts DEF Bodies
<1>3. v \in FunctionSummary
  BY <1>2, AnnotationSummaryOK
<1> HIDE DEF v
<1>4. /\ StoreOK(store')
      /\ \A f \in Bodies : f \in DOMAIN store => f \in DOMAIN store' /\ store'[f] = store[f]
      /\ DOMAIN store' \subseteq DOMAIN store \cup {a.symbol}
  <2>1. StoreOK(store)
    BY DEF IInv, TypeOK, StoreOK
  <2>2. /\ StoreOK(With(store, a.symbol, v))
        /\ DOMAIN With(store, a.symbol, v) = DOMAIN store \cup {a.symbol}
        /\ \A x \in DOMAIN store : x # a.symbol => With(store, a.symbol, v)[x] = store[x]
    BY <1>3, <2>1 DEF With, StoreOK
  <2>3. CASE store' = store
    BY <2>1, <2>3
  <2>4. CASE store' = With(store, a.symbol, v)
    BY <1>2, <2>2, <2>4
  <2>5. QED
    BY <1>1, <2>3, <2>4
<1>5. TypeOK'
  BY <1>1, <1>2, <1>4 DEF IInv, TypeOK, StoreOK
<1>6. BodiesWin' /\ BodiesBuilt'
  BY <1>1, <1>2, <1>4 DEF IInv, BodiesWin, BodiesBuilt
<1>7. ConflictsPinned' /\ RoundFollowsStore'
  BY <1>1 DEF ConflictsPinned, RoundFollowsStore
<1>8. QED
  BY <1>1, <1>5, <1>6, <1>7 DEF IInv

\* A contract leaves the summary of a body, but for its conflict flag.
LEMMA ApplyContractFacts ==
    IInv /\ ApplyContract =>
        /\ StoreOK(store')
        /\ \A f \in Bodies : /\ f \in DOMAIN store' /\ store'[f].origin = "BodyVerified"
                             /\ store[f].conflict => store'[f].conflict
<1> SUFFICES ASSUME IInv, ApplyContract
             PROVE  /\ StoreOK(store')
                    /\ \A f \in Bodies : /\ f \in DOMAIN store' /\ store'[f].origin = "BodyVerified"
                                         /\ store[f].conflict => store'[f].conflict
  OBVIOUS
<1> DEFINE c == unit.contracts[position + 1]
           d == Declaration(c.symbol)
           v == contracted(Known(c.symbol), c.symbol, c.facts, d)
<1>1. /\ unit \in Units /\ phase = "contracts" /\ StoreOK(store)
      /\ \A f \in Bodies : f \in DOMAIN store /\ store[f].origin = "BodyVerified"
      /\ position \in Nat /\ position < Len(unit.contracts)
      /\ store' = store \/ store' = With(store, c.symbol, v)
  BY DEF IInv, TypeOK, StoreOK, BodiesBuilt, ApplyContract
<1>2. c.facts \in Facts /\ c.symbol \in DOMAIN unit.externals \cup Bodies
  <2>1. position + 1 \in 1 .. Len(unit.contracts)
    BY <1>1, UnitFacts
  <2>2. QED
    BY <1>1, <2>1, UnitFacts DEF Bodies
<1>3. IsDeclaration(d)
  BY <1>1, <1>2, UnitFacts DEF Declaration, Bodies, IsDeclaration, IsFunction
<1>4. Known(c.symbol) \in FunctionSummary
  BY <1>1, <1>3, UnknownSummaryOK DEF Known, StoreOK, IsDeclaration
<1>5. c.symbol \in Bodies => Known(c.symbol) = store[c.symbol]
  BY <1>1 DEF Known
<1> HIDE DEF d
<1>6. /\ v \in FunctionSummary
      /\ Known(c.symbol).origin = "BodyVerified" =>
            v.origin = "BodyVerified" /\ (Known(c.symbol).conflict => v.conflict)
  BY <1>2, <1>3, <1>4, ContractedOK
<1> HIDE DEF v
<1>7. CASE store' = store
  BY <1>1, <1>7
<1>8. CASE store' = With(store, c.symbol, v)
  <2>1. /\ StoreOK(With(store, c.symbol, v))
        /\ DOMAIN With(store, c.symbol, v) = DOMAIN store \cup {c.symbol}
        /\ With(store, c.symbol, v)[c.symbol] = v
        /\ \A x \in DOMAIN store : x # c.symbol => With(store, c.symbol, v)[x] = store[x]
    BY <1>1, <1>6 DEF With, StoreOK
  <2>2. StoreOK(store') /\ Bodies \subseteq DOMAIN store'
    BY <1>1, <1>8, <2>1
  <2>3. ASSUME NEW f \in Bodies, f # c.symbol
        PROVE  store'[f] = store[f]
    BY <1>1, <1>8, <2>1, <2>3
  <2>4. c.symbol \in Bodies => /\ store'[c.symbol].origin = "BodyVerified"
                               /\ store[c.symbol].conflict => store'[c.symbol].conflict
    BY <1>1, <1>5, <1>6, <1>8, <2>1
  <2>5. QED
    BY <1>1, <2>2, <2>3, <2>4
<1>9. QED
  BY <1>1, <1>7, <1>8

LEMMA ApplyContractPreserves == IInv /\ ApplyContract => IInv'
<1> SUFFICES ASSUME IInv, ApplyContract PROVE IInv'
  OBVIOUS
<1>1. /\ unit' = unit /\ phase' = phase /\ phase = "contracts" /\ round' = round /\ next' = next
      /\ position' = position + 1 /\ unit \in Units /\ Bodies' = Bodies
      /\ contract_error' \in BOOLEAN
  BY DEF IInv, TypeOK, ApplyContract, Bodies
<1>2. /\ StoreOK(store')
      /\ \A f \in Bodies : f \in DOMAIN store' /\ store'[f].origin = "BodyVerified"
  BY ApplyContractFacts
<1>3. TypeOK'
  BY <1>1, <1>2 DEF IInv, TypeOK, StoreOK
<1>4. BodiesWin' /\ BodiesBuilt'
  BY <1>1, <1>2 DEF IInv, BodiesWin, BodiesBuilt
<1>5. ConflictsPinned' /\ RoundFollowsStore'
  BY <1>1 DEF ConflictsPinned, RoundFollowsStore
<1>6. QED
  BY <1>1, <1>3, <1>4, <1>5 DEF IInv

LEMMA ListDonePreserves == IInv /\ (AnnotationsDone \/ ContractsDone) => IInv'
<1> SUFFICES ASSUME IInv, AnnotationsDone \/ ContractsDone PROVE IInv'
  OBVIOUS
<1>1. /\ unit' = unit /\ store' = store /\ round' = round /\ position' = 0 /\ Bodies' = Bodies
      /\ contract_error' = contract_error /\ phase \in {"annotations", "contracts"}
      /\ \/ phase' = "contracts" /\ next' = next
         \/ phase' = "reinfer" /\ next' = store
  BY DEF AnnotationsDone, ContractsDone, reviewVars, Bodies
<1>2. \A f \in Bodies : f \in DOMAIN store /\ store[f].origin = "BodyVerified"
  BY <1>1 DEF IInv, BodiesBuilt
<1>3. TypeOK'
  BY <1>1 DEF IInv, TypeOK
<1>4. BodiesWin'
  BY <1>1 DEF IInv, BodiesWin
<1>5. BodiesBuilt'
  BY <1>1, <1>2 DEF IInv, BodiesBuilt
<1>6. ConflictsPinned' /\ RoundFollowsStore'
  BY <1>1 DEF ConflictsPinned, RoundFollowsStore
<1>7. QED
  BY <1>1, <1>3, <1>4, <1>5, <1>6 DEF IInv

LEMMA NextPreserves == IInv /\ [Next]_vars => IInv'
<1> SUFFICES ASSUME IInv, [Next]_vars PROVE IInv'
  OBVIOUS
<1>1. CASE UNCHANGED vars
  BY <1>1 DEF vars, IInv, TypeOK, BodiesWin, BodiesBuilt, ConflictsPinned,
              RoundFollowsStore, BuiltLast, Bodies
<1>2. QED
  BY <1>1, BuildPreserves, EndRoundPreserves, ReviewAnnotationPreserves,
     ApplyContractPreserves, ListDonePreserves DEF Next

LEMMA Invariant == Spec => []IInv
  BY Initially, NextPreserves, PTL DEF Spec

\* What a round makes of a body it does not pin.
LEMMA RoundBuilds ==
    ASSUME IInv, EndRound, NEW f \in Bodies, phase = "reinfer" => ~store[f].conflict
    PROVE  next[f] = build(unit.bodies[f], DefinitionLast(f), store)
<1>0. position = Len(unit.functions)
  BY DEF EndRound
<1>1. unit \in Units
  BY DEF IInv
<1>2. \E j \in 1 .. position : unit.functions[j].name = f
  BY <1>0, <1>1, UnitFacts DEF Bodies
<1>3. PICK i \in 1 .. position : BuiltLast(f, i)
  BY <1>2 DEF IInv, RoundFollowsStore, EndRound, Rounds
<1>4. /\ DOMAIN unit.functions = 1 .. position /\ position \in Nat
      /\ \A j \in 1 .. position :
            /\ unit.functions[j].definition \in BOOLEAN
            /\ unit.functions[j] = [name |-> unit.functions[j].name,
                                   definition |-> unit.functions[j].definition]
  BY <1>0, <1>1, UnitFacts
<1>5. /\ unit.functions[i].name = f
      /\ \A j \in 1 .. position : j > i => unit.functions[j].name # f
      /\ next[f] = build(unit.bodies[f], unit.functions[i].definition, store)
  BY <1>3 DEF BuiltLast
<1>6. DefinitionLast(f) = unit.functions[i].definition
  <2>1. CASE unit.functions[i].definition
    <3>1. unit.functions[i] = [name |-> f, definition |-> TRUE]
      BY <1>4, <1>5, <2>1
    <3>2. DefinitionLast(f)
      BY <1>4, <1>5, <3>1 DEF DefinitionLast
    <3>3. QED
      BY <1>4, <2>1, <3>2 DEF DefinitionLast
  <2>2. CASE ~unit.functions[i].definition
    <3>1. ASSUME NEW k \in DOMAIN unit.functions,
                 unit.functions[k] = [name |-> f, definition |-> TRUE],
                 \A j \in DOMAIN unit.functions : j > k => unit.functions[j].name # f
          PROVE  FALSE
      <4>1. unit.functions[k].name = f /\ unit.functions[k].definition = TRUE
        BY <3>1
      <4>2. k = i
        BY <1>4, <1>5, <3>1, <4>1
      <4>3. QED
        BY <2>2, <4>1, <4>2
    <3>2. DefinitionLast(f) = FALSE
      BY <3>1 DEF DefinitionLast
    <3>3. QED
      BY <1>4, <2>2, <3>2
  <2>3. QED
    BY <2>1, <2>2
<1>7. QED
  BY <1>0, <1>5, <1>6 DEF Solves

-----------------------------------------------------------------------------
(* Units without recursion *)

\* The functions code names at an event that looks them up.
CalledBy(code) == {code[n].fn : n \in {m \in 1 .. Len(code) : code[m].op \in Calling}}

\* The bodies in an order in which callees come before their callers: numbers
\* up to the number of declarations are enough for that.
CalleesFirst(u, rank) ==
    \A f \in DOMAIN u.bodies : \A g \in CalledBy(u.bodies[f].code) :
        g \in DOMAIN u.bodies => rank[g] < rank[f]

\* No function of u calls itself, be it through others.
NonRecursive(u) ==
    \E rank \in [DOMAIN u.bodies -> 1 .. Len(u.functions)] : CalleesFirst(u, rank)

Rank(u) == CHOOSE rank \in [DOMAIN u.bodies -> 1 .. Len(u.functions)] : CalleesFirst(u, rank)

\* What the second rounds have done with a summary that changes no more.
AtRest(st, f) == st[f].conflict \/ Solves(st, f)

\* A round settles one more rank: the callees have been at rest for a round.
RoundsSettle ==
    /\ phase \in {"annotations", "contracts"} => round = 0
    /\ phase = "reinfer" =>
          /\ \A x : x \notin Bodies => SameFor(x, store, next)
          /\ \A f \in Bodies : Rank(unit)[f] <= round => AtRest(store, f)
    /\ ConvergedOrClosed

LEMMA RankFacts ==
    ASSUME NEW u \in Units, NonRecursive(u)
    PROVE  /\ \A f \in DOMAIN u.bodies : Rank(u)[f] \in 1 .. Len(u.functions)
           /\ CalleesFirst(u, Rank(u))
  BY DEF NonRecursive, Rank

\* A function whose callees are at rest is at rest after the round.
LEMMA RestSpreads ==
    ASSUME IInv, EndRound, phase = "reinfer",
           \A x : x \notin Bodies => SameFor(x, store, next),
           NEW f \in Bodies,
           \A g \in CalledBy(unit.bodies[f].code) : g \in Bodies => AtRest(store, g)
    PROVE  AtRest(next, f)
<1>1. /\ unit \in Units /\ StoreOK(store) /\ StoreOK(next) /\ Bodies \subseteq DOMAIN next
      /\ \A g \in Bodies : g \in DOMAIN store
      /\ \A g \in Bodies : store[g].conflict => next[g] = store[g]
  BY RoundComplete DEF IInv, TypeOK, StoreOK, BodiesBuilt, ConflictsPinned
<1>2. IsFunction(unit.bodies[f])
  BY <1>1, UnitFacts DEF Bodies
<1>3. CASE store[f].conflict
  BY <1>1, <1>3 DEF AtRest
<1>4. CASE ~store[f].conflict
  <2>1. ASSUME NEW g \in CalledBy(unit.bodies[f].code), g \in Bodies
        PROVE  SameFor(g, store, next)
    <3>1. CASE store[g].conflict
      BY <1>1, <2>1, <3>1 DEF SameFor
    <3>2. CASE ~store[g].conflict
      <4>1. Solves(store, g)
        BY <2>1, <3>2 DEF AtRest
      <4>2. next[g] = build(unit.bodies[g], DefinitionLast(g), store)
        BY <2>1, <3>2, RoundBuilds
      <4>3. QED
        BY <1>1, <2>1, <4>1, <4>2 DEF Solves, SameFor
    <3>3. QED
      BY <3>1, <3>2
  <2>2. Agree(unit.bodies[f].code, store, next)
    BY <2>1 DEF Agree, CalledBy
  <2>3. build(unit.bodies[f], DefinitionLast(f), store) = build(unit.bodies[f], DefinitionLast(f), next)
    BY <1>1, <1>2, <2>2, BuildAgrees
  <2>4. next[f] = build(unit.bodies[f], DefinitionLast(f), store)
    BY <1>4, RoundBuilds
  <2>5. QED
    BY <2>3, <2>4 DEF Solves, AtRest
<1>5. QED
  BY <1>3, <1>4

LEMMA EndRoundSettles ==
    ASSUME IInv, RoundsSettle, EndRound, NonRecursive(unit)
    PROVE  RoundsSettle'
<1>1. /\ unit' = unit /\ store' = next /\ Bodies' = Bodies
      /\ unit \in Units /\ phase \in {"infer", "reinfer"} /\ round \in Nat
      /\ position = Len(unit.functions)
      /\ \/ phase' = Following(phase) /\ round' = 0 /\ next' = NoSummaries /\ (Stable \/ LastRound)
         \/ phase' = phase /\ round' = round + 1
               /\ next' = IF phase = "infer" THEN NoSummaries ELSE next
  BY DEF IInv, TypeOK, EndRound, Rounds, reviewVars, Bodies
<1>2. CASE phase = "infer"
  <2>1. phase' \in {"infer", "annotations"} /\ (phase' = "annotations" => round' = 0)
    BY <1>1, <1>2 DEF Following
  <2>2. QED
    BY <2>1 DEF RoundsSettle, ConvergedOrClosed
<1>3. CASE phase = "reinfer"
  <2>1. \A x : x \notin Bodies => SameFor(x, store, next)
    BY <1>3 DEF RoundsSettle
  <2>2. \A f \in Bodies : Rank(unit)[f] \in 1 .. Len(unit.functions)
    BY <1>1, RankFacts DEF Bodies
  <2>3. ASSUME NEW f \in Bodies, Rank(unit)[f] <= round + 1
        PROVE  AtRest(next, f)
    <3>1. ASSUME NEW g \in CalledBy(unit.bodies[f].code), g \in Bodies
          PROVE  AtRest(store, g)
      <4>1. Rank(unit)[g] < Rank(unit)[f]
        BY <1>1, <3>1, RankFacts DEF CalleesFirst, Bodies
      <4>2. Rank(unit)[g] <= round
        BY <1>1, <2>2, <2>3, <3>1, <4>1
      <4>3. QED
        BY <1>3, <3>1, <4>2 DEF RoundsSettle
    <3>2. QED
      BY <1>3, <2>1, <3>1, RestSpreads
  <2>5. \A st, f : Solves(st, f) <=> st[f] = build(unit'.bodies[f], DefinitionLast(f)', st)
    BY <1>1 DEF Solves, DefinitionLast
  <2>6. CASE phase' = "done"
    <3>1. ASSUME NEW f \in Bodies
          PROVE  AtRest(next, f)
      <4>1. CASE LastRound
        <5>1. Rank(unit)[f] <= round + 1
          BY <1>1, <2>2, <4>1 DEF LastRound
        <5>2. QED
          BY <2>3, <5>1
      <4>2. CASE Stable
        BY <1>3, <4>2, RoundBuilds DEF Stable, AtRest, Solves
      <4>3. QED
        BY <1>1, <1>3, <2>6, <4>1, <4>2
    <3>2. ConvergedOrClosed'
      BY <1>1, <2>5, <3>1 DEF ConvergedOrClosed, AtRest, Solves
    <3>3. QED
      BY <2>6, <3>2 DEF RoundsSettle
  <2>7. CASE phase' = "reinfer"
    <3>1. round' = round + 1 /\ next' = next
      BY <1>1, <1>3, <2>7 DEF Following
    <3>2. ASSUME NEW x PROVE SameFor(x, next, next)
      BY DEF SameFor
    <3>3. \A x : SameFor(x, store', next')
      BY <1>1, <3>1, <3>2
    <3>4. \A f \in Bodies' : Rank(unit')[f] <= round' => AtRest(store, f)'
      BY <1>1, <2>3, <2>5, <3>1 DEF AtRest, Solves
    <3>5. QED
      BY <2>7, <3>3, <3>4 DEF RoundsSettle, ConvergedOrClosed
  <2>8. QED
    BY <1>1, <1>3, <2>6, <2>7 DEF Following
<1>4. QED
  BY <1>1, <1>2, <1>3

\* A step that keeps the unit, the phase, the round and the store.
LEMMA StoreKeptSettles ==
    ASSUME RoundsSettle, unit' = unit, phase' = phase, round' = round, store' = store,
           phase = "reinfer" => \A x : x \notin Bodies => SameFor(x, store', next')
    PROVE  RoundsSettle'
<1>1. Bodies' = Bodies
  BY DEF Bodies
<1>2. \A f : Solves(store, f)' <=> Solves(store, f)
  BY DEF Solves, DefinitionLast
<1>3. \A f : AtRest(store, f)' <=> AtRest(store, f)
  BY <1>2 DEF AtRest
<1>4. ConvergedOrClosed'
  <2>1. ConvergedOrClosed
    BY DEF RoundsSettle
  <2>2. QED
    BY <2>1, <1>1, <1>2 DEF ConvergedOrClosed
<1>5. phase' \in {"annotations", "contracts"} => round' = 0
  BY DEF RoundsSettle
<1>6. ASSUME phase' = "reinfer", NEW f \in Bodies', Rank(unit')[f] <= round'
      PROVE  AtRest(store, f)'
  <2>1. phase = "reinfer" /\ f \in Bodies /\ Rank(unit)[f] <= round
    BY <1>1, <1>6
  <2>2. AtRest(store, f)
    BY <2>1 DEF RoundsSettle
  <2>3. QED
    BY <1>3, <2>2
<1>7. phase' = "reinfer" => \A x : x \notin Bodies' => SameFor(x, store', next')
  BY <1>1
<1>8. QED
  BY <1>4, <1>5, <1>6, <1>7 DEF RoundsSettle

LEMMA NextSettles ==
    ASSUME IInv, RoundsSettle, [Next]_vars, NonRecursive(unit)
    PROVE  RoundsSettle'
<1>1. CASE UNCHANGED vars
  <2>1. /\ unit' = unit /\ phase' = phase /\ round' = round
        /\ store' = store /\ next' = next
    BY <1>1 DEF vars
  <2>2. phase = "reinfer" => \A x : x \notin Bodies => SameFor(x, store', next')
    BY <2>1 DEF RoundsSettle
  <2>3. QED
    BY <2>1, <2>2, StoreKeptSettles
<1>2. CASE Build
  <2> DEFINE declared == unit.functions[position + 1]
             f == declared.name
             v == build(unit.bodies[f], declared.definition, store)
  <2>1. /\ unit' = unit /\ phase' = phase /\ round' = round /\ store' = store
        /\ next' = next \/ next' = With(next, f, v)
    BY <1>2 DEF Build
  <2>2. f \in Bodies
    <3>1. /\ unit \in Units
          /\ position \in Nat /\ position < Len(unit.functions)
      BY <1>2 DEF IInv, TypeOK, Build
    <3>2. position + 1 \in 1 .. Len(unit.functions)
      BY <3>1, UnitFacts
    <3>3. QED
      BY <3>1, <3>2, UnitFacts DEF Bodies
  <2> HIDE DEF v
  <2>3. ASSUME phase = "reinfer", NEW x, x \notin Bodies
        PROVE  SameFor(x, store', next')
    <3>1. SameFor(x, store, next) /\ x # f
      BY <2>2, <2>3 DEF RoundsSettle
    <3>2. DOMAIN With(next, f, v) = DOMAIN next \cup {f}
      BY DEF With
    <3>3. x \in DOMAIN next => With(next, f, v)[x] = next[x]
      BY <3>1 DEF With
    <3>4. QED
      BY <2>1, <3>1, <3>2, <3>3 DEF SameFor
  <2>4. QED
    BY <2>1, <2>3, StoreKeptSettles
<1>3. CASE EndRound
  BY <1>3, EndRoundSettles
<1>4. CASE ReviewAnnotation \/ AnnotationsDone \/ ApplyContract
  <2>1. phase \in {"annotations", "contracts"}
    BY <1>4 DEF ReviewAnnotation, AnnotationsDone, ApplyContract
  <2>2. phase' \in {"annotations", "contracts"} /\ round' = round
    BY <1>4 DEF ReviewAnnotation, AnnotationsDone, ApplyContract
  <2>3. round = 0
    BY <2>1 DEF RoundsSettle
  <2>4. QED
    BY <2>2, <2>3 DEF RoundsSettle, ConvergedOrClosed
<1>5. CASE ContractsDone
  <2>1. /\ unit' = unit /\ round' = 0 /\ phase' = "reinfer" /\ store' = store /\ next' = store
        /\ unit \in Units
    BY <1>5 DEF ContractsDone, RoundsSettle, IInv
  <2>2. \A f \in Bodies' : ~(Rank(unit')[f] <= round')
    <3>1. \A f \in DOMAIN unit.bodies : Rank(unit)[f] \in 1 .. Len(unit.functions)
      BY <2>1, RankFacts
    <3>2. QED
      BY <2>1, <3>1, UnitFacts DEF Bodies
  <2>3. \A x : SameFor(x, store', next')
    BY <2>1 DEF SameFor
  <2>4. QED
    BY <2>1, <2>2, <2>3 DEF RoundsSettle, ConvergedOrClosed
<1>6. QED
  BY <1>1, <1>2, <1>3, <1>4, <1>5 DEF Next

-----------------------------------------------------------------------------
(* The length of a summary *)

\* The summary of a body speaks of each of its parameters and of no other.
Sized(st) ==
    \A f \in Bodies \cap DOMAIN st : DOMAIN st[f].params = 1 .. unit.bodies[f].arity

BodiesSized == Sized(store) /\ Sized(next)

LEMMA BuildSized ==
    ASSUME NEW f, NEW definition, NEW st
    PROVE  DOMAIN build(f, definition, st).params = 1 .. f.arity
  BY DEF build, AllUnknown

LEMMA InitiallySized == Init => BodiesSized
  BY DEF Init, BodiesSized, Sized, NoSummaries, unknownSummary, AllUnknown

LEMMA WithSized ==
    ASSUME NEW st, Sized(st), NEW x, NEW v,
           x \in Bodies => DOMAIN v.params = 1 .. unit.bodies[x].arity
    PROVE  Sized(With(st, x, v))
  BY DEF Sized, With

LEMMA NextSized ==
    ASSUME IInv, BodiesSized, [Next]_vars
    PROVE  BodiesSized'
<1>1. unit' = unit
  BY DEF Next, vars, Build, EndRound, ReviewAnnotation, AnnotationsDone, ApplyContract, ContractsDone
<1>2. Sized(NoSummaries)
  BY DEF Sized, NoSummaries
<1>3. \A st : Sized(st) <=> \A f \in Bodies' \cap DOMAIN st :
                               DOMAIN st[f].params = 1 .. unit'.bodies[f].arity
  BY <1>1 DEF Sized, Bodies
<1>4. SUFFICES Sized(store') /\ Sized(next')
  BY <1>3 DEF BodiesSized, Sized
<1>5. CASE UNCHANGED vars
  BY <1>5 DEF vars, BodiesSized
<1>6. CASE Build
  <2> DEFINE declared == unit.functions[position + 1]
             v == build(unit.bodies[declared.name], declared.definition, store)
  <2>1. Sized(With(next, declared.name, v))
    BY BuildSized, WithSized DEF BodiesSized
  <2>2. store' = store /\ (next' = next \/ next' = With(next, declared.name, v))
    BY <1>6 DEF Build
  <2>3. QED
    BY <2>1, <2>2 DEF BodiesSized
<1>7. CASE EndRound
  BY <1>2, <1>7 DEF EndRound, BodiesSized
<1>8. CASE ReviewAnnotation
  <2> DEFINE a == unit.annotated[position + 1]
             v == annotationSummary(a, unit.externals[a.symbol])
  <2>1. a.symbol \notin Bodies
    <3>1. position + 1 \in 1 .. Len(unit.annotated) /\ unit \in Units
      BY <1>8, UnitFacts DEF IInv, TypeOK, ReviewAnnotation
    <3>2. QED
      BY <3>1, UnitFacts DEF Bodies
  <2>2. Sized(With(store, a.symbol, v))
    BY <2>1, WithSized DEF BodiesSized
  <2>3. next' = next /\ (store' = store \/ store' = With(store, a.symbol, v))
    BY <1>8 DEF ReviewAnnotation
  <2>4. QED
    BY <2>2, <2>3 DEF BodiesSized
<1>9. CASE ApplyContract
  <2> DEFINE c == unit.contracts[position + 1]
             v == contracted(Known(c.symbol), c.symbol, c.facts, Declaration(c.symbol))
  <2>1. c.symbol \in Bodies => DOMAIN v.params = 1 .. unit.bodies[c.symbol].arity
    <3> SUFFICES ASSUME c.symbol \in Bodies
                 PROVE  DOMAIN v.params = 1 .. unit.bodies[c.symbol].arity
      OBVIOUS
    <3>1. /\ c.symbol \in DOMAIN store /\ store[c.symbol].origin = "BodyVerified"
          /\ Known(c.symbol) = store[c.symbol] /\ store[c.symbol] \in FunctionSummary
      BY <1>9 DEF IInv, TypeOK, BodiesBuilt, ApplyContract, Known
    <3>2. v.params = store[c.symbol].params
      BY <3>1 DEF contracted, FunctionSummary
    <3>3. QED
      BY <3>1, <3>2 DEF BodiesSized, Sized
  <2>2. Sized(With(store, c.symbol, v))
    BY <2>1, WithSized DEF BodiesSized
  <2>3. next' = next /\ (store' = store \/ store' = With(store, c.symbol, v))
    BY <1>9 DEF ApplyContract
  <2>4. QED
    BY <2>2, <2>3 DEF BodiesSized
<1>10. CASE AnnotationsDone \/ ContractsDone
  BY <1>10 DEF AnnotationsDone, ContractsDone, BodiesSized
<1>11. QED
  BY <1>5, <1>6, <1>7, <1>8, <1>9, <1>10 DEF Next

LEMMA SizedInvariant == Spec => []BodiesSized
  BY Invariant, InitiallySized, NextSized, PTL DEF Spec

-----------------------------------------------------------------------------
(* Effects that cannot be lost *)

\* What a caller may not take for a borrow or for nothing.
Lasting == Consuming \cup {"Unknown"}

\* What is left of a parameter that was taken over.
Taken == {"TakeOwnership", "Unknown"}

Kinds == {Lasting, Taken}

LEMMA CombinedLasts ==
    ASSUME NEW K \in Kinds, NEW old \in ParamEffect, NEW new \in ParamEffect, old \in K \/ new \in K
    PROVE  Combined(old, new) \in K
  BY DEF Combined, Kinds, Lasting, Taken, Consuming, ParamEffect

LEMMA PassedLasts ==
    ASSUME NEW K \in Kinds, NEW old \in ParamEffect, old \in K, NEW i, NEW arg,
           NEW effect \in ParamEffect, NEW conditional
    PROVE  passed(old, i, arg, effect, conditional) \in K
<1>1. Kept(effect, conditional) \in ParamEffect
  BY DEF Kept, ParamEffect
<1>2. QED
  BY <1>1, CombinedLasts DEF passed, Kinds, Lasting, Taken

LEMMA CalledLasts ==
    ASSUME NEW K \in Kinds, NEW st, StoreOK(st), NEW old \in ParamEffect, old \in K, NEW i,
           NEW e, Len(e.args) \in Nat
    PROVE  called(old, i, e, st) \in K
<1>1. PICK after : CallTrace(after, old, i, e, st)
  BY CalledTrace
<1>2. \A n \in 1 .. Len(e.args) : after[n - 1] \in K => after[n] \in K
  <2> SUFFICES ASSUME NEW n \in 1 .. Len(e.args), after[n - 1] \in K
               PROVE  after[n] \in K
    OBVIOUS
  <2>1. after[n - 1] \in ParamEffect /\ CalleeEffect(e, n, st) \in ParamEffect
    <3>1. n - 1 \in 0 .. Len(e.args)
      OBVIOUS
    <3>2. QED
      BY <1>1, <3>1, CalleeEffectOK DEF CallTrace
  <2>2. QED
    BY <1>1, <2>1, PassedLasts DEF CallTrace
<1>3. after[0] \in K
  BY <1>1 DEF CallTrace
<1>4. \A n \in 0 .. Len(e.args) : after[n] \in K
  BY <1>2, <1>3, StaysInSet
<1>5. QED
  BY <1>1, <1>4 DEF CallTrace

\* A call that passes the object parameter i was given to a place that consumes
\* it does so to i, or makes it Unknown.
LEMMA CalledConsumes ==
    ASSUME NEW K \in Kinds, NEW st, StoreOK(st), NEW old \in ParamEffect, NEW arity \in Nat, NEW i \in 1 .. arity,
           NEW e, IsCall(e, arity), NEW j \in DOMAIN e.args, Holds(e.args[j], i),
           CalleeEffect(e, j, st) \in K \ {"Unknown"}
    PROVE  called(old, i, e, st) \in K
<1>1. /\ Len(e.args) \in Nat /\ DOMAIN e.args = 1 .. Len(e.args)
      /\ IsArgument(e.args[j], arity)
  BY DEF IsCall
<1>2. PICK after : CallTrace(after, old, i, e, st)
  BY <1>1, CalledTrace
<1>3. \A n \in 1 .. Len(e.args) : after[n - 1] \in ParamEffect /\ CalleeEffect(e, n, st) \in ParamEffect
  <2> SUFFICES ASSUME NEW n \in 1 .. Len(e.args)
               PROVE  after[n - 1] \in ParamEffect /\ CalleeEffect(e, n, st) \in ParamEffect
    OBVIOUS
  <2>1. n - 1 \in 0 .. Len(e.args)
    BY <1>1
  <2>2. QED
    BY <1>2, <2>1, CalleeEffectOK DEF CallTrace
<1>4. after[j] \in K
  <2> DEFINE effect == CalleeEffect(e, j, st)
  <2>0. effect \in Consuming
    BY DEF Kinds, Lasting, Taken, Consuming
  <2>1. Currents(e.args[j], effect) = {i}
    <3> DEFINE arg == e.args[j]
    <3>1. IsArgument(arg, arity) /\ Holds(arg, i)
      BY <1>1
    <3> HIDE DEF arg, effect
    <3>2. arg.direct = i => Currents(arg, effect) = {i}
      BY <3>1 DEF Currents, Holds, IsArgument
    <3>3. arg.alias = i => Currents(arg, effect) = {i}
      BY <2>0, <3>1 DEF Currents, Holds, IsArgument
    <3>4. Currents(arg, effect) = {i}
      BY <3>1, <3>2, <3>3 DEF Holds
    <3>5. QED
      BY <3>4 DEF arg
  <2>2. Kept(effect, e.conditional) \in K /\ Kept(effect, e.conditional) \in ParamEffect
    BY DEF Kept, Kinds, Lasting, Taken, Consuming, ParamEffect
  <2>3. after[j - 1] \in ParamEffect
    BY <1>1, <1>3
  <2>4. Combined(after[j - 1], Kept(effect, e.conditional)) \in K
    BY <2>2, <2>3, CombinedLasts
  <2>5. after[j] = passed(after[j - 1], i, e.args[j], effect, e.conditional)
    BY <1>1, <1>2 DEF CallTrace
  <2>6. QED
    BY <2>1, <2>4, <2>5 DEF passed
<1>5. \A n \in (j + 1) .. Len(e.args) : after[n - 1] \in K => after[n] \in K
  <2> SUFFICES ASSUME NEW n \in (j + 1) .. Len(e.args), after[n - 1] \in K
               PROVE  after[n] \in K
    OBVIOUS
  <2>1. n \in 1 .. Len(e.args)
    BY <1>1
  <2>2. QED
    BY <1>2, <1>3, <2>1, PassedLasts DEF CallTrace
<1>6. j \in 0 .. Len(e.args)
  BY <1>1
<1>7. after[Len(e.args)] \in K
  BY <1>1, <1>4, <1>5, <1>6, StaysInSetFrom
<1>8. QED
  BY <1>2, <1>7 DEF CallTrace

LEMMA EffectsLast ==
    ASSUME NEW K \in Kinds, NEW st, StoreOK(st), NEW f, NEW i, f.annotated[i] \in ParamEffect,
           NEW code, NEW arity, CodeOK(code, arity),
           NEW n \in 0 .. Len(code), effects(i, code, f, st)[n] \in K
    PROVE  effects(i, code, f, st)[Len(code)] \in K
<1> DEFINE after == effects(i, code, f, st)
<1>1. /\ \A k \in 1 .. Len(code) : after[k] = AfterEvent(after[k - 1], i, code[k], f, st)
      /\ \A k \in 0 .. Len(code) : after[k] \in ParamEffect
      /\ after[n] \in K
  BY EffectsTrace
<1> HIDE DEF after
<1>2. Len(code) \in Nat
  BY DEF CodeOK
<1>3. \A k \in (n + 1) .. Len(code) : after[k - 1] \in K => after[k] \in K
  <2> SUFFICES ASSUME NEW k \in (n + 1) .. Len(code), after[k - 1] \in K
               PROVE  after[k] \in K
    OBVIOUS
  <2>1. k \in 1 .. Len(code) /\ k - 1 \in 0 .. Len(code)
    BY <1>2
  <2>2. touched(after[k - 1], i, code[k], f.indirect) \in K
    BY DEF touched, Kinds, Lasting, Taken, Consuming
  <2>3. code[k].op = "call" => called(after[k - 1], i, code[k], st) \in K
    BY <1>1, <2>1, CalledLasts DEF CodeOK, EventOK
  <2>4. QED
    BY <1>1, <2>1, <2>2, <2>3 DEF AfterEvent
<1>4. after[Len(code)] \in K
  BY <1>1, <1>2, <1>3, StaysInSetFrom
<1>5. QED
  BY <1>4 DEF after

-----------------------------------------------------------------------------
(* What bodies destroy *)

\* The units whose definitions are not followed by another declaration of the
\* same function, and that leave the library's functions alone.
Orderly(u) ==
    /\ \A f \in DOMAIN u.bodies : \E i \in DOMAIN u.functions :
          /\ u.functions[i] = [name |-> f, definition |-> TRUE]
          /\ \A j \in DOMAIN u.functions : j > i => u.functions[j].name # f
    /\ {"free", "malloc"} \cap DOMAIN u.bodies = {}
    /\ \A f \in DOMAIN u.bodies : \A n \in 1 .. Len(u.bodies[f].code) :
          LET e == u.bodies[f].code[n]
          IN  (e.op = "call" /\ e.fn = "free") => Len(e.args) = 1

\* The summary of a parameter does not hide that its object may be consumed.
Admitted(p) == store[p[1]].conflict \/ store[p[1]].params[p[2]] \in Lasting

LEMMA BuiltParameters ==
    ASSUME IInv, Orderly(unit), NEW f \in Bodies, ~store[f].conflict, Solves(store, f)
    PROVE  /\ store[f].params =
                [i \in 1 .. Arity(f) |-> effects(i, unit.bodies[f].code, unit.bodies[f], store)
                                            [Len(unit.bodies[f].code)]]
           /\ CodeOK(unit.bodies[f].code, Arity(f))
           /\ \A i \in 1 .. Arity(f) : unit.bodies[f].annotated[i] \in ParamEffect
<1>1. DefinitionLast(f)
  BY DEF Orderly, DefinitionLast, Bodies
<1>2. VisibleCode(unit.bodies[f], DefinitionLast(f)) = unit.bodies[f].code
  BY <1>1 DEF VisibleCode
<1>3. store[f] = build(unit.bodies[f], DefinitionLast(f), store)
  BY DEF Solves
<1>4. store[f].params =
        [i \in 1 .. Arity(f) |-> effects(i, unit.bodies[f].code, unit.bodies[f], store)
                                    [Len(unit.bodies[f].code)]]
  <2> DEFINE result == results(unit.bodies[f].code, unit.bodies[f], store)[Len(unit.bodies[f].code)]
  <2>1. store[f].conflict = result.conflict
    BY <1>2, <1>3 DEF build
  <2> HIDE DEF result
  <2>2. ~result.conflict
    BY <2>1
  <2>3. QED
    BY <1>2, <1>3, <2>2 DEF build, Arity, result
<1>5. IsFunction(unit.bodies[f])
  BY UnitFacts DEF IInv, Bodies
<1>6. CodeOK(unit.bodies[f].code, Arity(f))
  BY <1>2, <1>5, VisibleCodeOK DEF Arity
<1>7. QED
  BY <1>4, <1>5, <1>6 DEF IsFunction, Arity

\* A parameter whose object a call of the body passes to a place that consumes
\* it, in a function whose summary was built under the store.
LEMMA CallConsumes ==
    ASSUME IInv, Orderly(unit), NEW f \in Bodies, ~store[f].conflict, Solves(store, f),
           NEW i \in 1 .. Arity(f), NEW e \in Calls(f), NEW j \in DOMAIN e.args, Holds(e.args[j], i),
           NEW K \in Kinds, CalleeEffect(e, j, store) \in K \ {"Unknown"}
    PROVE  store[f].params[i] \in K
<1> DEFINE b == unit.bodies[f]
           after == effects(i, b.code, b, store)
<1>1. IsFunction(b)
  BY UnitFacts DEF IInv, Bodies
<1>2. PICK n \in 1 .. Len(b.code) : e = b.code[n]
  BY <1>1 DEF Calls, Code, Range, IsFunction
<1>3. e.op = "call" /\ IsCall(e, Arity(f))
  BY <1>1, <1>2 DEF Calls, IsFunction, IsEvent, Arity
<1>4. StoreOK(store)
  BY DEF IInv, TypeOK, StoreOK
<1>5. /\ store[f].params = [k \in 1 .. Arity(f) |-> effects(k, b.code, b, store)[Len(b.code)]]
      /\ CodeOK(b.code, Arity(f)) /\ b.annotated[i] \in ParamEffect
  BY BuiltParameters
<1>6. /\ after[n] = AfterEvent(after[n - 1], i, e, b, store)
      /\ \A k \in 0 .. Len(b.code) : after[k] \in ParamEffect
  BY <1>2, <1>4, <1>5, EffectsTrace
<1> HIDE DEF after
<1>7. n \in 0 .. Len(b.code) /\ n - 1 \in 0 .. Len(b.code)
  BY <1>1 DEF IsFunction
<1>8. after[n] = called(after[n - 1], i, e, store)
  BY <1>3, <1>6 DEF AfterEvent
<1>9. Arity(f) \in Nat
  BY <1>1 DEF IsFunction, Arity
<1>10. after[n] \in K
  BY <1>3, <1>4, <1>6, <1>7, <1>8, <1>9, CalledConsumes
<1>11. after[Len(b.code)] \in K
  BY <1>4, <1>5, <1>7, <1>10, EffectsLast DEF after
<1>12. store[f].params[i] = after[Len(b.code)]
  BY <1>5 DEF after
<1>13. QED
  BY <1>11, <1>12

LEMMA CallAdmits ==
    ASSUME IInv, BodiesSized, Orderly(unit), ConvergedOrClosed, phase = "done",
           NEW f \in Bodies, NEW i \in 1 .. Arity(f), NEW e \in Calls(f),
           NEW j \in DOMAIN e.args, Holds(e.args[j], i), CalleeEffect(e, j, store) \in Consuming
    PROVE  Admitted(<<f, i>>)
<1>1. Lasting \in Kinds /\ CalleeEffect(e, j, store) \in Lasting \ {"Unknown"}
  BY DEF Kinds, Lasting, Consuming
<1>2. CASE store[f].conflict
  BY <1>2 DEF Admitted
<1>3. CASE ~store[f].conflict /\ Solves(store, f)
  BY <1>1, <1>3, CallConsumes DEF Admitted
<1>4. CASE ~store[f].conflict /\ ~Solves(store, f)
  <2>1. \A k \in DOMAIN store[f].params : store[f].params[k] = "Unknown"
    BY <1>4 DEF ConvergedOrClosed
  <2>2. i \in DOMAIN store[f].params
    BY DEF BodiesSized, Sized, Arity, IInv, BodiesBuilt
  <2>3. QED
    BY <2>1, <2>2 DEF Admitted, Lasting
<1>5. QED
  BY <1>2, <1>3, <1>4

-----------------------------------------------------------------------------
(* What is passed up *)

LEMMA BodiesFinite ==
    ASSUME unit \in Units
    PROVE  IsFiniteSet(Bodies)
<1> DEFINE N == Len(unit.functions)
           named == [k \in 1 .. N |-> unit.functions[k].name]
<1>1. N \in Nat /\ named \in [1 .. N -> Bodies] /\ \A f \in Bodies : \E k \in 1 .. N : named[k] = f
  BY UnitFacts DEF Bodies
<1> HIDE DEF named
<1>2. named \in Surjection(1 .. N, Bodies)
  BY <1>1 DEF Surjection
<1>3. IsFiniteSet(1 .. N)
  BY <1>1, FS_Interval
<1>4. QED
  BY <1>2, <1>3, FS_Surjection

LEMMA PositionsFinite ==
    ASSUME unit \in Units
    PROVE  Cardinality(Positions) \in Nat
<1>1. IsFiniteSet(Bodies)
  BY BodiesFinite
<1>2. \A f \in Bodies : IsFiniteSet({f} \X (1 .. Arity(f)))
  <2> SUFFICES ASSUME NEW f \in Bodies PROVE IsFiniteSet({f} \X (1 .. Arity(f)))
    OBVIOUS
  <2>1. Arity(f) \in Nat
    BY UnitFacts DEF Bodies, Arity, IsFunction
  <2>2. IsFiniteSet(1 .. Arity(f))
    BY <2>1, FS_Interval
  <2>3. IsFiniteSet({f})
    BY FS_Singleton
  <2>4. QED
    BY <2>2, <2>3, FS_Product
<1> DEFINE rows == [f \in Bodies |-> {f} \X (1 .. Arity(f))]
           all == {{f} \X (1 .. Arity(f)) : f \in Bodies}
<1>3. rows \in Surjection(Bodies, all)
  BY DEF Surjection
<1>4. \A T \in all : IsFiniteSet(T)
  BY <1>2
<1> HIDE DEF rows, all
<1>5. IsFiniteSet(all)
  BY <1>1, <1>3, FS_Surjection
<1>6. IsFiniteSet(UNION all)
  BY <1>4, <1>5, FS_UNION
<1>7. Positions = UNION all
  BY DEF Positions, all
<1>8. QED
  BY <1>6, <1>7, FS_CardinalityType

\* The positions a call passes to one of reached, or to one in taken.
PassedOn(taken) ==
    {p \in Positions : \E e \in Calls(p[1]) : \E j \in DOMAIN e.args :
        Holds(e.args[j], p[2]) /\ <<e.fn, j>> \in taken}

Handed ==
    {p \in Positions : \E e \in Calls(p[1]) : \E j \in DOMAIN e.args :
        Holds(e.args[j], p[2]) /\ (e.fn = "free" \/ External(e.fn, j, Consuming))}

LEMMA ConsumedWithin ==
    ASSUME unit \in Units, NEW Bound, Handed \subseteq Bound,
           \A taken \in SUBSET Positions : taken \subseteq Bound => PassedOn(taken) \subseteq Bound
    PROVE  Consumed \subseteq Bound
<1> DEFINE m == Cardinality(Positions)
           V == SUBSET Positions
           start == Handed
           Step(n, r) == r \cup PassedOn(r)
           step == [p \in (1 .. m) \X V |-> Step(p[1], p[2])]
           after == CHOOSE g : g = [n \in 0 .. m |-> IF n = 0 THEN start ELSE Step(n, g[n - 1])]
<1>0. start \in V
  BY DEF Handed
<1>1. \A n \in 1 .. m : \A r \in V : Step(n, r) \in V
  BY DEF PassedOn
<1>2. m \in Nat
  BY PositionsFinite
<1>10. Consumed = after[m]
  BY DEF Consumed, PassedUp, PassedTo, Handed, PassedOn
<1> HIDE DEF m, Step, V
<1>3. step \in [(1 .. m) \X V -> V]
  BY <1>1
<1>4. \A n \in 1 .. m : \A r \in V : step[<<n, r>>] = Step(n, r)
  OBVIOUS
<1> HIDE DEF step
<1> HIDE DEF start
<1>5. PICK g : Follows(g, m, V, start, step)
  BY <1>0, <1>2, <1>3, StepwiseFunction
<1>6. g = [n \in 0 .. m |-> g[n]]
  BY <1>5 DEF Follows
<1>7. \A n \in 1 .. m : g[n - 1] \in V
  BY <1>2, <1>5 DEF Follows
<1>8. g = [n \in 0 .. m |-> IF n = 0 THEN start ELSE Step(n, g[n - 1])]
  <2>1. \A n \in 0 .. m : g[n] = IF n = 0 THEN start ELSE Step(n, g[n - 1])
    <3>1. \A n \in 1 .. m : g[n] = step[<<n, g[n - 1]>>]
      BY <1>5 DEF Follows
    <3>2. \A n \in 1 .. m : g[n] = Step(n, g[n - 1])
      BY <1>4, <1>7, <3>1
    <3>3. g[0] = start
      BY <1>5 DEF Follows
    <3>4. QED
      BY <1>2, <3>2, <3>3
  <2>2. QED
    BY <1>6, <2>1
<1>9. after = [n \in 0 .. m |-> IF n = 0 THEN start ELSE Step(n, after[n - 1])]
  BY <1>8
<1> HIDE DEF after
<1>11. after[0] = start /\ \A n \in 1 .. m : after[n] = Step(n, after[n - 1])
  BY <1>2, <1>9
<1>12. \A n \in 0 .. m : after[n] \in V \cap SUBSET Bound
  <2>1. after[0] \in V \cap SUBSET Bound
    BY <1>0, <1>11 DEF start
  <2>2. \A n \in 1 .. m : after[n - 1] \in V \cap SUBSET Bound => after[n] \in V \cap SUBSET Bound
    <3> SUFFICES ASSUME NEW n \in 1 .. m, after[n - 1] \in V \cap SUBSET Bound
                 PROVE  after[n] \in V \cap SUBSET Bound
      OBVIOUS
    <3>1. PassedOn(after[n - 1]) \subseteq Bound
      BY DEF V
    <3>2. QED
      BY <1>1, <1>11, <3>1 DEF Step
  <2>3. QED
    BY <1>2, <2>1, <2>2, StaysInSet
<1>13. QED
  BY <1>2, <1>10, <1>12

LEMMA AgreementCovers ==
    ASSUME IInv, BodiesSized, Orderly(unit), ConvergedOrClosed
    PROVE  DestructionCovered
<1> SUFFICES ASSUME AllResolved PROVE \A p \in Consumed : Admitted(p)
  BY DEF DestructionCovered, Admitted, Lasting
<1>1. unit \in Units /\ phase = "done" /\ \A f \in Bodies : Resolved(f)
  BY DEF IInv, AllResolved, Settled
<1> DEFINE Good == {p \in Positions : Admitted(p)}
<1>2. \A p \in Positions : p = <<p[1], p[2]>> /\ p[1] \in Bodies /\ p[2] \in 1 .. Arity(p[1])
  BY DEF Positions
<1>3. ASSUME NEW p \in Positions, NEW e \in Calls(p[1]), NEW j \in DOMAIN e.args,
             Holds(e.args[j], p[2]), CalleeEffect(e, j, store) \in Consuming
      PROVE  p \in Good
  <2>1. p[1] \in Bodies /\ p[2] \in 1 .. Arity(p[1])
    BY <1>2
  <2>2. Admitted(<<p[1], p[2]>>)
    BY <1>1, <1>3, <2>1, CallAdmits
  <2>3. QED
    BY <1>2, <2>2
<1>4. ASSUME NEW p \in Positions, NEW e \in Calls(p[1])
      PROVE  /\ e.fn = "free" => Len(e.args) = 1 /\ DOMAIN e.args = 1 .. 1
             /\ \A j \in DOMAIN e.args : Holds(e.args[j], p[2]) =>
                    e.args[j].params # {} \/ e.args[j].alias # 0
  <2> DEFINE b == unit.bodies[p[1]]
  <2>1. p[1] \in Bodies /\ IsFunction(b)
    BY <1>1, <1>2, UnitFacts DEF Bodies
  <2>2. PICK n \in 1 .. Len(b.code) : e = b.code[n]
    BY <2>1 DEF Calls, Code, Range, IsFunction
  <2>3. e.op = "call" /\ IsCall(e, b.arity)
    BY <2>1, <2>2 DEF Calls, IsFunction, IsEvent
  <2>4. e.fn = "free" => Len(e.args) = 1
    BY <2>1, <2>2, <2>3 DEF Orderly, Bodies
  <2>5. QED
    BY <2>3, <2>4 DEF IsCall, IsArgument, Holds
<1>5. Handed \subseteq Good
  <2> SUFFICES ASSUME NEW p \in Handed PROVE p \in Good
    OBVIOUS
  <2>1. p \in Positions
    BY DEF Handed
  <2>0. PICK e \in Calls(p[1]) : \E j \in DOMAIN e.args :
          Holds(e.args[j], p[2]) /\ (e.fn = "free" \/ External(e.fn, j, Consuming))
    BY DEF Handed
  <2>2. PICK j \in DOMAIN e.args : Holds(e.args[j], p[2]) /\ (e.fn = "free" \/ External(e.fn, j, Consuming))
    BY <2>0
  <2>3. CalleeEffect(e, j, store) \in Consuming
    <3>1. CASE e.fn = "free"
      BY <1>4, <2>1, <3>1 DEF CalleeEffect, Consuming
    <3>2. CASE External(e.fn, j, Consuming)
      BY <1>4, <2>1, <3>2 DEF External, ParamOr, CalleeEffect, Consuming
    <3>3. QED
      BY <2>2, <3>1, <3>2
  <2>4. QED
    BY <1>3, <2>1, <2>2, <2>3
<1>6. ASSUME NEW taken \in SUBSET Positions, taken \subseteq Good
      PROVE  PassedOn(taken) \subseteq Good
  <2> SUFFICES ASSUME NEW p \in PassedOn(taken) PROVE p \in Good
    OBVIOUS
  <2>1. p \in Positions
    BY DEF PassedOn
  <2>0. PICK e \in Calls(p[1]) : \E j \in DOMAIN e.args :
          Holds(e.args[j], p[2]) /\ <<e.fn, j>> \in taken
    BY DEF PassedOn
  <2>2. PICK j \in DOMAIN e.args : Holds(e.args[j], p[2]) /\ <<e.fn, j>> \in taken
    BY <2>0
  <2>3. e.fn \in Bodies /\ Admitted(<<e.fn, j>>)
    BY <1>2, <1>6, <2>2
  <2>4. e.fn \notin {"free", "malloc"}
    BY <2>3 DEF Orderly, Bodies
  <2>5. /\ e.fn \in DOMAIN store /\ ~store[e.fn].conflict
        /\ ParamOr(store[e.fn].params, j) # "Unknown"
    BY <1>1, <1>2, <1>4, <2>1, <2>2, <2>4 DEF Resolved
  <2>6. j \in DOMAIN store[e.fn].params /\ store[e.fn].params[j] \in Consuming
    BY <2>3, <2>5 DEF Admitted, Lasting, ParamOr
  <2>7. CalleeEffect(e, j, store) \in Consuming
    BY <2>4, <2>5, <2>6 DEF CalleeEffect
  <2>8. QED
    BY <1>3, <2>1, <2>2, <2>7
<1> HIDE DEF Good
<1>7. Consumed \subseteq Good
  BY <1>1, <1>5, <1>6, ConsumedWithin
<1>8. QED
  BY <1>7 DEF Good

-----------------------------------------------------------------------------
(* What bodies return *)

\* Facts of a declaration that name the parameter a borrow is from, as the
\* parsers demand, and do not say that a pointer function returns nothing.
Described(facts, d) ==
    /\ facts.ret = "BorrowFromArg" => facts.borrow # 0
    /\ d.pointer => facts.ret # "None"

\* An external whose result b returns is one that returns a pointer, a call that
\* b returns has the arguments its callee declares, and the scan of b meets it as
\* a call too.
PlainReturn(u, b, e) ==
    /\ e.fn \in DOMAIN u.externals => u.externals[e.fn].pointer
    /\ e.op = "return_call" =>
          /\ e.fn \in DOMAIN u.bodies => u.bodies[e.fn].arity <= Len(e.args)
          /\ e.fn \in DOMAIN u.externals => u.externals[e.fn].arity <= Len(e.args)
          /\ \E m \in 1 .. Len(b.code) :
                b.code[m].op = "call" /\ b.code[m].fn = e.fn /\ b.code[m].args = e.args

PlainReturns(u) ==
    /\ \A i \in 1 .. Len(u.contracts) :
          u.contracts[i].symbol \in DOMAIN u.externals =>
              Described(u.contracts[i].facts, u.externals[u.contracts[i].symbol])
    /\ \A i \in 1 .. Len(u.annotated) :
          Described(u.annotated[i].facts, u.externals[u.annotated[i].symbol])
    /\ \A f \in DOMAIN u.bodies : \A n \in 1 .. Len(u.bodies[f].code) :
          u.bodies[f].code[n].op \in {"return_call", "return_local"} =>
              PlainReturn(u, u.bodies[f], u.bodies[f].code[n])

\* The bodies in conflict are those that contradict themselves.
Uncontradicted == \A f \in Bodies : store[f].conflict => store[f].return_effect = "Unknown"

\* Of a function that returns an owned object, the effect on each parameter is known.
OwnersKnown ==
    \A f \in Bodies : store[f].return_effect = "Owned" =>
        \A i \in DOMAIN store[f].params : store[f].params[i] # "Unknown"

\* The summaries of externals describe declared functions.
Stated(st) ==
    \A x \in DOMAIN st \ Bodies :
        /\ x \in DOMAIN unit.externals
        /\ unit.externals[x].pointer => st[x].return_effect # "None"
        /\ st[x].return_effect = "BorrowFromArg" =>
               st[x].return_borrow_arg \in 1 .. unit.externals[x].arity

ExternalsStated == Stated(store) /\ Stated(next)

LEMMA InitiallyStated == Init => ExternalsStated
  BY DEF Init, ExternalsStated, Stated, NoSummaries

LEMMA WithStated ==
    ASSUME NEW st, Stated(st), NEW x, NEW v,
           x \notin Bodies =>
               /\ x \in DOMAIN unit.externals
               /\ unit.externals[x].pointer => v.return_effect # "None"
               /\ v.return_effect = "BorrowFromArg" =>
                      v.return_borrow_arg \in 1 .. unit.externals[x].arity
    PROVE  Stated(With(st, x, v))
  BY DEF Stated, With

\* What is kept of facts that are well formed and describe the declaration.
LEMMA ReturnOrStated ==
    ASSUME NEW facts, NEW d, Described(facts, d), IsDeclaration(d),
           facts.borrow \in Nat, facts.ret = "BorrowFromArg" => facts.borrow <= d.arity
    PROVE  /\ d.pointer => ReturnOr(facts.ret, d) # "None"
           /\ ReturnOr(facts.ret, d) = "BorrowFromArg" => facts.borrow \in 1 .. d.arity
  BY DEF Described, ReturnOr, IsDeclaration

LEMMA NextStated ==
    ASSUME IInv, PlainReturns(unit), ExternalsStated, [Next]_vars
    PROVE  ExternalsStated'
<1>1. unit' = unit
  BY DEF Next, vars, Build, EndRound, ReviewAnnotation, AnnotationsDone, ApplyContract, ContractsDone
<1>2. Stated(NoSummaries)
  BY DEF Stated, NoSummaries
<1>3. SUFFICES Stated(store') /\ Stated(next')
  BY <1>1 DEF ExternalsStated, Stated, Bodies
<1>5. CASE UNCHANGED vars
  BY <1>5 DEF vars, ExternalsStated
<1>6. CASE Build
  <2> DEFINE declared == unit.functions[position + 1]
             v == build(unit.bodies[declared.name], declared.definition, store)
  <2>1. declared.name \in Bodies
    <3>1. position + 1 \in 1 .. Len(unit.functions) /\ unit \in Units
      BY <1>6, UnitFacts DEF IInv, TypeOK, Build
    <3>2. QED
      BY <3>1, UnitFacts DEF Bodies
  <2>2. Stated(With(next, declared.name, v))
    BY <2>1, WithStated DEF ExternalsStated
  <2>3. store' = store /\ (next' = next \/ next' = With(next, declared.name, v))
    BY <1>6 DEF Build
  <2>4. QED
    BY <2>2, <2>3 DEF ExternalsStated
<1>7. CASE EndRound
  BY <1>2, <1>7 DEF EndRound, ExternalsStated
<1>8. CASE ReviewAnnotation
  <2> DEFINE a == unit.annotated[position + 1]
             d == unit.externals[a.symbol]
             reviewed == unit.manifest[a.symbol]
             v == annotationSummary(a, d)
  <2>1. /\ IsAnnotated(a) /\ IsDeclaration(d) /\ Described(a.facts, d)
        /\ a.symbol \in DOMAIN unit.externals
    <3>1. position + 1 \in 1 .. Len(unit.annotated) /\ unit \in Units
      BY <1>8, UnitFacts DEF IInv, TypeOK, ReviewAnnotation
    <3>2. QED
      BY <3>1, UnitFacts DEF PlainReturns
  <2>2. CASE store' = store
    BY <1>8, <2>2 DEF ReviewAnnotation, ExternalsStated
  <2>3. CASE store' # store
    <3>1. /\ store' = With(store, a.symbol, v) /\ next' = next
          /\ ~Unreviewed(a, unit.manifest) /\ ~Malformed(reviewed, d)
      BY <1>8, <2>3 DEF ReviewAnnotation, Unreviewed
    <3>2. a.facts.ret = "BorrowFromArg" => a.facts.borrow <= d.arity
      <4>1. a.facts.ret = "BorrowFromArg" => a.facts.borrow = reviewed.borrow
        BY <3>1 DEF Unreviewed, annotationFactsMatch
      <4>2. reviewed.borrow \in Nat /\ d.arity \in Nat /\ ~(reviewed.borrow > d.arity)
        <5>1. a.symbol \in DOMAIN unit.manifest
          BY <3>1 DEF Unreviewed
        <5>2. reviewed \in Facts
          BY <5>1, UnitAssumption DEF IInv, IsUnit
        <5>3. QED
          BY <2>1, <3>1, <5>2 DEF Malformed, Facts, IsDeclaration
      <4>3. QED
        BY <4>1, <4>2
    <3>3. a.facts.borrow \in Nat
      BY <2>1 DEF IsAnnotated, Facts
    <3>4. /\ d.pointer => v.return_effect # "None"
          /\ v.return_effect = "BorrowFromArg" => v.return_borrow_arg \in 1 .. d.arity
      BY <2>1, <3>2, <3>3, ReturnOrStated DEF annotationSummary
    <3>5. Stated(With(store, a.symbol, v))
      BY <2>1, <3>4, WithStated DEF ExternalsStated
    <3>6. QED
      BY <3>1, <3>5 DEF ExternalsStated
  <2>4. QED
    BY <2>2, <2>3
<1>9. CASE ApplyContract
  <2> DEFINE c == unit.contracts[position + 1]
             d == Declaration(c.symbol)
             old == Known(c.symbol)
             v == contracted(old, c.symbol, c.facts, d)
             fits(s) == /\ d.pointer => s.return_effect # "None"
                        /\ s.return_effect = "BorrowFromArg" => s.return_borrow_arg \in 1 .. d.arity
  <2>0. position + 1 \in 1 .. Len(unit.contracts) /\ unit \in Units
    BY <1>9 DEF IInv, TypeOK, ApplyContract
  <2>1. CASE Malformed(c.facts, d)
    BY <1>9, <2>1 DEF ApplyContract, ExternalsStated
  <2>2. CASE ~Malformed(c.facts, d) /\ c.symbol \in Bodies
    <3>1. Stated(With(store, c.symbol, v))
      BY <2>2, WithStated DEF ExternalsStated
    <3>2. QED
      BY <1>9, <2>2, <3>1 DEF ApplyContract, ExternalsStated
  <2>3. CASE ~Malformed(c.facts, d) /\ c.symbol \notin Bodies
    <3>1. /\ c.symbol \in DOMAIN unit.externals /\ d = unit.externals[c.symbol]
          /\ IsDeclaration(d) /\ Described(c.facts, d) /\ c.facts \in Facts
      BY <2>0, <2>3, UnitFacts DEF Declaration, Bodies, PlainReturns
    <3>2. fits(externalSummary(c.symbol, c.facts, d))
      <4>1. c.facts.borrow \in Nat /\ c.facts.borrow <= d.arity
        BY <2>3, <3>1 DEF Malformed, Facts, IsDeclaration
      <4>2. QED
        BY <3>1, <4>1, ReturnOrStated DEF externalSummary
    <3>3. fits(contradictedSummary(d))
      BY DEF contradictedSummary
    <3>4. fits(old) /\ old \in FunctionSummary
      <4>1. CASE c.symbol \in DOMAIN store
        BY <2>3, <3>1, <4>1 DEF Known, ExternalsStated, Stated, IInv, TypeOK
      <4>2. CASE c.symbol \notin DOMAIN store
        <5>1. old = unknownSummary(d.arity)
          BY <4>2 DEF Known
        <5>2. QED
          BY <3>1, <5>1, UnknownSummaryOK DEF unknownSummary, IsDeclaration
      <4>3. QED
        BY <4>1, <4>2
    <3>5. fits([old EXCEPT !.conflict = TRUE])
      BY <3>4 DEF FunctionSummary
    <3> HIDE DEF fits, old, d
    <3>6. fits(v)
      BY <3>2, <3>3, <3>4, <3>5 DEF contracted
    <3>7. Stated(With(store, c.symbol, v))
      BY <3>1, <3>6, WithStated DEF ExternalsStated, fits
    <3>8. QED
      BY <1>9, <2>3, <3>7 DEF ApplyContract, ExternalsStated, old, d
  <2>4. QED
    BY <2>1, <2>2, <2>3
<1>10. CASE AnnotationsDone \/ ContractsDone
  BY <1>10 DEF AnnotationsDone, ContractsDone, ExternalsStated
<1>11. QED
  BY <1>5, <1>6, <1>7, <1>8, <1>9, <1>10 DEF Next

\* A returned value that says something is in the result, or the result is in
\* conflict.
LEMMA ReturnsAgree ==
    ASSUME NEW st, StoreOK(st), NEW f, IsFunction(f), NEW code, NEW arity \in Nat, CodeOK(code, arity),
           NEW n \in 1 .. Len(code), NEW r \in Returns, r.effect # "None",
           \A before \in Results : ResultAfter(before, n, code, f, st) = combineReturn(before, r)
    PROVE  LET result == results(code, f, st)[Len(code)]
           IN  \/ result.conflict
               \/ /\ result.effect = r.effect
                  /\ r.effect = "BorrowFromArg" => result.arg = r.arg
<1> DEFINE after == results(code, f, st)
           V == {s \in Results : s.conflict \/ (s.effect = r.effect /\ (r.effect = "BorrowFromArg" => s.arg = r.arg))}
<1>1. /\ \A k \in 1 .. Len(code) : after[k] = ResultAfter(after[k - 1], k, code, f, st)
      /\ \A k \in 0 .. Len(code) : after[k] \in Results
  BY ResultsTrace
<1> HIDE DEF after
<1>2. Len(code) \in Nat /\ n \in 0 .. Len(code) /\ n - 1 \in 0 .. Len(code)
  BY DEF CodeOK
<1>3. after[n] \in V
  <2> DEFINE before == after[n - 1]
  <2>1. before \in Results /\ after[n] = combineReturn(before, r) /\ after[n] \in Results
    BY <1>1, <1>2
  <2> HIDE DEF before
  <2>2. QED
    BY <2>1 DEF combineReturn, Result, Results, Returns
<1>4. \A k \in (n + 1) .. Len(code) : after[k - 1] \in V => after[k] \in V
  <2> SUFFICES ASSUME NEW k \in (n + 1) .. Len(code), after[k - 1] \in V
               PROVE  after[k] \in V
    OBVIOUS
  <2> DEFINE before == after[k - 1]
             e == code[k]
  <2>1. k \in 1 .. Len(code) /\ k \in 0 .. Len(code)
    BY <1>2
  <2>2. after[k] = ResultAfter(before, k, code, f, st) /\ after[k] \in Results
    BY <1>1, <2>1
  <2>3. \A t : combineReturn(before, t) \in Results => combineReturn(before, t) \in V
    BY DEF combineReturn, Result, Results, Returns
  <2>4. Result(before.effect, before.arg, TRUE) \in Results => Result(before.effect, before.arg, TRUE) \in V
    BY DEF Result
  <2> HIDE DEF V, before
  <2>5. QED
    BY <2>2, <2>3, <2>4 DEF ResultAfter, before
<1>5. after[Len(code)] \in V
  BY <1>2, <1>3, <1>4, StaysInSetFrom
<1>6. QED
  BY <1>5 DEF after

\* What statement n of f returns, if anything, is what the summary of f says.
LEMMA ReturnOnRecord ==
    ASSUME IInv, Orderly(unit), NEW f \in Bodies, ~store[f].conflict, Solves(store, f),
           NEW n \in 1 .. Len(unit.bodies[f].code), NEW r \in Returns, r.effect # "None",
           \A before \in Results :
               ResultAfter(before, n, unit.bodies[f].code, unit.bodies[f], store) = combineReturn(before, r)
    PROVE  /\ store[f].return_effect = r.effect
           /\ r.effect = "BorrowFromArg" => store[f].return_borrow_arg = r.arg
<1> DEFINE b == unit.bodies[f]
           result == results(b.code, b, store)[Len(b.code)]
<1>1. DefinitionLast(f) /\ VisibleCode(b, DefinitionLast(f)) = b.code
  BY DEF Orderly, DefinitionLast, Bodies, VisibleCode
<1>2. store[f] = build(b, DefinitionLast(f), store)
  BY DEF Solves
<1>3. IsFunction(b) /\ b.arity \in Nat /\ StoreOK(store)
  BY UnitFacts DEF IInv, Bodies, IsFunction, TypeOK, StoreOK
<1>4. CodeOK(b.code, b.arity)
  BY <1>1, <1>3, VisibleCodeOK
<1>5. \/ result.conflict
      \/ result.effect = r.effect /\ (r.effect = "BorrowFromArg" => result.arg = r.arg)
  BY <1>3, <1>4, ReturnsAgree
<1> HIDE DEF result
<1>6. /\ store[f].conflict = result.conflict
      /\ store[f].return_effect = IF result.conflict \/ (b.pointer /\ result.effect = "None")
                                  THEN "Unknown" ELSE result.effect
      /\ store[f].return_borrow_arg = IF result.conflict THEN 0 ELSE result.arg
  BY <1>1, <1>2 DEF build, result
<1>7. QED
  BY <1>5, <1>6

-----------------------------------------------------------------------------
(* Origins of what bodies return *)

OriginSet == [kind : {"param", "fresh", "elsewhere"}, param : Nat]

\* o is an origin of what f returns, or of nothing, that the summary of f tells of.
Told(f, o) ==
    /\ o \in OriginSet
    /\ o.kind = "param" => o.param \in 1 .. Arity(f)
    /\ \/ store[f].conflict
       \/ store[f].return_effect = "Unknown"
       \/ /\ store[f].return_effect = "Owned"
          /\ o = Fresh \/ (o.kind = "param" /\ store[f].params[o.param] \in Taken)
       \/ /\ store[f].return_effect = "BorrowFromArg"
          /\ o = Origin("param", store[f].return_borrow_arg)

\* The units and the states the following is about.
Answerable ==
    /\ IInv /\ BodiesSized /\ ExternalsStated
    /\ Orderly(unit) /\ PlainReturns(unit)
    /\ phase = "done" /\ ConvergedOrClosed /\ Uncontradicted /\ OwnersKnown

\* A body whose summary says something of its result has the one it builds.
LEMMA SpeakingSolves ==
    ASSUME Answerable, NEW f \in Bodies, store[f].return_effect # "Unknown"
    PROVE  ~store[f].conflict /\ Solves(store, f)
  BY DEF Answerable, ConvergedOrClosed, Uncontradicted

\* What the return statement e, read with the store, says.
Saying(f, e, n) ==
    CASE e.op = "return_param" ->
            returnedParam(e, unit.bodies[f], effects(e.param, unit.bodies[f].code, unit.bodies[f], store)[n - 1])
      [] e.op = "return_call" -> returnedCall(e, unit.bodies[f], store)
      [] e.op = "return_local" -> returnedLocal(e, store)
      [] OTHER -> Returned("Unknown", 0)

LEMMA SayingOnRecord ==
    ASSUME Answerable, NEW f \in Bodies, store[f].return_effect # "Unknown",
           NEW n \in 1 .. Len(unit.bodies[f].code), NEW e, e = unit.bodies[f].code[n], e.op \in Returning,
           Saying(f, e, n).effect # "None"
    PROVE  /\ store[f].return_effect = Saying(f, e, n).effect
           /\ Saying(f, e, n).effect = "BorrowFromArg" => store[f].return_borrow_arg = Saying(f, e, n).arg
<1> DEFINE b == unit.bodies[f]
           r == Saying(f, e, n)
<1>1. IInv /\ Orderly(unit) /\ ~store[f].conflict /\ Solves(store, f)
  BY SpeakingSolves DEF Answerable
<1>2. StoreOK(store) /\ IsEvent(e, b.arity) /\ b.arity \in Nat
  BY <1>1, UnitFacts DEF IInv, TypeOK, StoreOK, Bodies, IsFunction
<1>3. r \in Returns
  <2>1. e.op = "return_param" => e.param \in Nat
    BY <1>2 DEF IsEvent
  <2>2. e.op = "return_call" => \A j \in DOMAIN e.args : e.args[j].direct \in Nat
    <3>1. e.op = "return_call" => IsCall(e, b.arity)
      BY <1>2 DEF IsEvent
    <3>2. e.op = "return_call" => \A j \in DOMAIN e.args : IsArgument(e.args[j], b.arity)
      BY <3>1 DEF IsCall
    <3>3. \A a : IsArgument(a, b.arity) => a.direct \in Nat
      <4> DEFINE arity == b.arity
      <4>1. arity \in Nat
        BY <1>2
      <4> HIDE DEF arity
      <4>2. \A a : IsArgument(a, arity) => a.direct \in Nat
        BY <4>1 DEF IsArgument
      <4>3. QED
        BY <4>2 DEF arity
    <3>4. QED
      BY <3>2, <3>3
  <2>3. Returned("Unknown", 0) \in Returns
    BY DEF Returned, Returns, ReturnEffect
  <2>4. QED
    BY <1>2, <2>1, <2>2, <2>3, ReturnedParamOK, ReturnedCallOK, ReturnedLocalOK DEF Saying, Returning
<1>4. \A before \in Results : ResultAfter(before, n, b.code, b, store) = combineReturn(before, r)
  BY DEF ResultAfter, Saying, Returning
<1> HIDE DEF r
<1>5. QED
  BY <1>1, <1>3, <1>4, ReturnOnRecord DEF r

LEMMA ReturnFacts ==
    ASSUME Answerable, NEW f \in Bodies, NEW e \in Code(f)
    PROVE  /\ Arity(f) \in Nat
           /\ IsEvent(e, Arity(f))
           /\ \E n \in 1 .. Len(unit.bodies[f].code) : e = unit.bodies[f].code[n]
           /\ e.op \in {"return_call", "return_local"} => PlainReturn(unit, unit.bodies[f], e)
<1> DEFINE b == unit.bodies[f]
<1>1. IsFunction(b)
  BY UnitFacts DEF Answerable, IInv, Bodies
<1>2. PICK n \in 1 .. Len(b.code) : e = b.code[n]
  BY <1>1 DEF Code, Range, IsFunction
<1>3. e.op \in {"return_call", "return_local"} => PlainReturn(unit, b, e)
  BY <1>2 DEF Answerable, PlainReturns, Bodies
<1>4. QED
  BY <1>1, <1>2, <1>3 DEF IsFunction, Arity

LEMMA EntryFacts ==
    ASSUME NEW f, Arity(f) \in Nat, NEW i \in 0 .. Arity(f)
    PROVE  /\ Entry(f, i) \in OriginSet
           /\ Entry(f, i).kind = "param" => Entry(f, i).param = i /\ i \in 1 .. Arity(f)
           /\ Entry(f, i) # Elsewhere => Entry(f, i).kind = "param"
           /\ i # 0 /\ i \notin unit.bodies[f].assigned => Entry(f, i) = Origin("param", i)
<1>1. Elsewhere \in OriginSet /\ Elsewhere.kind = "elsewhere"
  BY DEF Elsewhere, Origin, OriginSet
<1>2. Origin("param", i) \in OriginSet /\ Origin("param", i).kind = "param" /\ Origin("param", i).param = i
  BY DEF Origin, OriginSet
<1>3. QED
  BY <1>1, <1>2 DEF Entry

\* return p;
LEMMA ParamTold ==
    ASSUME Answerable, NEW f \in Bodies, NEW e \in Code(f), e.op = "return_param"
    PROVE  Told(f, Entry(f, e.param))
<1> DEFINE b == unit.bodies[f]
           i == e.param
<1>1. /\ Arity(f) \in Nat /\ i \in 1 .. Arity(f) /\ i \in 0 .. Arity(f)
  BY ReturnFacts DEF IsEvent
<1>2. PICK n \in 1 .. Len(b.code) : e = b.code[n]
  BY ReturnFacts
<1>3. Entry(f, i) \in OriginSet /\ (Entry(f, i).kind = "param" => Entry(f, i).param \in 1 .. Arity(f))
  BY <1>1, EntryFacts
<1>4. CASE store[f].return_effect = "Unknown"
  BY <1>3, <1>4 DEF Told
<1>5. CASE store[f].return_effect # "Unknown"
  <2> DEFINE before == effects(i, b.code, b, store)[n - 1]
  <2>1. Saying(f, e, n) = returnedParam(e, b, before)
    BY DEF Saying
  <2> HIDE DEF before
  <2>2. Saying(f, e, n).effect # "None"
    BY <2>1 DEF returnedParam, Returned
  <2>3. /\ store[f].return_effect = Saying(f, e, n).effect
        /\ Saying(f, e, n).effect = "BorrowFromArg" => store[f].return_borrow_arg = Saying(f, e, n).arg
    BY <1>2, <1>5, <2>2, SayingOnRecord DEF Returning
  <2>4. i \notin b.assigned
    BY <1>5, <2>1, <2>3 DEF returnedParam, Returned
  <2>5. Entry(f, i) = Origin("param", i)
    BY <1>1, <2>4, EntryFacts
  <2>6. CASE before = "TakeOwnership"
    <3>1. store[f].return_effect = "Owned"
      BY <2>1, <2>3, <2>4, <2>6 DEF returnedParam, Returned
    <3>2. ~store[f].conflict /\ Solves(store, f) /\ IInv /\ Orderly(unit) /\ StoreOK(store)
      BY <1>5, SpeakingSolves DEF Answerable, IInv, TypeOK, StoreOK
    <3>3. /\ store[f].params = [k \in 1 .. Arity(f) |-> effects(k, b.code, b, store)[Len(b.code)]]
          /\ CodeOK(b.code, Arity(f)) /\ b.annotated[i] \in ParamEffect
      BY <1>1, <3>2, BuiltParameters
    <3>4. n - 1 \in 0 .. Len(b.code)
      BY <3>3 DEF CodeOK
    <3>5. Taken \in Kinds /\ before \in Taken
      BY <2>6 DEF Kinds, Taken
    <3>6. effects(i, b.code, b, store)[Len(b.code)] \in Taken
      BY <3>2, <3>3, <3>4, <3>5, EffectsLast DEF before
    <3>7. store[f].params[i] \in Taken
      BY <1>1, <3>3, <3>6
    <3>8. QED
      BY <1>3, <2>5, <3>1, <3>7 DEF Told, Origin
  <2>7. CASE before # "TakeOwnership"
    <3>1. store[f].return_effect = "BorrowFromArg" /\ store[f].return_borrow_arg = i
      BY <2>1, <2>3, <2>4, <2>7 DEF returnedParam, Returned
    <3>2. QED
      BY <1>3, <2>5, <3>1 DEF Told
  <2>8. QED
    BY <2>6, <2>7
<1>6. QED
  BY <1>4, <1>5

\* return anything else;
LEMMA OtherTold ==
    ASSUME Answerable, NEW f \in Bodies, NEW e \in Code(f), e.op = "return_other"
    PROVE  Told(f, Elsewhere)
<1>1. PICK n \in 1 .. Len(unit.bodies[f].code) : e = unit.bodies[f].code[n]
  BY ReturnFacts
<1>2. Saying(f, e, n).effect = "Unknown"
  BY DEF Saying, Returned
<1>3. store[f].return_effect = "Unknown"
  BY <1>1, <1>2, SayingOnRecord DEF Returning
<1>4. QED
  BY <1>3 DEF Told, Elsewhere, Origin, OriginSet

\* return malloc(n);  and T *p = malloc(n); return p;
LEMMA MallocTold ==
    ASSUME Answerable, NEW f \in Bodies, NEW e \in Code(f),
           e.op \in {"return_call", "return_local"}, e.fn = "malloc"
    PROVE  Told(f, Fresh)
<1>1. PICK n \in 1 .. Len(unit.bodies[f].code) : e = unit.bodies[f].code[n]
  BY ReturnFacts
<1>2. Saying(f, e, n).effect = "Owned"
  BY DEF Saying, Returned, returnedCall, returnedLocal
<1>3. store[f].return_effect \in {"Unknown", "Owned"}
  BY <1>1, <1>2, SayingOnRecord DEF Returning
<1>4. Fresh \in OriginSet /\ Fresh.kind # "param"
  BY DEF Fresh, Origin, OriginSet
<1>5. QED
  BY <1>3, <1>4 DEF Told

LEMMA MappedTyped ==
    ASSUME Answerable, NEW f \in Bodies, NEW e \in Code(f), e.op \in {"return_call", "return_local"},
           NEW o \in OriginSet
    PROVE  LET m == Mapped(f, e, o)
           IN  m \in OriginSet /\ (m.kind = "param" /\ o.kind = "param" => m.param \in 1 .. Arity(f))
<1> DEFINE entry == IF e.op = "return_call" /\ o.param \in DOMAIN e.args
                    THEN Entry(f, e.args[o.param].direct) ELSE Elsewhere
<1>1. Fresh \in OriginSet /\ Elsewhere \in OriginSet /\ Fresh.kind # "param" /\ Elsewhere.kind # "param"
  BY DEF Fresh, Elsewhere, Origin, OriginSet
<1>2. entry \in OriginSet /\ (entry.kind = "param" => entry.param \in 1 .. Arity(f))
  <2>1. CASE e.op = "return_call" /\ o.param \in DOMAIN e.args
    <3> DEFINE i == e.args[o.param].direct
    <3>1. Arity(f) \in Nat /\ IsEvent(e, Arity(f))
      BY ReturnFacts
    <3>2. IsArgument(e.args[o.param], Arity(f))
      BY <2>1, <3>1 DEF IsEvent, IsCall
    <3>3. i \in 0 .. Arity(f)
      BY <3>2 DEF IsArgument
    <3> HIDE DEF i
    <3>4. Entry(f, i) \in OriginSet /\ (Entry(f, i).kind = "param" => Entry(f, i).param \in 1 .. Arity(f))
      BY <3>1, <3>3, EntryFacts
    <3>5. QED
      BY <2>1, <3>4 DEF i
  <2>2. QED
    BY <1>1, <2>1
<1>3. Mapped(f, e, o) = IF o.kind # "param" THEN o
                        ELSE IF entry = Elsewhere /\ e.fn \in DOMAIN store
                                /\ ParamOr(store[e.fn].params, o.param) = "TakeOwnership"
                        THEN Fresh ELSE entry
  BY DEF Mapped
<1> HIDE DEF entry
<1>4. QED
  BY <1>1, <1>2, <1>3

\* T *p = g(...); return p;  where the summary of g tells of o
LEMMA LocalTold ==
    ASSUME Answerable, NEW f \in Bodies, NEW e \in Code(f), e.op = "return_local",
           e.fn \in Bodies, NEW o, Told(e.fn, o)
    PROVE  Told(f, Mapped(f, e, o))
<1> DEFINE g == e.fn
<1>1. PICK n \in 1 .. Len(unit.bodies[f].code) : e = unit.bodies[f].code[n]
  BY ReturnFacts
<1>2. /\ o \in OriginSet /\ g \in DOMAIN store /\ g # "malloc"
      /\ store[g].params \in Seq(ParamEffect) /\ DOMAIN store[g].params = 1 .. Arity(g)
  <2>1. g \in DOMAIN store /\ store[g] \in FunctionSummary /\ g # "malloc"
    BY DEF Answerable, IInv, TypeOK, BodiesBuilt, Orderly, Bodies
  <2>2. QED
    BY <2>1 DEF Told, FunctionSummary, Answerable, BodiesSized, Sized, Arity
<1>3. Fresh \in OriginSet /\ Fresh.kind # "param" /\ Elsewhere.kind # "param"
  BY DEF Fresh, Elsewhere, Origin, OriginSet
<1>4. Saying(f, e, n) = returnedLocal(e, store)
  BY DEF Saying
<1>5. CASE store[g].return_effect = "Owned"
  <2>1. Saying(f, e, n).effect = "Owned"
    BY <1>2, <1>4, <1>5 DEF returnedLocal, Returned
  <2>2. store[f].return_effect \in {"Unknown", "Owned"}
    BY <1>1, <2>1, SayingOnRecord DEF Returning
  <2>3. o = Fresh \/ (o.kind = "param" /\ store[g].params[o.param] \in Taken /\ o.param \in 1 .. Arity(g))
    BY <1>5 DEF Told, Answerable, Uncontradicted
  <2>4. Mapped(f, e, o) = Fresh
    <3>1. CASE o = Fresh
      BY <1>3, <3>1 DEF Mapped
    <3>2. CASE o.kind = "param" /\ store[g].params[o.param] \in Taken /\ o.param \in 1 .. Arity(g)
      <4>1. store[g].params[o.param] = "TakeOwnership"
        BY <1>2, <1>5, <3>2 DEF Answerable, OwnersKnown, Taken
      <4>2. QED
        BY <1>2, <3>2, <4>1 DEF Mapped, ParamOr
    <3>3. QED
      BY <2>3, <3>1, <3>2
  <2>5. QED
    BY <1>3, <2>2, <2>4 DEF Told
<1>6. CASE store[g].return_effect # "Owned"
  <2>1. Saying(f, e, n).effect = "Unknown"
    BY <1>2, <1>4, <1>6 DEF returnedLocal, Returned
  <2>2. store[f].return_effect = "Unknown"
    BY <1>1, <2>1, SayingOnRecord DEF Returning
  <2>3. o.kind # "param" => Mapped(f, e, o) = o
    BY DEF Mapped
  <2>4. QED
    BY <1>2, <2>2, <2>3, MappedTyped DEF Told
<1>7. QED
  BY <1>5, <1>6

\* What the summary of g says of a borrow, in a caller that returns g(...).
LEMMA BorrowTold ==
    ASSUME Answerable, NEW f \in Bodies, NEW e \in Code(f), e.op = "return_call",
           e.fn \in DOMAIN store, e.fn # "malloc", store[e.fn].return_effect = "BorrowFromArg",
           store[e.fn].return_borrow_arg \in DOMAIN e.args
    PROVE  Told(f, Mapped(f, e, Origin("param", store[e.fn].return_borrow_arg)))
<1> DEFINE b == unit.bodies[f]
           arg == store[e.fn].return_borrow_arg
           i == e.args[arg].direct
           o == Origin("param", arg)
<1>1. PICK n \in 1 .. Len(b.code) : e = b.code[n]
  BY ReturnFacts
<1>2. Arity(f) \in Nat /\ IsCall(e, Arity(f)) /\ arg \in Nat
  BY ReturnFacts DEF IsEvent, IsCall
<1>3. i \in 0 .. Arity(f)
  BY <1>2 DEF IsCall, IsArgument
<1>4. o \in OriginSet /\ o.kind = "param" /\ o.param = arg
  BY <1>2 DEF Origin, OriginSet
<1>5. Mapped(f, e, o) \in OriginSet
      /\ (Mapped(f, e, o).kind = "param" => Mapped(f, e, o).param \in 1 .. Arity(f))
  BY <1>4, MappedTyped
<1>6. Saying(f, e, n) = IF i = 0 THEN Returned("Unknown", arg)
                        ELSE IF i \in b.assigned THEN Returned("Unknown", 0)
                        ELSE Returned("BorrowFromArg", i)
  BY DEF Saying, returnedCall
<1>7. Entry(f, i) = IF i = 0 \/ i \in b.assigned THEN Elsewhere ELSE Origin("param", i)
  BY DEF Entry
<1>8. Elsewhere # Origin("param", i)
  BY DEF Elsewhere, Origin
<1>9. Mapped(f, e, o) = Entry(f, i) \/ Entry(f, i) = Elsewhere
  BY <1>4 DEF Mapped
<1> HIDE DEF i, o
<1>10. CASE i = 0 \/ i \in b.assigned
  <2>1. Saying(f, e, n).effect = "Unknown"
    BY <1>6, <1>10 DEF Returned
  <2>2. store[f].return_effect = "Unknown"
    BY <1>1, <2>1, SayingOnRecord DEF Returning
  <2>3. QED
    BY <1>5, <2>2 DEF Told, o
<1>11. CASE i # 0 /\ i \notin b.assigned
  <2>1. Saying(f, e, n).effect = "BorrowFromArg" /\ Saying(f, e, n).arg = i
    BY <1>6, <1>11 DEF Returned
  <2>2. \/ store[f].return_effect = "Unknown"
        \/ store[f].return_effect = "BorrowFromArg" /\ store[f].return_borrow_arg = i
    BY <1>1, <2>1, SayingOnRecord DEF Returning
  <2>3. Mapped(f, e, o) = Origin("param", i)
    BY <1>7, <1>8, <1>9, <1>11
  <2>4. QED
    BY <1>5, <2>2, <2>3 DEF Told, o
<1>12. QED
  BY <1>10, <1>11

\* return g(...);  where the summary of g says owned and tells of o
LEMMA OwnedTold ==
    ASSUME Answerable, NEW f \in Bodies, NEW e \in Code(f), e.op = "return_call",
           e.fn \in Bodies, store[e.fn].return_effect = "Owned", NEW o, Told(e.fn, o)
    PROVE  Told(f, Mapped(f, e, o))
<1> DEFINE g == e.fn
           b == unit.bodies[f]
           m == Mapped(f, e, o)
<1>1. PICK n \in 1 .. Len(b.code) : e = b.code[n]
  BY ReturnFacts
<1>2. /\ o \in OriginSet /\ g \in DOMAIN store /\ g \notin {"free", "malloc"}
      /\ DOMAIN store[g].params = 1 .. Arity(g)
      /\ o = Fresh \/ (o.kind = "param" /\ store[g].params[o.param] \in Taken /\ o.param \in 1 .. Arity(g))
  <2>1. g \in DOMAIN store /\ g \notin {"free", "malloc"}
    BY DEF Answerable, IInv, BodiesBuilt, Orderly, Bodies
  <2>2. DOMAIN store[g].params = 1 .. Arity(g)
    BY <2>1 DEF Answerable, BodiesSized, Sized, Arity
  <2>3. QED
    BY <2>1, <2>2 DEF Told, Answerable, Uncontradicted
<1>3. Fresh \in OriginSet /\ Fresh.kind # "param"
  BY DEF Fresh, Origin, OriginSet
<1>4. Saying(f, e, n).effect = "Owned"
  BY <1>2 DEF Saying, returnedCall, Returned
<1>5. store[f].return_effect \in {"Unknown", "Owned"}
  BY <1>1, <1>4, SayingOnRecord DEF Returning
<1>6. CASE m = Fresh
  BY <1>3, <1>5, <1>6 DEF Told
<1>7. CASE m # Fresh
  <2> DEFINE p == o.param
             i == e.args[p].direct
  <2>1. o.kind = "param" /\ p \in 1 .. Arity(g) /\ store[g].params[p] = "TakeOwnership"
    <3>1. o # Fresh
      BY <1>3, <1>7 DEF Mapped
    <3>2. QED
      BY <1>2, <3>1 DEF Answerable, OwnersKnown, Taken
  <2>2. p \in DOMAIN e.args /\ IsCall(e, Arity(f)) /\ Arity(f) \in Nat
    <3>1. Arity(g) <= Len(e.args) /\ Arity(g) \in Nat
      BY ReturnFacts, UnitFacts DEF PlainReturn, Answerable, IInv, Bodies, Arity, IsFunction
    <3>2. IsCall(e, Arity(f)) /\ Arity(f) \in Nat
      BY ReturnFacts DEF IsEvent
    <3>3. QED
      BY <2>1, <3>1, <3>2 DEF IsCall
  <2>3. i \in 0 .. Arity(f)
    BY <2>2 DEF IsCall, IsArgument
  <2>4. m = Entry(f, i) /\ Entry(f, i) # Elsewhere
    BY <1>2, <1>7, <2>1, <2>2 DEF Mapped, ParamOr
  <2>5. m \in OriginSet /\ m.kind = "param" /\ m.param = i /\ i \in 1 .. Arity(f)
    BY <2>2, <2>3, <2>4, EntryFacts
  <2>6. CASE store[f].return_effect = "Unknown"
    BY <2>5, <2>6 DEF Told
  <2>7. CASE store[f].return_effect = "Owned"
    <3>1. IInv /\ Orderly(unit) /\ ~store[f].conflict /\ Solves(store, f)
      BY <2>7, SpeakingSolves DEF Answerable
    <3>2. PICK k \in 1 .. Len(b.code) :
            b.code[k].op = "call" /\ b.code[k].fn = e.fn /\ b.code[k].args = e.args
      BY ReturnFacts DEF PlainReturn
    <3> DEFINE call == b.code[k]
    <3>3. call \in Calls(f)
      BY <3>1, <3>2, UnitFacts DEF Calls, Code, Range, IsFunction, IInv, Bodies
    <3>4. Holds(call.args[p], i) /\ p \in DOMAIN call.args
      BY <2>2, <2>5, <3>2 DEF Holds
    <3>5. CalleeEffect(call, p, store) = "TakeOwnership"
      BY <1>2, <2>1, <3>2 DEF CalleeEffect
    <3>6. Taken \in Kinds /\ CalleeEffect(call, p, store) \in Taken \ {"Unknown"}
      BY <3>5 DEF Kinds, Taken
    <3> HIDE DEF call
    <3>7. store[f].params[i] \in Taken
      BY <2>5, <3>1, <3>3, <3>4, <3>6, CallConsumes
    <3>8. QED
      BY <2>5, <2>7, <3>7 DEF Told
  <2>8. QED
    BY <1>5, <2>6, <2>7
<1>8. QED
  BY <1>6, <1>7

LEMMA CallTold ==
    ASSUME Answerable, NEW f \in Bodies, NEW e \in Code(f), e.op = "return_call",
           e.fn \in Bodies, NEW o, Told(e.fn, o)
    PROVE  Told(f, Mapped(f, e, o))
<1> DEFINE g == e.fn
<1>1. PICK n \in 1 .. Len(unit.bodies[f].code) : e = unit.bodies[f].code[n]
  BY ReturnFacts
<1>2. o \in OriginSet /\ g \in DOMAIN store /\ g # "malloc"
  BY DEF Told, Answerable, IInv, BodiesBuilt, Orderly, Bodies
<1>3. CASE store[g].return_effect = "Unknown"
  <2>1. Saying(f, e, n).effect = "Unknown"
    BY <1>2, <1>3 DEF Saying, returnedCall, Returned
  <2>2. store[f].return_effect = "Unknown"
    BY <1>1, <2>1, SayingOnRecord DEF Returning
  <2>3. o.kind # "param" => Mapped(f, e, o) = o
    BY DEF Mapped
  <2>4. QED
    BY <1>2, <2>2, <2>3, MappedTyped DEF Told
<1>4. CASE store[g].return_effect = "Owned"
  BY <1>4, OwnedTold
<1>5. CASE store[g].return_effect = "BorrowFromArg"
  <2>1. o = Origin("param", store[g].return_borrow_arg) /\ ~store[g].conflict
    BY <1>5 DEF Told, Answerable, Uncontradicted
  <2>2. store[g].return_borrow_arg \in 1 .. Arity(g)
    BY <2>1 DEF Told, Origin
  <2>3. Arity(g) <= Len(e.args) /\ Arity(g) \in Nat
    BY ReturnFacts, UnitFacts DEF PlainReturn, Answerable, IInv, Bodies, Arity, IsFunction
  <2>4. DOMAIN e.args = 1 .. Len(e.args) /\ Len(e.args) \in Nat
    BY ReturnFacts DEF IsEvent, IsCall
  <2>5. store[g].return_borrow_arg \in DOMAIN e.args
    BY <2>2, <2>3, <2>4
  <2>6. QED
    BY <1>2, <1>5, <2>1, <2>5, BorrowTold
<1>6. QED
  BY <1>3, <1>4, <1>5 DEF Told, Answerable, Uncontradicted

\* return x(...);  and T *p = x(...); return p;  of an external
LEMMA ExternalTold ==
    ASSUME Answerable, NEW f \in Bodies, NEW e \in Code(f), e.op \in {"return_call", "return_local"},
           e.fn # "malloc", e.fn \notin Bodies
    PROVE  Told(f, Mapped(f, e, ExternalOrigin(e.fn)))
<1> DEFINE x == e.fn
           o == ExternalOrigin(x)
<1>1. PICK n \in 1 .. Len(unit.bodies[f].code) : e = unit.bodies[f].code[n]
  BY ReturnFacts
<1>2. Fresh \in OriginSet /\ Elsewhere \in OriginSet /\ Fresh.kind # "param" /\ Elsewhere.kind # "param"
  BY DEF Fresh, Elsewhere, Origin, OriginSet
<1>3. StoreOK(store)
  BY DEF Answerable, IInv, TypeOK, StoreOK
<1>4. o \in OriginSet
  <2>1. x \in DOMAIN store => store[x].return_borrow_arg \in Nat
    BY <1>3, SummaryFields DEF StoreOK
  <2>2. QED
    BY <1>2, <2>1 DEF ExternalOrigin, Origin, OriginSet
<1>5. Saying(f, e, n) = IF e.op = "return_call" THEN returnedCall(e, unit.bodies[f], store)
                        ELSE returnedLocal(e, store)
  BY DEF Saying
<1>6. ASSUME Saying(f, e, n).effect = "Unknown"
      PROVE  Told(f, Mapped(f, e, o))
  <2>1. store[f].return_effect = "Unknown"
    BY <1>1, <1>6, SayingOnRecord DEF Returning
  <2>2. o.kind # "param" => Mapped(f, e, o) = o
    BY DEF Mapped
  <2> HIDE DEF o
  <2>3. QED
    BY <1>4, <2>1, <2>2, MappedTyped DEF Told
<1>7. CASE x \notin DOMAIN store
  <2>1. Saying(f, e, n).effect = "Unknown"
    BY <1>5, <1>7 DEF returnedCall, returnedLocal, Returned
  <2>2. QED
    BY <1>6, <2>1
<1>8. CASE x \in DOMAIN store
  <2>1. /\ x \in DOMAIN unit.externals
        /\ store[x].return_effect # "None"
        /\ store[x].return_effect = "BorrowFromArg" =>
              store[x].return_borrow_arg \in 1 .. unit.externals[x].arity
    BY <1>8, ReturnFacts DEF Answerable, ExternalsStated, Stated, PlainReturn
  <2>2. store[x].return_effect \in {"Unknown", "Owned", "BorrowFromArg"}
    BY <1>3, <1>8, <2>1, SummaryFields DEF StoreOK, ReturnEffect
  <2>3. CASE store[x].return_effect = "Owned"
    <3>1. Saying(f, e, n).effect = "Owned"
      BY <1>5, <1>8, <2>3 DEF returnedCall, returnedLocal, Returned
    <3>2. store[f].return_effect \in {"Unknown", "Owned"}
      BY <1>1, <3>1, SayingOnRecord DEF Returning
    <3>3. o = Fresh
      BY <1>8, <2>3 DEF ExternalOrigin
    <3>4. Mapped(f, e, o) = Fresh
      BY <1>2, <3>3 DEF Mapped
    <3>5. QED
      BY <1>2, <3>2, <3>4 DEF Told
  <2>4. CASE store[x].return_effect = "Unknown" \/ (store[x].return_effect = "BorrowFromArg" /\ e.op = "return_local")
    <3>1. Saying(f, e, n).effect = "Unknown"
      BY <1>5, <1>8, <2>4 DEF returnedCall, returnedLocal, Returned
    <3>2. QED
      BY <1>6, <3>1
  <2>5. CASE store[x].return_effect = "BorrowFromArg" /\ e.op = "return_call"
    <3>1. unit.externals[x].arity <= Len(e.args) /\ unit.externals[x].arity \in Nat
      BY <2>1, <2>5, ReturnFacts, UnitFacts DEF PlainReturn, Answerable, IInv, IsDeclaration
    <3>2. DOMAIN e.args = 1 .. Len(e.args) /\ Len(e.args) \in Nat
      BY <2>5, ReturnFacts DEF IsEvent, IsCall
    <3>3. store[x].return_borrow_arg \in DOMAIN e.args
      BY <2>1, <2>5, <3>1, <3>2
    <3>4. o = Origin("param", store[x].return_borrow_arg)
      BY <1>8, <2>5 DEF ExternalOrigin
    <3>5. QED
      BY <1>8, <2>5, <3>3, <3>4, BorrowTold
  <2>6. QED
    BY <2>2, <2>3, <2>4, <2>5
<1>9. QED
  BY <1>7, <1>8

-----------------------------------------------------------------------------
(* The least origins *)

ReturnStatements == UNION {{<<f, e>> : e \in {x \in Code(f) : x.op \in Returning}} : f \in Bodies}

\* The origins that follow from below in one step.
FollowingFrom(below) ==
    UNION {{<<r[1], o>> : o \in OriginsOf(r[1], r[2], below)} : r \in ReturnStatements}

LEMMA OriginsWithin ==
    ASSUME unit \in Units, NEW Bound,
           \A below \in SUBSET Bound : FollowingFrom(below) \subseteq Bound
    PROVE  Origins \subseteq Bound
<1> DEFINE m == Cardinality(Bodies) * (Cardinality(Positions) + 2)
           V == SUBSET Bound
           start == {}
           Step(n, r) == r \cup FollowingFrom(r)
           step == [p \in (1 .. m) \X V |-> Step(p[1], p[2])]
           after == CHOOSE g : g = [n \in 0 .. m |-> IF n = 0 THEN start ELSE Step(n, g[n - 1])]
<1>0. start \in V
  OBVIOUS
<1>1. \A n \in 1 .. m : \A r \in V : Step(n, r) \in V
  OBVIOUS
<1>2. m \in Nat
  <2>1. Cardinality(Bodies) \in Nat
    BY BodiesFinite, FS_CardinalityType
  <2>2. QED
    BY <2>1, PositionsFinite
<1>10. Origins = after[m]
  BY DEF Origins, FollowingFrom, ReturnStatements
<1> HIDE DEF m, Step, V
<1>3. step \in [(1 .. m) \X V -> V]
  BY <1>1
<1>4. \A n \in 1 .. m : \A r \in V : step[<<n, r>>] = Step(n, r)
  OBVIOUS
<1> HIDE DEF step, start
<1>5. PICK g : Follows(g, m, V, start, step)
  BY <1>0, <1>2, <1>3, StepwiseFunction
<1>6. g = [n \in 0 .. m |-> g[n]]
  BY <1>5 DEF Follows
<1>7. \A n \in 1 .. m : g[n - 1] \in V
  BY <1>2, <1>5 DEF Follows
<1>8. g = [n \in 0 .. m |-> IF n = 0 THEN start ELSE Step(n, g[n - 1])]
  <2>1. \A n \in 0 .. m : g[n] = IF n = 0 THEN start ELSE Step(n, g[n - 1])
    <3>1. \A n \in 1 .. m : g[n] = step[<<n, g[n - 1]>>]
      BY <1>5 DEF Follows
    <3>2. \A n \in 1 .. m : g[n] = Step(n, g[n - 1])
      BY <1>4, <1>7, <3>1
    <3>3. g[0] = start
      BY <1>5 DEF Follows
    <3>4. QED
      BY <1>2, <3>2, <3>3
  <2>2. QED
    BY <1>6, <2>1
<1>9. after = [n \in 0 .. m |-> IF n = 0 THEN start ELSE Step(n, after[n - 1])]
  BY <1>8
<1> HIDE DEF after
<1>11. after[0] = start /\ \A n \in 1 .. m : after[n] = Step(n, after[n - 1])
  BY <1>2, <1>9
<1>12. \A n \in 0 .. m : after[n] \in V
  <2>1. \A n \in 1 .. m : after[n - 1] \in V => after[n] \in V
    BY <1>1, <1>11
  <2>2. QED
    BY <1>0, <1>2, <1>11, <2>1, StaysInSet
<1>13. QED
  <2>1. m \in 0 .. m
    BY <1>2
  <2>2. QED
    BY <1>10, <1>12, <2>1 DEF V

LEMMA OriginsTold ==
    ASSUME Answerable
    PROVE  ReturnOriginsCovered
<1> DEFINE Bound == {p \in Bodies \X OriginSet : Told(p[1], p[2])}
<1>1. ASSUME NEW below \in SUBSET Bound PROVE FollowingFrom(below) \subseteq Bound
  <2> SUFFICES ASSUME NEW r \in ReturnStatements, NEW o \in OriginsOf(r[1], r[2], below)
               PROVE  <<r[1], o>> \in Bound
    BY DEF FollowingFrom
  <2> DEFINE f == r[1]
             e == r[2]
  <2>1. f \in Bodies /\ e \in Code(f) /\ e.op \in Returning
    BY DEF ReturnStatements
  <2> HIDE DEF f, e
  <2>2. o \in OriginsOf(f, e, below)
    BY DEF f, e
  <2>3. e.op = "return_param" => Told(f, o)
    BY <2>1, <2>2, ParamTold DEF OriginsOf
  <2>4. e.op = "return_other" => Told(f, o)
    BY <2>1, <2>2, OtherTold DEF OriginsOf
  <2>5. e.op \in {"return_call", "return_local"} /\ e.fn = "malloc" => Told(f, o)
    BY <2>1, <2>2, MallocTold DEF OriginsOf
  <2>6. ASSUME e.op \in {"return_call", "return_local"}, e.fn # "malloc", e.fn \in Bodies
        PROVE  Told(f, o)
    <3>1. PICK x \in below : x[1] = e.fn /\ o = Mapped(f, e, x[2])
      BY <2>2, <2>6 DEF OriginsOf
    <3>2. Told(e.fn, x[2])
      BY <3>1
    <3>3. QED
      BY <2>1, <2>6, <3>1, <3>2, LocalTold, CallTold
  <2>7. e.op \in {"return_call", "return_local"} /\ e.fn # "malloc" /\ e.fn \notin Bodies => Told(f, o)
    BY <2>1, <2>2, ExternalTold DEF OriginsOf
  <2>8. Told(f, o) /\ f \in Bodies /\ o \in OriginSet
    BY <2>1, <2>3, <2>4, <2>5, <2>6, <2>7 DEF Returning, Told
  <2>9. QED
    BY <2>8 DEF f
<1>2. Origins \subseteq Bound
  BY <1>1, OriginsWithin DEF Answerable, IInv
<1>3. \A p \in Bound : Told(p[1], p[2])
  OBVIOUS
<1> HIDE DEF Bound
<1>4. QED
  BY <1>2, <1>3 DEF ReturnOriginsCovered, Told, Taken

-----------------------------------------------------------------------------
(* Summaries that say more *)

\* t says what s says, and may say more.
Refined(s, t) ==
    /\ DOMAIN s.params = DOMAIN t.params
    /\ \A i \in DOMAIN s.params : s.params[i] \in {"Unknown", t.params[i]}
    /\ \/ s.return_effect = "Unknown"
       \/ s.return_effect = t.return_effect /\ s.return_borrow_arg = t.return_borrow_arg

\* So does a store of every function the other describes.
Sharpened(s, t) == \A x \in DOMAIN s : x \in DOMAIN t /\ Refined(s[x], t[x])

\* No call is passed a local that stands for a parameter.
NoAliases(code) ==
    \A n \in 1 .. Len(code) : code[n].op = "call" =>
        \A j \in 1 .. Len(code[n].args) : code[n].args[j].alias = 0

\* None of the first k events passes parameter i to a function.
Unpassed(i, k, code) ==
    \A m \in 1 .. k : code[m].op = "call" =>
        \A j \in 1 .. Len(code[m].args) : i \notin code[m].args[j].params

\* A parameter that is returned is not passed to a function before.
UnpassedReturns(code) ==
    \A n \in 1 .. Len(code) :
        code[n].op = "return_param" => Unpassed(code[n].param, n - 1, code)

\* A result another function gave.
RelaysResult(e) == e.op \in {"return_call", "return_local"} /\ e.fn # "malloc"

\* A function that returns one returns nothing else.
LoneRelays(code) ==
    \A n \in 1 .. Len(code) : RelaysResult(code[n]) =>
        \A m \in 1 .. Len(code) : code[m].op \in Returning => m = n

SteadyCode(code) == NoAliases(code) /\ UnpassedReturns(code) /\ LoneRelays(code)

Steady(u) == \A f \in DOMAIN u.bodies : SteadyCode(u.bodies[f].code)

\* Pairs of effects the second of which says more.
SharperEffects == {p \in ParamEffect \X ParamEffect : p[1] \in {"Unknown", p[2]}}

LEMMA CalleeEffectSharper ==
    ASSUME NEW s, StoreOK(s), NEW t, StoreOK(t), Sharpened(s, t), NEW e, NEW j
    PROVE  <<CalleeEffect(e, j, s), CalleeEffect(e, j, t)>> \in SharperEffects
<1>1. CalleeEffect(e, j, s) \in ParamEffect /\ CalleeEffect(e, j, t) \in ParamEffect
  BY CalleeEffectOK
<1>2. CalleeEffect(e, j, s) \in {"Unknown", CalleeEffect(e, j, t)}
  <2>1. CASE e.fn = "free" /\ Len(e.args) = 1
    BY <2>1 DEF CalleeEffect
  <2>2. CASE ~(e.fn = "free" /\ Len(e.args) = 1)
    BY <2>2 DEF CalleeEffect, Sharpened, Refined
  <2>3. QED
    BY <2>1, <2>2
<1>3. QED
  BY <1>1, <1>2 DEF SharperEffects

LEMMA CombinedSharper ==
    ASSUME NEW p \in SharperEffects, NEW q \in SharperEffects, NEW conditional
    PROVE  <<Combined(p[1], Kept(q[1], conditional)), Combined(p[2], Kept(q[2], conditional))>>
               \in SharperEffects
<1>1. /\ p[1] \in ParamEffect /\ p[2] \in ParamEffect /\ p[1] \in {"Unknown", p[2]}
      /\ q[1] \in ParamEffect /\ q[2] \in ParamEffect /\ q[1] \in {"Unknown", q[2]}
  BY DEF SharperEffects
<1> DEFINE k1 == Kept(q[1], conditional)
           k2 == Kept(q[2], conditional)
<1>2. k1 \in ParamEffect /\ k2 \in ParamEffect /\ k1 \in {"Unknown", k2}
  BY <1>1 DEF Kept, ParamEffect
<1> HIDE DEF k1, k2
<1>3. /\ Combined(p[1], k1) \in ParamEffect /\ Combined(p[2], k2) \in ParamEffect
      /\ Combined(p[1], k1) \in {"Unknown", Combined(p[2], k2)}
  BY <1>1, <1>2 DEF Combined, ParamEffect, Consuming
<1>4. QED
  BY <1>3 DEF SharperEffects, k1, k2

LEMMA PassedSharper ==
    ASSUME NEW p \in SharperEffects, NEW q \in SharperEffects, NEW i, NEW arg, arg.alias = 0,
           NEW conditional
    PROVE  <<passed(p[1], i, arg, q[1], conditional), passed(p[2], i, arg, q[2], conditional)>>
               \in SharperEffects
<1>1. Currents(arg, q[1]) = arg.params /\ Currents(arg, q[2]) = arg.params
  BY DEF Currents
<1>2. p = <<p[1], p[2]>> /\ <<"Unknown", "Unknown">> \in SharperEffects
  BY DEF SharperEffects, ParamEffect
<1>3. CASE i \notin arg.params
  BY <1>1, <1>2, <1>3 DEF passed
<1>4. CASE i \in arg.params /\ arg.params # {i}
  BY <1>1, <1>2, <1>4 DEF passed
<1>5. CASE i \in arg.params /\ arg.params = {i}
  BY <1>1, <1>5, CombinedSharper DEF passed
<1>6. QED
  BY <1>3, <1>4, <1>5

LEMMA CalledSharper ==
    ASSUME NEW s, StoreOK(s), NEW t, StoreOK(t), Sharpened(s, t), NEW p \in SharperEffects, NEW i,
           NEW e, Len(e.args) \in Nat, \A j \in 1 .. Len(e.args) : e.args[j].alias = 0
    PROVE  <<called(p[1], i, e, s), called(p[2], i, e, t)>> \in SharperEffects
<1>0. p[1] \in ParamEffect /\ p[2] \in ParamEffect /\ p = <<p[1], p[2]>>
  BY DEF SharperEffects
<1>1. PICK f : CallTrace(f, p[1], i, e, s)
  BY <1>0, CalledTrace
<1>2. PICK g : CallTrace(g, p[2], i, e, t)
  BY <1>0, CalledTrace
<1>3. ASSUME NEW n \in 1 .. Len(e.args), <<f[n - 1], g[n - 1]>> \in SharperEffects
      PROVE  <<f[n], g[n]>> \in SharperEffects
  <2> DEFINE old == <<f[n - 1], g[n - 1]>>
             new == <<CalleeEffect(e, n, s), CalleeEffect(e, n, t)>>
  <2>1. new \in SharperEffects
    BY CalleeEffectSharper
  <2>2. <<passed(old[1], i, e.args[n], new[1], e.conditional),
          passed(old[2], i, e.args[n], new[2], e.conditional)>> \in SharperEffects
    BY <1>3, <2>1, PassedSharper
  <2>3. QED
    BY <1>1, <1>2, <2>2 DEF CallTrace
<1>4. <<f[0], g[0]>> \in SharperEffects
  BY <1>0, <1>1, <1>2 DEF CallTrace
<1>5. \A n \in 0 .. Len(e.args) : <<f[n], g[n]>> \in SharperEffects
  BY <1>3, <1>4, StaysRelated
<1>6. QED
  BY <1>1, <1>2, <1>5 DEF CallTrace

LEMMA EffectsSharper ==
    ASSUME NEW s, StoreOK(s), NEW t, StoreOK(t), Sharpened(s, t),
           NEW f, NEW i, f.annotated[i] \in ParamEffect,
           NEW code, NEW arity, CodeOK(code, arity), NoAliases(code)
    PROVE  <<effects(i, code, f, s)[Len(code)], effects(i, code, f, t)[Len(code)]>> \in SharperEffects
<1> DEFINE a == effects(i, code, f, s)
           b == effects(i, code, f, t)
<1>1. /\ a[0] = f.annotated[i] /\ \A n \in 1 .. Len(code) : a[n] = AfterEvent(a[n - 1], i, code[n], f, s)
  BY EffectsTrace
<1>2. b[0] = f.annotated[i] /\ \A n \in 1 .. Len(code) : b[n] = AfterEvent(b[n - 1], i, code[n], f, t)
  BY EffectsTrace
<1> HIDE DEF a, b
<1>3. ASSUME NEW n \in 1 .. Len(code), <<a[n - 1], b[n - 1]>> \in SharperEffects
      PROVE  <<a[n], b[n]>> \in SharperEffects
  <2> DEFINE e == code[n]
             old == <<a[n - 1], b[n - 1]>>
  <2>1. a[n] = AfterEvent(a[n - 1], i, e, f, s) /\ b[n] = AfterEvent(b[n - 1], i, e, f, t)
    BY <1>1, <1>2
  <2>2. CASE e.op = "call"
    <3>1. Len(e.args) \in Nat /\ \A j \in 1 .. Len(e.args) : e.args[j].alias = 0
      BY <2>2 DEF CodeOK, EventOK, NoAliases
    <3>2. <<called(old[1], i, e, s), called(old[2], i, e, t)>> \in SharperEffects
      BY <1>3, <3>1, CalledSharper
    <3>3. QED
      BY <2>1, <2>2, <3>2 DEF AfterEvent
  <2>3. CASE e.op \in {"deref", "element", "flow"}
    <3>1. /\ a[n - 1] \in ParamEffect /\ b[n - 1] \in ParamEffect
          /\ a[n - 1] = "Unknown" \/ a[n - 1] = b[n - 1]
      BY <1>3 DEF SharperEffects
    <3>2. /\ touched(a[n - 1], i, e, f.indirect) \in ParamEffect
          /\ touched(b[n - 1], i, e, f.indirect) \in ParamEffect
      BY <3>1, TouchedOK
    <3>3. touched("Unknown", i, e, f.indirect) = "Unknown"
      BY DEF touched
    <3>4. QED
      BY <2>1, <2>3, <3>1, <3>2, <3>3 DEF AfterEvent, SharperEffects
  <2>4. CASE e.op \notin {"deref", "element", "flow", "call"}
    BY <1>3, <2>1, <2>4 DEF AfterEvent
  <2>5. QED
    BY <2>2, <2>3, <2>4
<1>4. <<a[0], b[0]>> \in SharperEffects
  BY <1>1, <1>2 DEF SharperEffects
<1>5. Len(code) \in Nat
  BY DEF CodeOK
<1>6. \A n \in 0 .. Len(code) : <<a[n], b[n]>> \in SharperEffects
  BY <1>3, <1>4, <1>5, StaysRelated
<1>7. QED
  BY <1>5, <1>6 DEF a, b

\* A call that is not passed a parameter leaves the effect on it alone.
LEMMA CalledUnpassed ==
    ASSUME NEW s, StoreOK(s), NEW old \in ParamEffect, NEW i, NEW e, Len(e.args) \in Nat,
           \A j \in 1 .. Len(e.args) : e.args[j].alias = 0 /\ i \notin e.args[j].params
    PROVE  called(old, i, e, s) = old
<1>1. PICK f : CallTrace(f, old, i, e, s)
  BY CalledTrace
<1>2. \A n \in 1 .. Len(e.args) : f[n - 1] \in {old} => f[n] \in {old}
  BY <1>1 DEF CallTrace, passed, Currents
<1>3. f[0] \in {old}
  BY <1>1 DEF CallTrace
<1>4. \A n \in 0 .. Len(e.args) : f[n] \in {old}
  BY <1>2, <1>3, StaysInSet
<1>5. QED
  BY <1>1, <1>4 DEF CallTrace

\* So the effect on a parameter that has not been passed yet is the same in all stores.
LEMMA EffectUnpassed ==
    ASSUME NEW s, StoreOK(s), NEW t, StoreOK(t), NEW f, NEW i, f.annotated[i] \in ParamEffect,
           NEW code, NEW arity, CodeOK(code, arity), NoAliases(code),
           NEW k \in Nat, k <= Len(code), Unpassed(i, k, code)
    PROVE  effects(i, code, f, s)[k] = effects(i, code, f, t)[k]
<1> DEFINE a == effects(i, code, f, s)
           b == effects(i, code, f, t)
<1>0. Len(code) \in Nat /\ \A n \in 1 .. k : n \in 1 .. Len(code) /\ n - 1 \in 0 .. Len(code)
  BY DEF CodeOK
<1>1. /\ a[0] = f.annotated[i] /\ \A n \in 1 .. Len(code) : a[n] = AfterEvent(a[n - 1], i, code[n], f, s)
      /\ \A n \in 0 .. Len(code) : a[n] \in ParamEffect
  BY EffectsTrace
<1>2. b[0] = f.annotated[i] /\ \A n \in 1 .. Len(code) : b[n] = AfterEvent(b[n - 1], i, code[n], f, t)
  BY EffectsTrace
<1> HIDE DEF a, b
<1>3. ASSUME NEW n \in 1 .. k, a[n - 1] = b[n - 1]
      PROVE  a[n] = b[n]
  <2> DEFINE e == code[n]
  <2>1. a[n - 1] \in ParamEffect
    BY <1>0, <1>1
  <2>2. e.op = "call" => called(a[n - 1], i, e, s) = a[n - 1] /\ called(a[n - 1], i, e, t) = a[n - 1]
    <3> SUFFICES ASSUME e.op = "call"
                 PROVE  called(a[n - 1], i, e, s) = a[n - 1] /\ called(a[n - 1], i, e, t) = a[n - 1]
      OBVIOUS
    <3>1. n \in 1 .. Len(code)
      BY <1>0
    <3>2. Len(e.args) \in Nat /\ \A j \in 1 .. Len(e.args) : e.args[j].alias = 0
      BY <3>1 DEF CodeOK, EventOK, NoAliases
    <3>3. \A j \in 1 .. Len(e.args) : i \notin e.args[j].params
      BY <1>3 DEF Unpassed
    <3> HIDE DEF e
    <3>4. QED
      BY <2>1, <3>2, <3>3, CalledUnpassed
  <2>3. AfterEvent(a[n - 1], i, e, f, s) = AfterEvent(a[n - 1], i, e, f, t)
    BY <2>2 DEF AfterEvent
  <2>4. QED
    BY <1>0, <1>1, <1>2, <1>3, <2>3
<1>4. \A n \in 0 .. k : a[n] = b[n]
  <2>1. a[0] = b[0]
    BY <1>1, <1>2
  <2>2. \A n \in 1 .. k : a[n - 1] = b[n - 1] => a[n] = b[n]
    BY <1>3
  <2>3. QED
    BY <2>1, <2>2, StaysEqual
<1>5. QED
  BY <1>0, <1>4 DEF a, b

\* What a relay says of its result.
RelayedResult(e, f, s) ==
    IF e.op = "return_call" THEN returnedCall(e, f, s) ELSE returnedLocal(e, s)

\* A statement that relays a result says more of it with the store that says more.
LEMMA RelaySharper ==
    ASSUME NEW s, NEW t, Sharpened(s, t), NEW e, RelaysResult(e), NEW f
    PROVE  \/ RelayedResult(e, f, s).effect = "Unknown"
           \/ RelayedResult(e, f, s) = RelayedResult(e, f, t)
<1>1. e.fn # "malloc"
  BY DEF RelaysResult
<1>2. CASE e.fn \notin DOMAIN s
  BY <1>1, <1>2 DEF RelayedResult, returnedCall, returnedLocal, Returned
<1>3. CASE e.fn \in DOMAIN s /\ s[e.fn].return_effect = "Unknown"
  BY <1>1, <1>3 DEF RelayedResult, returnedCall, returnedLocal, Returned
<1>4. CASE e.fn \in DOMAIN s /\ s[e.fn].return_effect # "Unknown"
  <2>1. /\ e.fn \in DOMAIN t
        /\ s[e.fn].return_effect = t[e.fn].return_effect
        /\ s[e.fn].return_borrow_arg = t[e.fn].return_borrow_arg
    BY <1>4 DEF Sharpened, Refined
  <2>2. returnedCall(e, f, s) = returnedCall(e, f, t) /\ returnedLocal(e, s) = returnedLocal(e, t)
    BY <1>4, <2>1 DEF returnedCall, returnedLocal
  <2>3. QED
    BY <2>2 DEF RelayedResult
<1>5. QED
  BY <1>2, <1>3, <1>4

\* What event n makes of the result r does not depend on the store, unless it relays one.
LEMMA UnrelayedResult ==
    ASSUME NEW s, StoreOK(s), NEW t, StoreOK(t), NEW f, IsFunction(f),
           NEW code, CodeOK(code, f.arity), SteadyCode(code), NEW n \in 1 .. Len(code), ~RelaysResult(code[n]), NEW r
    PROVE  ResultAfter(r, n, code, f, s) = ResultAfter(r, n, code, f, t)
<1> DEFINE e == code[n]
<1>1. CASE e.op = "return_param"
  <2>1. e.param \in 1 .. f.arity
    BY <1>1 DEF CodeOK, EventOK
  <2>2. f.annotated[e.param] \in ParamEffect
    BY <2>1 DEF IsFunction
  <2>3. n - 1 \in Nat /\ n - 1 <= Len(code)
    BY DEF CodeOK
  <2>4. Unpassed(e.param, n - 1, code)
    BY <1>1 DEF SteadyCode, UnpassedReturns
  <2>5. effects(e.param, code, f, s)[n - 1] = effects(e.param, code, f, t)[n - 1]
    BY <2>2, <2>3, <2>4, EffectUnpassed DEF SteadyCode
  <2>6. QED
    BY <1>1, <2>5 DEF ResultAfter
<1>2. CASE e.op \in {"return_call", "return_local"}
  <2>1. e.fn = "malloc"
    BY <1>2 DEF RelaysResult
  <2>2. returnedCall(e, f, s) = returnedCall(e, f, t) /\ returnedLocal(e, s) = returnedLocal(e, t)
    BY <2>1 DEF returnedCall, returnedLocal
  <2>3. QED
    BY <1>2, <2>2 DEF ResultAfter
<1>3. CASE e.op \notin {"return_param", "return_call", "return_local"}
  BY <1>3 DEF ResultAfter
<1>4. QED
  BY <1>1, <1>2, <1>3

\* The result of a body under two stores the second of which says more.
SharperResult(r, q) ==
    \/ r.conflict
    \/ ~q.conflict /\ (r.effect = "Unknown" \/ (r.effect = q.effect /\ r.arg = q.arg))

\* How far the two may be apart after n events: not at all before a result is relayed.
StepApart(n, code, f) ==
    {p \in Results \X Results :
        \/ p[1].conflict
        \/ p[1] = p[2] /\ (p[1] = annotatedReturn(f) \/ \E m \in 1 .. n : code[m].op \in Returning)
        \/ SharperResult(p[1], p[2]) /\ \E m \in 1 .. n : RelaysResult(code[m])}

LEMMA ConflictLasts ==
    ASSUME NEW r, r.conflict = TRUE, NEW n, NEW code, NEW f, NEW s
    PROVE  ResultAfter(r, n, code, f, s).conflict = TRUE
<1>1. \A q : combineReturn(r, q).conflict = TRUE
  BY DEF combineReturn, Result
<1>2. Result(r.effect, r.arg, TRUE).conflict = TRUE
  BY DEF Result
<1>3. QED
  BY <1>1, <1>2 DEF ResultAfter

\* An event that returns nothing leaves the result, or realloc a conflict.
LEMMA SilentEvent ==
    ASSUME NEW r, NEW n, NEW code, code[n].op \notin Returning, NEW f, NEW s
    PROVE  ResultAfter(r, n, code, f, s) = r \/ ResultAfter(r, n, code, f, s).conflict = TRUE
  BY DEF ResultAfter, Result, Returning

\* The first result is relayed: it is known with s and the same with t, or it is not.
LEMMA RelayedApart ==
    ASSUME NEW r \in Results, r.effect # "Unknown", NEW x, NEW y,
           x.effect = "Unknown" \/ x = y
    PROVE  \/ combineReturn(r, x).conflict = TRUE
           \/ combineReturn(r, x) = combineReturn(r, y)
           \/ SharperResult(combineReturn(r, x), combineReturn(r, y))
<1>1. CASE x = y
  BY <1>1
<1>2. CASE x.effect = "Unknown" /\ r.effect # "None"
  BY <1>2 DEF combineReturn, Result
<1>3. CASE x.effect = "Unknown" /\ r.effect = "None" /\ r.conflict = TRUE
  BY <1>3 DEF combineReturn, Result
<1>4. CASE x.effect = "Unknown" /\ r.effect = "None" /\ r.conflict = FALSE
  BY <1>4 DEF combineReturn, Result, SharperResult
<1>5. QED
  BY <1>1, <1>2, <1>3, <1>4 DEF Results

LEMMA ResultStep ==
    ASSUME NEW s, StoreOK(s), NEW t, StoreOK(t), Sharpened(s, t), NEW f, IsFunction(f),
           NEW code, CodeOK(code, f.arity), SteadyCode(code), NEW n \in 1 .. Len(code),
           NEW r, NEW q, <<r, q>> \in StepApart(n - 1, code, f),
           ResultAfter(r, n, code, f, s) \in Results, ResultAfter(q, n, code, f, t) \in Results
    PROVE  <<ResultAfter(r, n, code, f, s), ResultAfter(q, n, code, f, t)>> \in StepApart(n, code, f)
<1> DEFINE a == ResultAfter(r, n, code, f, s)
           b == ResultAfter(q, n, code, f, t)
           e == code[n]
<1>0. /\ n \in Nat /\ Len(code) \in Nat /\ n \in 1 .. n
      /\ \A m \in 1 .. (n - 1) : m \in 1 .. n /\ m \in 1 .. Len(code) /\ m # n
  BY DEF CodeOK
<1>1. /\ r \in Results /\ q \in Results
      /\ \/ r.conflict = TRUE
         \/ r = q /\ (r = annotatedReturn(f) \/ \E m \in 1 .. (n - 1) : code[m].op \in Returning)
         \/ SharperResult(r, q) /\ \E m \in 1 .. (n - 1) : RelaysResult(code[m])
  BY DEF StepApart, Results
<1>2. SUFFICES \/ a.conflict = TRUE
               \/ a = b /\ (a = annotatedReturn(f) \/ \E m \in 1 .. n : code[m].op \in Returning)
               \/ SharperResult(a, b) /\ \E m \in 1 .. n : RelaysResult(code[m])
  BY DEF StepApart
<1>3. \A m \in 1 .. Len(code) : RelaysResult(code[m]) => code[m].op \in Returning
  BY DEF RelaysResult, Returning
<1>4. CASE r.conflict = TRUE
  BY <1>4, ConflictLasts
<1>5. CASE r.conflict # TRUE /\ RelaysResult(e)
  <2>1. \A m \in 1 .. (n - 1) : code[m].op \notin Returning
    BY <1>0, <1>5 DEF SteadyCode, LoneRelays
  <2>2. r = q /\ r = annotatedReturn(f)
    BY <1>0, <1>1, <1>3, <1>5, <2>1
  <2>3. r.effect # "Unknown"
    BY <2>2 DEF annotatedReturn, Result, IsFunction
  <2>4. a = combineReturn(r, RelayedResult(e, f, s)) /\ b = combineReturn(r, RelayedResult(e, f, t))
    BY <1>5, <2>2 DEF RelaysResult, ResultAfter, RelayedResult
  <2>5. RelayedResult(e, f, s).effect = "Unknown" \/ RelayedResult(e, f, s) = RelayedResult(e, f, t)
    BY <1>5, RelaySharper
  <2>6. a.conflict = TRUE \/ a = b \/ SharperResult(a, b)
    BY <1>1, <2>3, <2>4, <2>5, RelayedApart
  <2> HIDE DEF a, b
  <2>7. QED
    BY <1>0, <1>3, <1>5, <2>6
<1>6. CASE r.conflict # TRUE /\ ~RelaysResult(e)
  <2>1. b = ResultAfter(q, n, code, f, s)
    BY <1>6, UnrelayedResult
  <2>2. CASE r = q
    <3>1. a = b
      BY <2>1, <2>2
    <3>2. e.op \notin Returning => a = r \/ a.conflict = TRUE
      BY SilentEvent
    <3>3. r = annotatedReturn(f) \/ \E m \in 1 .. (n - 1) : code[m].op \in Returning
      BY <1>0, <1>1, <1>3, <1>6, <2>2
    <3> HIDE DEF a, b
    <3>4. QED
      BY <1>0, <3>1, <3>2, <3>3
  <2>3. CASE r # q
    <3>1. PICK m \in 1 .. (n - 1) : RelaysResult(code[m])
      BY <1>1, <1>6, <2>3
    <3>2. e.op \notin Returning
      BY <1>0, <3>1 DEF SteadyCode, LoneRelays
    <3>3. a = r \/ a.conflict = TRUE
      BY <3>2, SilentEvent
    <3>4. b = q \/ (e.op = "call" /\ e.fn = "realloc")
      BY <2>1, <3>2 DEF ResultAfter, Returning
    <3>5. e.op = "call" /\ e.fn = "realloc" => a.conflict = TRUE
      BY DEF ResultAfter, Result
    <3>6. SharperResult(r, q)
      BY <1>1, <1>6, <2>3
    <3> HIDE DEF a, b
    <3>7. QED
      BY <1>0, <3>1, <3>3, <3>4, <3>5, <3>6
  <2>4. QED
    BY <2>2, <2>3
<1>7. QED
  BY <1>4, <1>5, <1>6

LEMMA ResultsSharper ==
    ASSUME NEW s, StoreOK(s), NEW t, StoreOK(t), Sharpened(s, t), NEW f, IsFunction(f),
           NEW code, CodeOK(code, f.arity), SteadyCode(code)
    PROVE  SharperResult(results(code, f, s)[Len(code)], results(code, f, t)[Len(code)])
<1> DEFINE a == results(code, f, s)
           b == results(code, f, t)
           Apart(n) == StepApart(n, code, f)
<1>1. f.arity \in Nat /\ Len(code) \in Nat
  BY DEF IsFunction, CodeOK
<1>2. /\ a[0] = annotatedReturn(f) /\ \A n \in 1 .. Len(code) : a[n] = ResultAfter(a[n - 1], n, code, f, s)
      /\ \A n \in 0 .. Len(code) : a[n] \in Results
  BY <1>1, ResultsTrace
<1>3. /\ b[0] = annotatedReturn(f) /\ \A n \in 1 .. Len(code) : b[n] = ResultAfter(b[n - 1], n, code, f, t)
      /\ \A n \in 0 .. Len(code) : b[n] \in Results
  BY <1>1, ResultsTrace
<1> HIDE DEF a, b
<1> DEFINE h == [n \in 0 .. Len(code) |-> <<n, a[n], b[n]>>]
           V == {v \in Nat \X Results \X Results : <<v[2], v[3]>> \in Apart(v[1])}
<1>4. \A n \in 0 .. Len(code) : h[n] = <<n, a[n], b[n]>> /\ (h[n] \in V <=> <<a[n], b[n]>> \in Apart(n))
  BY <1>1, <1>2, <1>3
<1>5. ASSUME NEW n \in 1 .. Len(code), <<a[n - 1], b[n - 1]>> \in Apart(n - 1)
      PROVE  <<a[n], b[n]>> \in Apart(n)
  <2>1. n \in 0 .. Len(code)
    BY <1>1
  <2>2. ResultAfter(a[n - 1], n, code, f, s) \in Results /\ ResultAfter(b[n - 1], n, code, f, t) \in Results
    BY <1>2, <1>3, <2>1
  <2>3. QED
    BY <1>2, <1>3, <1>5, <2>2, ResultStep
<1>6. <<a[0], b[0]>> \in Apart(0)
  <2>1. 0 \in 0 .. Len(code)
    BY <1>1
  <2>2. a[0] \in Results /\ a[0] = b[0]
    BY <1>2, <1>3, <2>1
  <2>3. QED
    BY <1>2, <2>2 DEF StepApart
<1> HIDE DEF h, V, Apart
<1>7. h[0] \in V
  BY <1>1, <1>4, <1>6
<1>75. \A n \in 1 .. Len(code) : h[n - 1] \in V => h[n] \in V
  <2> SUFFICES ASSUME NEW n \in 1 .. Len(code), h[n - 1] \in V PROVE h[n] \in V
    OBVIOUS
  <2>1. n \in 0 .. Len(code) /\ n - 1 \in 0 .. Len(code)
    BY <1>1
  <2>2. QED
    BY <1>4, <1>5, <2>1
<1>8. \A n \in 0 .. Len(code) : h[n] \in V
  BY <1>1, <1>7, <1>75, StaysInSet
<1>9. <<a[Len(code)], b[Len(code)]>> \in Apart(Len(code))
  BY <1>1, <1>4, <1>8
<1>10. \A r \in Results : SharperResult(r, r)
  BY DEF SharperResult, Results
<1>11. QED
  BY <1>9, <1>10 DEF Apart, StepApart, SharperResult, a, b

LEMMA VisibleSteady ==
    ASSUME NEW f, IsFunction(f), NEW definition, SteadyCode(f.code)
    PROVE  SteadyCode(VisibleCode(f, definition))
<1>1. CASE definition
  BY <1>1 DEF VisibleCode
<1>2. CASE ~definition
  <2> DEFINE seen == [n \in 1 .. Len(f.code) |-> SeenByRedeclaration(f.code[n])]
  <2>1. seen \in [1 .. Len(f.code) -> {SeenByRedeclaration(f.code[n]) : n \in 1 .. Len(f.code)}]
    OBVIOUS
  <2>2. Len(seen) = Len(f.code) /\ VisibleCode(f, definition) = seen
    BY <1>2, <2>1, SequenceOfLength DEF IsFunction, VisibleCode
  <2>3. \A n \in 1 .. Len(f.code) : seen[n] = SeenByRedeclaration(f.code[n])
    OBVIOUS
  <2> HIDE DEF seen
  <2>4. \A e : /\ SeenByRedeclaration(e).op # "return_param"
               /\ SeenByRedeclaration(e).op \in Returning => e.op \in Returning
               /\ RelaysResult(SeenByRedeclaration(e)) => RelaysResult(e)
               /\ SeenByRedeclaration(e).op = "call" =>
                      e.op = "call" /\ SeenByRedeclaration(e).args = ForeignArguments(e)
    <3> SUFFICES ASSUME NEW e
                 PROVE  /\ SeenByRedeclaration(e).op # "return_param"
                        /\ SeenByRedeclaration(e).op \in Returning => e.op \in Returning
                        /\ RelaysResult(SeenByRedeclaration(e)) => RelaysResult(e)
                        /\ SeenByRedeclaration(e).op = "call" =>
                               e.op = "call" /\ SeenByRedeclaration(e).args = ForeignArguments(e)
      OBVIOUS
    <3>1. CASE e.op \in {"deref", "element", "flow"}
      BY <3>1 DEF SeenByRedeclaration, Returning, RelaysResult
    <3>2. CASE e.op = "call"
      BY <3>2 DEF SeenByRedeclaration, Returning, RelaysResult
    <3>3. CASE e.op = "return_call"
      BY <3>3 DEF SeenByRedeclaration, Returning, RelaysResult
    <3>4. CASE e.op = "return_param"
      BY <3>4 DEF SeenByRedeclaration, Returning, RelaysResult
    <3>5. CASE e.op \notin {"deref", "element", "flow", "call", "return_call", "return_param"}
      <4>1. SeenByRedeclaration(e) = e
        BY <3>5 DEF SeenByRedeclaration
      <4>2. QED
        BY <3>5, <4>1
    <3>6. QED
      BY <3>1, <3>2, <3>3, <3>4, <3>5
  <2>5. NoAliases(seen)
    <3> SUFFICES ASSUME NEW n \in 1 .. Len(f.code), seen[n].op = "call",
                        NEW j \in 1 .. Len(seen[n].args)
                 PROVE  seen[n].args[j].alias = 0
      BY <2>2 DEF NoAliases
    <3>1. f.code[n].op = "call" /\ seen[n].args = ForeignArguments(f.code[n])
      BY <2>3, <2>4
    <3>2. Len(f.code[n].args) \in Nat
      <4>1. IsEvent(f.code[n], f.arity)
        BY DEF IsFunction
      <4>2. QED
        BY <3>1, <4>1 DEF IsEvent, IsCall
    <3>3. ForeignArguments(f.code[n]) \in [1 .. Len(f.code[n].args) -> {Foreign}]
      BY DEF ForeignArguments
    <3>4. Len(ForeignArguments(f.code[n])) = Len(f.code[n].args)
      BY <3>2, <3>3, SequenceOfLength
    <3>5. QED
      BY <3>1, <3>3, <3>4 DEF Foreign
  <2>6. UnpassedReturns(seen)
    BY <2>2, <2>3, <2>4 DEF UnpassedReturns
  <2>7. LoneRelays(seen)
    BY <2>2, <2>3, <2>4 DEF SteadyCode, LoneRelays
  <2>8. QED
    BY <2>2, <2>5, <2>6, <2>7 DEF SteadyCode
<1>3. QED
  BY <1>1, <1>2

\* From summaries that say more a body gets a summary that says more.
LEMMA BuildSharper ==
    ASSUME NEW s, StoreOK(s), NEW t, StoreOK(t), Sharpened(s, t), NEW f, IsFunction(f), NEW definition,
           SteadyCode(f.code)
    PROVE  Refined(build(f, definition, s), build(f, definition, t))
<1> DEFINE code == VisibleCode(f, definition)
           r == results(code, f, s)[Len(code)]
           q == results(code, f, t)[Len(code)]
           b == build(f, definition, s)
           c == build(f, definition, t)
<1>1. CodeOK(code, f.arity) /\ SteadyCode(code)
  BY VisibleCodeOK, VisibleSteady
<1>2. SharperResult(r, q)
  BY <1>1, ResultsSharper
<1>3. \A i \in 1 .. f.arity :
          effects(i, code, f, s)[Len(code)] \in {"Unknown", effects(i, code, f, t)[Len(code)]}
  <2> SUFFICES ASSUME NEW i \in 1 .. f.arity
               PROVE  effects(i, code, f, s)[Len(code)] \in {"Unknown", effects(i, code, f, t)[Len(code)]}
    OBVIOUS
  <2>1. f.annotated[i] \in ParamEffect
    BY DEF IsFunction
  <2>2. <<effects(i, code, f, s)[Len(code)], effects(i, code, f, t)[Len(code)]>> \in SharperEffects
    BY <1>1, <2>1, EffectsSharper DEF SteadyCode
  <2>3. QED
    BY <2>2 DEF SharperEffects
<1>4. /\ b.params = IF r.conflict THEN AllUnknown(f.arity)
                    ELSE [i \in 1 .. f.arity |-> effects(i, code, f, s)[Len(code)]]
      /\ b.return_effect = IF r.conflict \/ (f.pointer /\ r.effect = "None") THEN "Unknown" ELSE r.effect
      /\ b.return_borrow_arg = IF r.conflict THEN 0 ELSE r.arg
  BY DEF build
<1>5. /\ c.params = IF q.conflict THEN AllUnknown(f.arity)
                    ELSE [i \in 1 .. f.arity |-> effects(i, code, f, t)[Len(code)]]
      /\ c.return_effect = IF q.conflict \/ (f.pointer /\ q.effect = "None") THEN "Unknown" ELSE q.effect
      /\ c.return_borrow_arg = IF q.conflict THEN 0 ELSE q.arg
  BY DEF build
<1> HIDE DEF code, r, q, b, c
<1>6. DOMAIN b.params = 1 .. f.arity /\ DOMAIN c.params = 1 .. f.arity
  BY <1>4, <1>5 DEF AllUnknown
<1>7. CASE r.conflict
  <2>1. b.params = AllUnknown(f.arity) /\ b.return_effect = "Unknown"
    BY <1>4, <1>7
  <2>2. QED
    BY <1>6, <2>1 DEF Refined, AllUnknown, b, c
<1>8. CASE ~r.conflict
  <2>1. ~q.conflict /\ (r.effect = "Unknown" \/ (r.effect = q.effect /\ r.arg = q.arg))
    BY <1>2, <1>8 DEF SharperResult
  <2>2. \A i \in 1 .. f.arity : b.params[i] \in {"Unknown", c.params[i]}
    BY <1>3, <1>4, <1>5, <1>8, <2>1
  <2>3. b.return_effect = "Unknown" \/
           (b.return_effect = c.return_effect /\ b.return_borrow_arg = c.return_borrow_arg)
    BY <1>4, <1>5, <1>8, <2>1
  <2>4. QED
    BY <1>6, <2>2, <2>3 DEF Refined, b, c
<1>9. QED
  BY <1>7, <1>8

-----------------------------------------------------------------------------
(* What was compared with a contract *)

LEMMA RefinedOrder ==
    ASSUME NEW r, NEW s, NEW t
    PROVE  /\ Refined(r, r)
           /\ Refined(r, s) /\ Refined(s, t) => Refined(r, t)
  BY DEF Refined

\* A fact that is confirmed is no silence, so it stays confirmed.
LEMMA ConfirmedStays ==
    ASSUME NEW s, NEW t, Refined(s, t), NEW facts, Confirms(s, facts)
    PROVE  Confirms(t, facts)
<1>1. facts.ret \notin Silent =>
         /\ t.return_effect = facts.ret
         /\ facts.ret = "BorrowFromArg" => t.return_borrow_arg = facts.borrow
  BY DEF Confirms, Refined, Silent
<1>2. ASSUME NEW i \in DOMAIN facts.params, facts.params[i] \notin Silent
      PROVE  ParamOr(t.params, i) = facts.params[i]
  <2>1. ParamOr(s.params, i) = facts.params[i] /\ facts.params[i] # "Unknown"
    BY <1>2 DEF Confirms, Silent
  <2>2. i \in DOMAIN s.params /\ s.params[i] = facts.params[i]
    BY <2>1 DEF ParamOr
  <2>3. QED
    BY <2>1, <2>2 DEF Refined, ParamOr
<1>3. QED
  BY <1>1, <1>2 DEF Confirms

OwnSummaries(st) == [f \in Bodies |-> st[f]]

\* A round would not take back anything that is known.
Rising(st) == \A f \in Bodies : Refined(st[f], build(unit.bodies[f], DefinitionLast(f), st))

\* No round ever does, before the externals are known or after.
RoundsSharpen ==
    /\ phase = "infer" => DOMAIN store = Bodies /\ DOMAIN next \subseteq Bodies
    /\ phase \in {"infer", "annotations", "contracts"} => Rising(OwnSummaries(store))
    /\ phase = "reinfer" => Rising(store) /\ \A x : x \notin Bodies => SameFor(x, store, next)

Agreeing(st, c) ==
    c.symbol \in Bodies => st[c.symbol].conflict \/ Confirms(st[c.symbol], c.facts)

\* The contracts that have been compared with the bodies agree with them.
Compared ==
    ~contract_error =>
        \A i \in 1 .. Len(unit.contracts) :
            (phase \in {"reinfer", "done"} \/ (phase = "contracts" /\ i <= position)) =>
                Agreeing(store, unit.contracts[i])

LEMMA OwnSummariesOK ==
    ASSUME IInv, phase # "infer" \/ DOMAIN store = Bodies
    PROVE  /\ StoreOK(store) /\ StoreOK(OwnSummaries(store)) /\ Bodies \subseteq DOMAIN store
           /\ DOMAIN OwnSummaries(store) = Bodies
           /\ \A f \in Bodies : OwnSummaries(store)[f] = store[f]
<1>1. StoreOK(store) /\ Bodies \subseteq DOMAIN store
  BY DEF IInv, TypeOK, StoreOK, BodiesBuilt
<1>2. QED
  BY <1>1 DEF OwnSummaries, StoreOK

LEMMA InitiallySharpens == Init => RoundsSharpen
<1> SUFFICES ASSUME Init PROVE RoundsSharpen
  OBVIOUS
<1>1. IInv /\ unit \in Units /\ phase = "infer" /\ DOMAIN store = Bodies /\ DOMAIN next = {}
  BY Initially DEF Init, NoSummaries
<1>2. ASSUME NEW f \in Bodies
      PROVE  Refined(OwnSummaries(store)[f],
                     build(unit.bodies[f], DefinitionLast(f), OwnSummaries(store)))
  <2> DEFINE b == unit.bodies[f]
             new == build(b, DefinitionLast(f), OwnSummaries(store))
  <2>1. OwnSummaries(store)[f] = unknownSummary(b.arity)
    BY DEF Init, OwnSummaries
  <2>2. IsFunction(b) /\ StoreOK(OwnSummaries(store))
    BY <1>1, UnitFacts, OwnSummariesOK DEF Bodies
  <2>3. DOMAIN new.params = 1 .. b.arity
    BY DEF build, AllUnknown
  <2>4. QED
    BY <2>1, <2>3 DEF Refined, unknownSummary, AllUnknown
<1>3. QED
  BY <1>1, <1>2 DEF RoundsSharpen, Rising

\* The end of a round: every summary says what it said, and may say more.
LEMMA RoundRefines ==
    ASSUME IInv, RoundsSharpen, EndRound
    PROVE  /\ StoreOK(store) /\ StoreOK(next) /\ Bodies \subseteq DOMAIN next
           /\ Sharpened(store, next)
           /\ \A f \in Bodies : \/ next[f] = build(unit.bodies[f], DefinitionLast(f), store)
                               \/ /\ next[f] = store[f]
                                  /\ Refined(store[f], build(unit.bodies[f], DefinitionLast(f), store))
<1>1. /\ StoreOK(store) /\ StoreOK(next) /\ phase \in {"infer", "reinfer"} /\ unit \in Units
      /\ Bodies \subseteq DOMAIN next
  BY RoundComplete DEF IInv, TypeOK, StoreOK, EndRound, Rounds
<1>2. ASSUME NEW f \in Bodies
      PROVE  Refined(store[f], build(unit.bodies[f], DefinitionLast(f), store))
  <2>1. CASE phase = "reinfer"
    BY <2>1 DEF RoundsSharpen, Rising
  <2>2. CASE phase = "infer"
    <3> DEFINE own == OwnSummaries(store)
    <3>1. /\ DOMAIN store = Bodies /\ StoreOK(own) /\ DOMAIN own = Bodies
          /\ \A g \in Bodies : own[g] = store[g]
      BY <2>2, OwnSummariesOK DEF RoundsSharpen
    <3>2. Rising(own)
      BY <2>2 DEF RoundsSharpen
    <3> HIDE DEF own
    <3>3. \A x : SameFor(x, own, store)
      BY <3>1 DEF SameFor
    <3>4. IsFunction(unit.bodies[f])
      BY <1>1, UnitFacts DEF Bodies
    <3>5. build(unit.bodies[f], DefinitionLast(f), own) = build(unit.bodies[f], DefinitionLast(f), store)
      BY <1>1, <3>1, <3>3, <3>4, BuildAgrees DEF Agree
    <3>6. QED
      BY <3>1, <3>2, <3>5 DEF Rising
  <2>3. QED
    BY <1>1, <2>1, <2>2
<1>3. ASSUME NEW f \in Bodies
      PROVE  \/ next[f] = build(unit.bodies[f], DefinitionLast(f), store)
             \/ next[f] = store[f]
  <2>1. phase = "reinfer" /\ store[f].conflict => next[f] = store[f]
    BY DEF IInv, ConflictsPinned
  <2>2. QED
    BY <2>1, RoundBuilds
<1>4. ASSUME NEW x \in DOMAIN store
      PROVE  x \in DOMAIN next /\ Refined(store[x], next[x])
  <2>1. CASE x \in Bodies
    BY <1>1, <1>2, <1>3, <2>1, RefinedOrder
  <2>2. CASE x \notin Bodies
    BY <1>1, <1>4, <2>2, RefinedOrder DEF RoundsSharpen, SameFor
  <2>3. QED
    BY <2>1, <2>2
<1>5. QED
  BY <1>1, <1>2, <1>3, <1>4 DEF Sharpened

LEMMA EndRoundSharpens ==
    ASSUME IInv, RoundsSharpen, EndRound, Steady(unit)
    PROVE  RoundsSharpen'
<1>1. /\ unit' = unit /\ store' = next /\ Bodies' = Bodies
      /\ unit \in Units /\ phase \in {"infer", "reinfer"}
      /\ \/ phase' = Following(phase) /\ next' = NoSummaries
         \/ phase' = phase /\ next' = IF phase = "infer" THEN NoSummaries ELSE next
  BY DEF IInv, EndRound, Rounds, Bodies
<1>2. /\ StoreOK(store) /\ StoreOK(next) /\ Bodies \subseteq DOMAIN next /\ Sharpened(store, next)
      /\ \A f \in Bodies : \/ next[f] = build(unit.bodies[f], DefinitionLast(f), store)
                          \/ /\ next[f] = store[f]
                             /\ Refined(store[f], build(unit.bodies[f], DefinitionLast(f), store))
  BY RoundRefines
<1>3. ASSUME NEW f \in Bodies
      PROVE  Refined(next[f], build(unit.bodies[f], DefinitionLast(f), next))
  <2>1. IsFunction(unit.bodies[f]) /\ SteadyCode(unit.bodies[f].code)
    BY <1>1, UnitFacts DEF Bodies, Steady
  <2>2. Refined(build(unit.bodies[f], DefinitionLast(f), store),
                build(unit.bodies[f], DefinitionLast(f), next))
    BY <1>2, <2>1, BuildSharper
  <2>3. QED
    BY <1>2, <2>2, RefinedOrder
<1>4. \A st : Rising(st)' <=> Rising(st)
  BY <1>1 DEF Rising, DefinitionLast
<1>5. Rising(next)
  BY <1>3 DEF Rising
<1>6. CASE phase = "infer"
  <2> DEFINE own == [f \in Bodies |-> next[f]]
  <2>1. DOMAIN next = Bodies /\ DOMAIN NoSummaries = {}
    BY <1>2, <1>6 DEF RoundsSharpen, NoSummaries
  <2>2. StoreOK(own) /\ DOMAIN own = Bodies /\ \A f \in Bodies : own[f] = next[f]
    BY <1>2, <2>1 DEF StoreOK
  <2>3. OwnSummaries(store') = own /\ OwnSummaries(store)' = own
    BY <1>1 DEF OwnSummaries
  <2> HIDE DEF own
  <2>4. ASSUME NEW f \in Bodies
        PROVE  Refined(own[f], build(unit.bodies[f], DefinitionLast(f), own))
    <3>1. \A x : SameFor(x, own, next)
      BY <2>1, <2>2 DEF SameFor
    <3>2. IsFunction(unit.bodies[f])
      BY <1>1, UnitFacts DEF Bodies
    <3>3. build(unit.bodies[f], DefinitionLast(f), own) = build(unit.bodies[f], DefinitionLast(f), next)
      BY <1>2, <2>2, <3>1, <3>2, BuildAgrees DEF Agree
    <3>4. QED
      BY <1>3, <2>2, <3>3
  <2>5. Rising(own)
    BY <2>4 DEF Rising
  <2>6. Rising(OwnSummaries(store))'
    BY <1>4, <2>3, <2>5
  <2>7. phase' \in {"infer", "annotations"} /\ next' = NoSummaries
    BY <1>1, <1>6 DEF Following
  <2>8. QED
    BY <1>1, <2>1, <2>6, <2>7 DEF RoundsSharpen
<1>7. CASE phase = "reinfer"
  <2>1. phase' = "done" \/ (phase' = "reinfer" /\ next' = next)
    BY <1>1, <1>7 DEF Following
  <2>2. \A x : SameFor(x, next, next)
    BY DEF SameFor
  <2>3. Rising(store)'
    BY <1>1, <1>4, <1>5
  <2>4. phase' = "reinfer" => \A x : SameFor(x, store', next')
    BY <1>1, <2>1, <2>2
  <2>5. QED
    BY <2>1, <2>3, <2>4 DEF RoundsSharpen
<1>8. QED
  BY <1>1, <1>6, <1>7

LEMMA EndRoundCompared ==
    ASSUME IInv, RoundsSharpen, Compared, EndRound
    PROVE  Compared'
<1>1. /\ unit' = unit /\ store' = next /\ Bodies' = Bodies /\ contract_error' = contract_error
      /\ phase \in {"infer", "reinfer"} /\ phase' \in {phase, Following(phase)}
  BY DEF EndRound, Rounds, Bodies, reviewVars
<1>2. CASE phase = "infer"
  BY <1>1, <1>2 DEF Compared, Following
<1>3. CASE phase = "reinfer"
  <2>1. Bodies \subseteq DOMAIN store /\ Sharpened(store, next)
    BY <1>3, RoundRefines DEF IInv, BodiesBuilt
  <2>2. ASSUME NEW c, Agreeing(store, c)
        PROVE  Agreeing(next, c)
    <3> SUFFICES ASSUME c.symbol \in Bodies
                 PROVE  next[c.symbol].conflict \/ Confirms(next[c.symbol], c.facts)
      BY DEF Agreeing
    <3>1. store[c.symbol].conflict => next[c.symbol] = store[c.symbol]
      BY <1>3 DEF IInv, ConflictsPinned
    <3>2. Refined(store[c.symbol], next[c.symbol])
      BY <2>1 DEF Sharpened
    <3>3. QED
      BY <2>2, <3>1, <3>2, ConfirmedStays DEF Agreeing
  <2>3. \A c : Agreeing(next, c) <=> Agreeing(store, c)'
    BY <1>1 DEF Agreeing
  <2>4. QED
    BY <1>1, <1>3, <2>2, <2>3 DEF Compared
<1>4. QED
  BY <1>1, <1>2, <1>3

\* The steps between the two sequences of rounds keep what a round would find.
LEMMA SameBodiesSharpen ==
    ASSUME IInv, RoundsSharpen, Steady(unit), phase \in {"annotations", "contracts"}, unit' = unit,
           phase' \in {"annotations", "contracts"},
           StoreOK(store'), Bodies \subseteq DOMAIN store',
           \A f \in Bodies : store'[f] = store[f] \/ store'[f] = [store[f] EXCEPT !.conflict = TRUE]
    PROVE  RoundsSharpen'
<1>1. unit \in Units /\ Bodies' = Bodies
  BY DEF IInv, Bodies
<1> DEFINE own == OwnSummaries(store)
           new == [f \in Bodies |-> store'[f]]
<1>2. /\ StoreOK(own) /\ DOMAIN own = Bodies /\ \A f \in Bodies : own[f] = store[f] /\ own[f] \in FunctionSummary
  BY OwnSummariesOK DEF StoreOK
<1>3. StoreOK(new) /\ DOMAIN new = Bodies /\ \A f \in Bodies : new[f] = store'[f]
  BY DEF StoreOK
<1>4. Rising(own)
  BY DEF RoundsSharpen
<1>5. OwnSummaries(store)' = new
  BY <1>1 DEF OwnSummaries
<1> HIDE DEF own, new
<1>6. ASSUME NEW f \in Bodies
      PROVE  /\ new[f].params = own[f].params /\ new[f].return_effect = own[f].return_effect
             /\ new[f].return_borrow_arg = own[f].return_borrow_arg
  <2> DEFINE old == store[f]
             marked == [old EXCEPT !.conflict = TRUE]
  <2>1. old \in FunctionSummary /\ own[f] = old /\ new[f] \in {old, marked}
    BY <1>2, <1>3
  <2>2. marked.params = old.params /\ marked.return_effect = old.return_effect
        /\ marked.return_borrow_arg = old.return_borrow_arg
    <3> HIDE DEF old
    <3>1. QED
      BY <2>1 DEF FunctionSummary
  <2> HIDE DEF old, marked
  <2>3. QED
    BY <2>1, <2>2
<1>7. Sharpened(own, new)
  BY <1>2, <1>3, <1>6 DEF Sharpened, Refined
<1>8. ASSUME NEW f \in Bodies
      PROVE  Refined(new[f], build(unit.bodies[f], DefinitionLast(f), new))
  <2>1. IsFunction(unit.bodies[f]) /\ SteadyCode(unit.bodies[f].code)
    BY <1>1, UnitFacts DEF Bodies, Steady
  <2>2. Refined(build(unit.bodies[f], DefinitionLast(f), own),
                build(unit.bodies[f], DefinitionLast(f), new))
    BY <1>2, <1>3, <1>7, <2>1, BuildSharper
  <2>3. Refined(new[f], own[f])
    BY <1>6 DEF Refined
  <2>4. QED
    BY <1>4, <2>2, <2>3, RefinedOrder DEF Rising
<1>9. \A st : Rising(st)' <=> Rising(st)
  BY <1>1 DEF Rising, DefinitionLast
<1>10. Rising(OwnSummaries(store))'
  BY <1>5, <1>8, <1>9 DEF Rising
<1>11. QED
  BY <1>10 DEF RoundsSharpen

\* What a contract does to the summaries of the bodies.
LEMMA ApplyContractCompares ==
    ASSUME IInv, ApplyContract
    PROVE  LET c == unit.contracts[position + 1]
           IN  /\ \A f \in Bodies : \/ store'[f] = store[f]
                                   \/ store'[f] = [store[f] EXCEPT !.conflict = TRUE]
               /\ c.symbol \in Bodies /\ ~contract_error' =>
                     store'[c.symbol].conflict \/ Confirms(store'[c.symbol], c.facts)
<1> DEFINE c == unit.contracts[position + 1]
           d == Declaration(c.symbol)
           v == contracted(Known(c.symbol), c.symbol, c.facts, d)
<1>1. \A f \in Bodies : f \in DOMAIN store /\ store[f].origin = "BodyVerified"
                      /\ store[f] \in FunctionSummary
  BY DEF IInv, TypeOK, BodiesBuilt, ApplyContract
<1>2. IF Malformed(c.facts, d) THEN contract_error' = TRUE /\ store' = store
                               ELSE store' = With(store, c.symbol, v)
  BY DEF ApplyContract
<1>3. ASSUME NEW f \in Bodies, f = c.symbol
      PROVE  /\ v = IF Confirms(store[f], c.facts) THEN store[f]
                    ELSE [store[f] EXCEPT !.conflict = TRUE]
             /\ v.conflict \/ Confirms(v, c.facts)
  <2>1. Known(c.symbol) = store[f]
    BY <1>1, <1>3 DEF Known
  <2>2. v = IF Confirms(store[f], c.facts) THEN store[f] ELSE [store[f] EXCEPT !.conflict = TRUE]
    BY <1>1, <2>1 DEF contracted
  <2>3. [store[f] EXCEPT !.conflict = TRUE].conflict = TRUE
    BY <1>1 DEF FunctionSummary
  <2> HIDE DEF v
  <2>4. QED
    BY <2>2, <2>3
<1> HIDE DEF v, d
<1>4. CASE Malformed(c.facts, d)
  BY <1>2, <1>4
<1>5. CASE ~Malformed(c.facts, d)
  <2>1. store' = With(store, c.symbol, v)
    BY <1>2, <1>5
  <2>2. \A f \in Bodies : store'[f] = IF f = c.symbol THEN v ELSE store[f]
    BY <1>1, <2>1 DEF With
  <2>3. QED
    BY <1>3, <2>2
<1>6. QED
  BY <1>4, <1>5

LEMMA ApplyContractCompared ==
    ASSUME IInv, Compared, ApplyContract
    PROVE  Compared'
<1> DEFINE c == unit.contracts[position + 1]
<1>1. /\ unit' = unit /\ Bodies' = Bodies /\ phase = "contracts" /\ phase' = "contracts"
      /\ position' = position + 1 /\ position \in Nat /\ position < Len(unit.contracts)
      /\ contract_error => contract_error'
      /\ \A f \in Bodies : f \in DOMAIN store /\ store[f] \in FunctionSummary
  BY DEF IInv, TypeOK, BodiesBuilt, ApplyContract, Bodies
<1>2. /\ \A f \in Bodies : store'[f] = store[f] \/ store'[f] = [store[f] EXCEPT !.conflict = TRUE]
      /\ c.symbol \in Bodies /\ ~contract_error' =>
            store'[c.symbol].conflict \/ Confirms(store'[c.symbol], c.facts)
  BY ApplyContractCompares
<1>3. \A f \in Bodies : [store[f] EXCEPT !.conflict = TRUE].conflict = TRUE
  BY <1>1 DEF FunctionSummary
<1>4. ASSUME NEW k, Agreeing(store, k)
      PROVE  Agreeing(store', k)
  BY <1>2, <1>3, <1>4 DEF Agreeing
<1>5. \A k : Agreeing(store', k) <=> Agreeing(store, k)'
  BY <1>1 DEF Agreeing
<1>6. ASSUME ~contract_error', NEW i \in 1 .. Len(unit.contracts), i <= position + 1
      PROVE  Agreeing(store', unit.contracts[i])
  <2>1. CASE i = position + 1
    BY <1>2, <1>6, <2>1 DEF Agreeing
  <2>2. CASE i # position + 1
    <3>1. i <= position
      BY <1>1, <1>6, <2>2
    <3>2. Agreeing(store, unit.contracts[i])
      BY <1>1, <1>6, <3>1 DEF Compared
    <3>3. QED
      BY <1>4, <3>2
  <2>3. QED
    BY <2>1, <2>2
<1>7. QED
  BY <1>1, <1>5, <1>6 DEF Compared

LEMMA NextSharpens ==
    ASSUME IInv, RoundsSharpen, Compared, Steady(unit), [Next]_vars
    PROVE  RoundsSharpen' /\ Compared'
<1>1. unit' = unit /\ Bodies' = Bodies
  BY DEF Next, Build, EndRound, ReviewAnnotation, AnnotationsDone, ApplyContract, ContractsDone,
         vars, Bodies
<1>2. \A st : Rising(st)' <=> Rising(st)
  BY <1>1 DEF Rising, DefinitionLast
<1>3. \A st, c : Agreeing(st, c)' <=> Agreeing(st, c)
  BY <1>1 DEF Agreeing
<1>4. CASE UNCHANGED vars
  <2>1. /\ phase' = phase /\ store' = store /\ next' = next /\ position' = position
        /\ contract_error' = contract_error
    BY <1>4 DEF vars
  <2>2. OwnSummaries(store)' = OwnSummaries(store)
    BY <1>1, <2>1 DEF OwnSummaries
  <2>3. RoundsSharpen'
    BY <1>1, <1>2, <2>1, <2>2 DEF RoundsSharpen
  <2>4. Compared'
    BY <1>1, <1>3, <2>1 DEF Compared
  <2>5. QED
    BY <2>3, <2>4
<1>5. CASE Build
  <2> DEFINE declared == unit.functions[position + 1]
             f == declared.name
             v == build(unit.bodies[f], declared.definition, store)
  <2>1. /\ phase' = phase /\ store' = store /\ contract_error' = contract_error
        /\ phase \in {"infer", "reinfer"}
        /\ next' = next \/ next' = With(next, f, v)
    BY <1>5 DEF Build, Rounds, reviewVars
  <2>2. f \in Bodies
    <3>1. /\ unit \in Units
          /\ position \in Nat /\ position < Len(unit.functions)
      BY <1>5 DEF IInv, TypeOK, Build
    <3>2. position + 1 \in 1 .. Len(unit.functions)
      BY <3>1, UnitFacts
    <3>3. QED
      BY <3>1, <3>2, UnitFacts DEF Bodies
  <2> HIDE DEF v
  <2>3. /\ DOMAIN next \subseteq Bodies => DOMAIN next' \subseteq Bodies
        /\ \A x : x \notin Bodies => (x \in DOMAIN next' <=> x \in DOMAIN next)
        /\ \A x : x \notin Bodies /\ x \in DOMAIN next => next'[x] = next[x]
    BY <2>1, <2>2 DEF With
  <2>4. OwnSummaries(store)' = OwnSummaries(store)
    BY <1>1, <2>1 DEF OwnSummaries
  <2>5. ASSUME phase = "reinfer", NEW x, x \notin Bodies
        PROVE  SameFor(x, store', next')
    BY <2>1, <2>3, <2>5 DEF RoundsSharpen, SameFor
  <2>6. RoundsSharpen'
    BY <1>1, <1>2, <2>1, <2>3, <2>4, <2>5 DEF RoundsSharpen
  <2>7. Compared'
    BY <1>1, <1>3, <2>1 DEF Compared
  <2>8. QED
    BY <2>6, <2>7
<1>6. CASE EndRound
  BY <1>6, EndRoundSharpens, EndRoundCompared
<1>7. CASE ReviewAnnotation
  <2>1. /\ phase = "annotations" /\ phase' = "annotations" /\ IInv'
        /\ contract_error => contract_error'
    BY <1>7, ReviewAnnotationPreserves DEF ReviewAnnotation
  <2>2. /\ StoreOK(store') /\ Bodies \subseteq DOMAIN store'
    BY <1>1, <2>1 DEF IInv, TypeOK, StoreOK, BodiesBuilt
  <2>3. \A f \in Bodies : store'[f] = store[f]
    <3> DEFINE a == unit.annotated[position + 1]
    <3>1. a.symbol \notin Bodies
      <4>1. unit \in Units /\ position + 1 \in 1 .. Len(unit.annotated)
        BY <1>7 DEF IInv, TypeOK, ReviewAnnotation
      <4>2. QED
        BY <4>1, UnitFacts DEF Bodies
    <3>2. Bodies \subseteq DOMAIN store
      BY <2>1 DEF IInv, BodiesBuilt
    <3>3. store' = store \/ \E v : store' = With(store, a.symbol, v)
      BY <1>7 DEF ReviewAnnotation
    <3>4. QED
      BY <3>1, <3>2, <3>3 DEF With
  <2>4. RoundsSharpen'
    BY <1>1, <2>1, <2>2, <2>3, SameBodiesSharpen
  <2>5. Compared'
    BY <2>1 DEF Compared
  <2>6. QED
    BY <2>4, <2>5
<1>8. CASE AnnotationsDone
  <2>1. /\ phase = "annotations" /\ phase' = "contracts" /\ position' = 0 /\ store' = store
        /\ StoreOK(store) /\ Bodies \subseteq DOMAIN store
    BY <1>8, OwnSummariesOK DEF AnnotationsDone
  <2>2. RoundsSharpen'
    BY <1>1, <2>1, SameBodiesSharpen
  <2>3. \A i \in 1 .. Len(unit.contracts) : ~(i <= 0)
    OBVIOUS
  <2>4. Compared'
    BY <1>1, <2>1, <2>3 DEF Compared
  <2>5. QED
    BY <2>2, <2>4
<1>9. CASE ApplyContract
  <2>1. /\ phase = "contracts" /\ phase' = "contracts" /\ StoreOK(store') /\ Bodies \subseteq DOMAIN store'
    BY <1>9, ApplyContractFacts DEF ApplyContract
  <2>2. \A f \in Bodies : store'[f] = store[f] \/ store'[f] = [store[f] EXCEPT !.conflict = TRUE]
    BY <1>9, ApplyContractCompares
  <2>3. QED
    BY <1>1, <1>9, <2>1, <2>2, SameBodiesSharpen, ApplyContractCompared
<1>10. CASE ContractsDone
  <2>1. /\ phase = "contracts" /\ phase' = "reinfer" /\ store' = store /\ next' = store
        /\ position = Len(unit.contracts) /\ contract_error' = contract_error /\ unit \in Units
    BY <1>10 DEF ContractsDone, reviewVars, IInv
  <2> DEFINE own == OwnSummaries(store)
  <2>2. /\ StoreOK(store) /\ StoreOK(own) /\ Bodies \subseteq DOMAIN store /\ DOMAIN own = Bodies
        /\ \A f \in Bodies : own[f] = store[f]
    BY <2>1, OwnSummariesOK
  <2>3. Rising(own)
    BY <2>1 DEF RoundsSharpen
  <2> HIDE DEF own
  <2>4. Sharpened(own, store)
    BY <2>2, RefinedOrder DEF Sharpened
  <2>5. ASSUME NEW f \in Bodies
        PROVE  Refined(store[f], build(unit.bodies[f], DefinitionLast(f), store))
    <3>1. IsFunction(unit.bodies[f]) /\ SteadyCode(unit.bodies[f].code)
      BY <2>1, UnitFacts DEF Bodies, Steady
    <3>2. Refined(build(unit.bodies[f], DefinitionLast(f), own),
                  build(unit.bodies[f], DefinitionLast(f), store))
      BY <2>2, <2>4, <3>1, BuildSharper
    <3>3. QED
      BY <2>2, <2>3, <3>2, RefinedOrder DEF Rising
  <2>6. Rising(store)
    BY <2>5 DEF Rising
  <2>7. \A x : SameFor(x, store', next')
    BY <2>1 DEF SameFor
  <2>8. RoundsSharpen'
    BY <1>2, <2>1, <2>6, <2>7 DEF RoundsSharpen
  <2>9. \A i \in 1 .. Len(unit.contracts) : i <= position
    BY <2>1
  <2>10. Compared'
    BY <1>1, <1>3, <2>1, <2>9 DEF Compared
  <2>11. QED
    BY <2>8, <2>10
<1>11. QED
  BY <1>4, <1>5, <1>6, <1>7, <1>8, <1>9, <1>10 DEF Next

-----------------------------------------------------------------------------
(* The theorems *)

\* Every summary of every store the rounds, the annotations and the contracts
\* produce is a well-formed FunctionSummary: each parameter has an effect of
\* the enumeration and the result refers to a parameter number.
THEOREM SummariesTyped == Spec => []TypeOK
<1>1. IInv => TypeOK
  BY DEF IInv
<1>2. QED
  BY <1>1, Invariant, PTL

\* applyContractSymbol and seedReviewedAnnotations never replace the summary
\* that was built from a body, whatever the trusted inputs are.
THEOREM BodySummariesWin == Spec => []BodiesWin
<1>1. IInv => BodiesWin
  BY DEF IInv
<1>2. QED
  BY <1>1, Invariant, PTL

\* A conflict between a body and a contract survives every later contract and
\* every later round of prepare.
THEOREM ConflictsArePinned == Spec => ConflictsStay
<1> DEFINE A == (phase \in {"contracts", "reinfer"}) =>
                  \A f \in Bodies : store[f].conflict => f \in DOMAIN store' /\ store'[f].conflict
<1>1. IInv /\ [Next]_vars => [A]_vars
  <2> SUFFICES ASSUME IInv, Next, phase \in {"contracts", "reinfer"},
                      NEW f \in Bodies, store[f].conflict
               PROVE  f \in DOMAIN store' /\ store'[f].conflict
    OBVIOUS
  <2>1. f \in DOMAIN store
    BY DEF IInv, BodiesBuilt
  <2>2. CASE store' = store
    BY <2>1, <2>2
  <2>3. CASE EndRound
    <3>1. store' = next /\ phase = "reinfer"
      BY <2>3 DEF EndRound, Rounds
    <3>2. f \in DOMAIN next
      BY <2>3, RoundComplete
    <3>3. next[f] = store[f]
      BY <3>1 DEF IInv, ConflictsPinned
    <3>4. QED
      BY <3>1, <3>2, <3>3
  <2>4. CASE ApplyContract
    BY <2>4, ApplyContractFacts
  <2>5. store' = store \/ EndRound \/ ApplyContract
    BY DEF Next, Build, AnnotationsDone, ContractsDone, ReviewAnnotation
  <2>6. QED
    BY <2>2, <2>3, <2>4, <2>5
<1>2. QED
  BY <1>1, Invariant, PTL DEF Spec, ConflictsStay

\* When the last rounds of prepare end because nothing changed, every summary
\* of a body is the one its body has under the summaries of its callees, or it
\* is in conflict: the comparison of two stores is a test for a solution.
THEOREM StableMeansSolved == Spec => EarlyEndSolves
<1> DEFINE A == (phase = "reinfer" /\ phase' = "done" /\ ~LastRound) =>
                  \A f \in Bodies : f \in DOMAIN store' /\
                      (store'[f].conflict \/ Solves(store', f))
<1>1. IInv /\ [Next]_vars => [A]_vars
  <2> SUFFICES ASSUME IInv, Next, phase = "reinfer", phase' = "done", ~LastRound,
                      NEW f \in Bodies
               PROVE  f \in DOMAIN store' /\ (store'[f].conflict \/ Solves(store', f))
    OBVIOUS
  <2>1. EndRound
    BY DEF Next, Build, ReviewAnnotation, AnnotationsDone, ApplyContract, ContractsDone
  <2>2. next = store /\ store' = next /\ position = Len(unit.functions)
    BY <2>1 DEF EndRound, Stable
  <2>3. f \in DOMAIN store'
    BY <2>1, <2>2, RoundComplete
  <2>4. ~store[f].conflict => Solves(store, f)
    BY <2>1, <2>2, RoundBuilds DEF Solves
  <2>5. QED
    BY <2>2, <2>3, <2>4
<1>2. QED
  BY <1>1, Invariant, PTL DEF Spec, EarlyEndSolves

\* The rounds of prepare, as many as there are declarations and one more, are
\* enough where no function calls itself: what prepare ends with agrees with
\* itself, conflicts aside, whatever contracts and annotations said and
\* whatever summaries the second rounds began with.
THEOREM RoundsAreEnough ==
    ASSUME \A u \in Units : NonRecursive(u)
    PROVE  Spec => []ConvergedOrClosed
<1>1. Init => RoundsSettle
  BY DEF Init, RoundsSettle, ConvergedOrClosed
<1>2. IInv /\ RoundsSettle /\ [Next]_vars => RoundsSettle'
  <2>1. IInv => NonRecursive(unit)
    BY DEF IInv
  <2>2. QED
    BY <2>1, NextSettles
<1>3. RoundsSettle => ConvergedOrClosed
  BY DEF RoundsSettle
<1>4. QED
  BY <1>1, <1>2, <1>3, Invariant, PTL DEF Spec

\* Where the final summaries agree with each other or are not relied on, none
\* of them hides a destruction: a body that frees a parameter's object, passes
\* it to an external that consumes it, or to another body that does, says so.
\* The units are those without a definition before a mere redeclaration.
THEOREM DestructionIsOnRecord ==
    ASSUME \A u \in Units : Orderly(u)
    PROVE  Spec => [](ConvergedOrClosed => DestructionCovered)
<1>1. IInv /\ BodiesSized => (ConvergedOrClosed => DestructionCovered)
  <2>1. IInv => Orderly(unit)
    BY DEF IInv
  <2>2. QED
    BY <2>1, AgreementCovers
<1>2. QED
  BY <1>1, Invariant, SizedInvariant, PTL

\* So in units without recursion none ever does.
THEOREM DestructionIsCovered ==
    ASSUME \A u \in Units : Orderly(u) /\ NonRecursive(u)
    PROVE  Spec => []DestructionCovered
<1>1. Spec => []ConvergedOrClosed
  BY RoundsAreEnough
<1>2. Spec => [](ConvergedOrClosed => DestructionCovered)
  BY DestructionIsOnRecord
<1>3. QED
  BY <1>1, <1>2, PTL

\* Where the final summaries agree with each other or are not relied on, no
\* contract contradicts a body and what owned-returning functions do with their
\* parameters is known, the result of each body is what its summary says: fresh
\* or given where it says owned, the named parameter's object where it says
\* borrowed, on every path and through every callee.
THEOREM ReturnsAreOnRecord ==
    ASSUME \A u \in Units : Orderly(u) /\ PlainReturns(u)
    PROVE  Spec => []((ConvergedOrClosed /\ Uncontradicted /\ OwnersKnown) => ReturnOriginsCovered)
<1>1. Init => ExternalsStated
  BY InitiallyStated
<1>2. IInv /\ ExternalsStated /\ [Next]_vars => ExternalsStated'
  <2>1. IInv => PlainReturns(unit)
    BY DEF IInv
  <2>2. QED
    BY <2>1, NextStated
<1>3. IInv /\ BodiesSized /\ ExternalsStated =>
        ((ConvergedOrClosed /\ Uncontradicted /\ OwnersKnown) => ReturnOriginsCovered)
  <2>1. IInv => Orderly(unit) /\ PlainReturns(unit)
    BY DEF IInv
  <2>2. phase # "done" => ReturnOriginsCovered
    BY DEF ReturnOriginsCovered, Settled
  <2>3. QED
    BY <2>1, <2>2, OriginsTold DEF Answerable
<1>4. QED
  BY <1>1, <1>2, <1>3, Invariant, SizedInvariant, PTL DEF Spec

\* So in units without recursion, whatever order the functions are declared in.
THEOREM ReturnsAreCovered ==
    ASSUME \A u \in Units : Orderly(u) /\ PlainReturns(u) /\ NonRecursive(u)
    PROVE  Spec => []((Uncontradicted /\ OwnersKnown) => ReturnOriginsCovered)
<1>1. Spec => []ConvergedOrClosed
  BY RoundsAreEnough
<1>2. Spec => []((ConvergedOrClosed /\ Uncontradicted /\ OwnersKnown) => ReturnOriginsCovered)
  BY ReturnsAreOnRecord
<1>3. QED
  BY <1>1, <1>2, PTL

\* prepare compares a contract with a body before the functions the body calls
\* are known, and not again.  For the summaries it ends with that is enough
\* where what the later rounds learn can only fill in what was Unknown: no call
\* is passed a local that stands for a parameter, no parameter is passed on and
\* then returned, and a function that returns another's result returns nothing
\* else.  Recursion, annotations and the number of rounds do not matter.
THEOREM ComparedOnceIsEnough ==
    ASSUME \A u \in Units : Steady(u)
    PROVE  Spec => []ContractsAgree
<1>1. Init => RoundsSharpen /\ Compared
  <2>1. Init => Compared
    BY DEF Init, Compared
  <2>2. QED
    BY <2>1, InitiallySharpens
<1>2. IInv /\ (RoundsSharpen /\ Compared) /\ [Next]_vars => (RoundsSharpen /\ Compared)'
  <2>1. IInv => Steady(unit)
    BY DEF IInv
  <2>2. QED
    BY <2>1, NextSharpens
<1>3. IInv /\ Compared => ContractsAgree
  <2> SUFFICES ASSUME IInv, Compared, phase = "done", ~contract_error,
                      NEW i \in DOMAIN unit.contracts,
                      unit.contracts[i].symbol \in Bodies
               PROVE  \/ store[unit.contracts[i].symbol].conflict
                      \/ Confirms(store[unit.contracts[i].symbol], unit.contracts[i].facts)
    BY DEF ContractsAgree
  <2>1. i \in 1 .. Len(unit.contracts)
    BY UnitFacts DEF IInv
  <2>2. QED
    BY <2>1 DEF Compared, Agreeing
<1>4. QED
  BY <1>1, <1>2, <1>3, Invariant, PTL DEF Spec
===============================================================================
