--------------------------- MODULE SummaryBuilder ---------------------------
(***************************************************************************)
(* SummaryBuilder of src/src/cand.cpp: the summary of one function with a  *)
(* body, from its annotations, its statements and the summaries (the       *)
(* store) its callees had in the round before.                             *)
(*                                                                         *)
(* The body is the sequence of its events in the order scan visits them,   *)
(* with the syntactic questions answered: which parameters an expression   *)
(* contains, which one it is (parameterIndex), which one a local stands    *)
(* for (aliasedParameterIndex), and whether a call is under a condition.   *)
(* Only pointer parameters are numbered, and malloc stands for calloc too. *)
(***************************************************************************)
EXTENDS FunctionSummaries, FiniteSets

\* An argument contains the parameters params, is parameter direct itself, or
\* is a local that holds parameter alias.
IsArgument(a, arity) ==
    /\ a.params \subseteq 1 .. arity
    /\ a.direct \in 0 .. arity /\ (a.direct # 0 => a.params = {a.direct})
    /\ a.alias \in 0 .. arity /\ (a.alias # 0 => a.params = {})

IsCall(e, arity) ==
    /\ e.fn \in STRING
    /\ Len(e.args) \in Nat
    /\ DOMAIN e.args = 1 .. Len(e.args)
    /\ \A j \in DOMAIN e.args : IsArgument(e.args[j], arity)

IsEvent(e, arity) ==
    \/ e.op \in {"deref", "element", "flow"} /\ e.params \subseteq 1 .. arity
    \/ e.op = "call" /\ IsCall(e, arity) /\ e.conditional \in BOOLEAN
    \/ e.op = "return_param" /\ e.param \in 1 .. arity
    \/ e.op = "return_call" /\ IsCall(e, arity)
    \/ e.op = "return_local" /\ e.fn \in STRING    \* a local that holds what fn() gave it
    \/ e.op = "return_other"

\* A function with a body: its parameters, those that point to pointers and
\* those the body assigns, and what its annotations say.
IsFunction(f) ==
    /\ f.arity \in Nat
    /\ f.pointer \in BOOLEAN
    /\ f.indirect \subseteq 1 .. f.arity
    /\ f.assigned \subseteq 1 .. f.arity
    /\ f.annotated \in [1 .. f.arity -> ParamEffect]
    /\ f.returns \in {"None", "Owned", "BorrowFromArg"}
    /\ f.returns_from \in Nat
    /\ Len(f.code) \in Nat /\ DOMAIN f.code = 1 .. Len(f.code)
    /\ \A n \in 1 .. Len(f.code) : IsEvent(f.code[n], f.arity)

-----------------------------------------------------------------------------
(* Effects on the parameters *)

\* Fault: what is borrowed once stays a borrow.
CombinedBorrow(old, new) ==
    IF old = "Borrow" THEN old
    ELSE IF old = "None" THEN new
    ELSE IF old = "TakeOwnership" /\ new \in Consuming THEN old
    ELSE IF new = old THEN old ELSE "Unknown"

\* None and Borrow give way to the next effect, whatever it is.
Combined(old, new) ==
    IF old = "TakeOwnership" /\ new \in Consuming THEN old
    ELSE IF old \in {"None", "Borrow"} THEN new
    ELSE IF new = old THEN old ELSE "Unknown"

CalleeEffect(e, j, store) ==
    IF e.fn = "free" /\ Len(e.args) = 1 THEN "Destroy"
    ELSE IF e.fn \in DOMAIN store /\ j \in DOMAIN store[e.fn].params
    THEN store[e.fn].params[j] ELSE "Unknown"

\* The parameters an argument passes on: an alias counts for an effect that
\* consumes it, and for no other.
Currents(arg, effect) ==
    IF arg.params = {} /\ arg.alias # 0 /\ effect \in Consuming
    THEN {arg.alias} ELSE arg.params

\* Under a condition only the effects that leave ownership alone are kept.
Kept(effect, conditional) ==
    IF conditional /\ effect \notin {"None", "Borrow"} THEN "Unknown" ELSE effect

\* What an argument makes of the effect old on parameter i.
passed(old, i, arg, effect, conditional) ==
    LET currents == Currents(arg, effect)
    IN  IF i \notin currents THEN old
        ELSE IF currents # {i} THEN "Unknown"
        ELSE Combined(old, Kept(effect, conditional))

\* The arguments of a call in order.
called(old, i, e, store) ==
    LET after[j \in 0 .. Len(e.args)] ==
            IF j = 0 THEN old
            ELSE passed(after[j - 1], i, e.args[j], CalleeEffect(e, j, store), e.conditional)
    IN  after[Len(e.args)]

\* A read through a parameter, or its flow into a local, is a borrow at least.
\* A member or an element of it is one even if the parameter points to a
\* pointer.
touched(old, i, e, indirect) ==
    IF i \notin e.params \/ old # "None" THEN old
    ELSE IF i \in indirect /\ e.op # "element" THEN "Unknown" ELSE "Borrow"

\* Element n is the effect on parameter i after the first n events.
effects(i, code, f, store) ==
    LET after[n \in 0 .. Len(code)] ==
            IF n = 0 THEN f.annotated[i]
            ELSE LET e == code[n]
                 IN  CASE e.op \in {"deref", "element", "flow"} ->
                             touched(after[n - 1], i, e, f.indirect)
                       [] e.op = "call" -> called(after[n - 1], i, e, store)
                       [] OTHER -> after[n - 1]
    IN  after

-----------------------------------------------------------------------------
(* Returned values: an effect and the parameter it refers to *)

Returned(effect, arg) == [effect |-> effect, arg |-> arg]

\* Fault: a parameter the body assigns still counts for what was passed.
returnedParamAnyway(e, f, effect) ==
    IF effect = "TakeOwnership" THEN Returned("Owned", e.param)
    ELSE Returned("BorrowFromArg", e.param)

\* effect: the effect on the parameter when the statement is scanned.
returnedParam(e, f, effect) ==
    IF e.param \in f.assigned THEN Returned("Unknown", 0)
    ELSE IF effect = "TakeOwnership" THEN Returned("Owned", e.param)
    ELSE Returned("BorrowFromArg", e.param)

\* A borrow from an argument of the callee is one from the parameter that was
\* passed there, if that parameter itself was.
returnedCall(e, f, store) ==
    LET effect == store[e.fn].return_effect
        arg    == store[e.fn].return_borrow_arg
        direct == e.args[arg].direct
    IN  IF e.fn = "malloc" THEN Returned("Owned", 0)
        ELSE IF e.fn \notin DOMAIN store THEN Returned("Unknown", 0)
        ELSE IF effect # "BorrowFromArg" \/ arg \notin DOMAIN e.args
        THEN Returned(effect, arg)
        ELSE IF direct = 0 THEN Returned("Unknown", arg)
        ELSE IF direct \in f.assigned THEN Returned("Unknown", 0)
        ELSE Returned("BorrowFromArg", direct)

returnedLocal(e, store) ==
    IF \/ e.fn = "malloc"
       \/ e.fn \in DOMAIN store /\ store[e.fn].return_effect = "Owned"
    THEN Returned("Owned", 0) ELSE Returned("Unknown", 0)

\* The result of a function so far: an effect, the parameter it refers to, and
\* whether two returns contradict each other.
Result(effect, arg, conflict) == [effect |-> effect, arg |-> arg, conflict |-> conflict]

combineReturn(s, r) ==
    IF r.effect = "None" THEN s
    ELSE IF s.effect = "None" THEN Result(r.effect, r.arg, s.conflict)
    ELSE IF \/ s.effect # r.effect
            \/ r.effect = "BorrowFromArg" /\ s.arg # r.arg
    THEN Result(s.effect, s.arg, TRUE) ELSE s

annotatedReturn(f) ==
    IF f.returns # "BorrowFromArg" THEN Result(f.returns, 0, FALSE)
    ELSE IF f.returns_from \in 1 .. f.arity THEN Result(f.returns, f.returns_from, FALSE)
    ELSE Result("None", 0, TRUE)

\* Element n is the result after the first n events.
results(code, f, store) ==
    LET after[n \in 0 .. Len(code)] ==
            IF n = 0 THEN annotatedReturn(f)
            ELSE LET e == code[n]
                     before == after[n - 1]
                 IN  CASE e.op = "return_param" ->
                             combineReturn(before, returnedParam(e, f,
                                 effects(e.param, code, f, store)[n - 1]))
                       [] e.op = "return_call" ->
                             combineReturn(before, returnedCall(e, f, store))
                       [] e.op = "return_local" ->
                             combineReturn(before, returnedLocal(e, store))
                       [] e.op = "return_other" ->
                             combineReturn(before, Returned("Unknown", 0))
                       [] e.op = "call" /\ e.fn = "realloc" ->
                             Result(before.effect, before.arg, TRUE)
                       [] OTHER -> before
    IN  after

-----------------------------------------------------------------------------
(* build *)

\* The body as a declaration that is not the definition sees it.  Its own
\* parameters are other declarations than those the body names, so no
\* expression of the body contains one.
Foreign == [params |-> {}, direct |-> 0, alias |-> 0]
ForeignArguments(e) == [j \in 1 .. Len(e.args) |-> Foreign]

SeenByRedeclaration(e) ==
    CASE e.op \in {"deref", "element", "flow"} -> [op |-> e.op, params |-> {}]
      [] e.op = "call" -> [op |-> "call", fn |-> e.fn, args |-> ForeignArguments(e),
                           conditional |-> e.conditional]
      [] e.op = "return_call" -> [op |-> "return_call", fn |-> e.fn, args |-> ForeignArguments(e)]
      [] e.op = "return_param" -> [op |-> "return_other"]
      [] OTHER -> e

VisibleCode(f, definition) ==
    IF definition THEN f.code
    ELSE [n \in 1 .. Len(f.code) |-> SeenByRedeclaration(f.code[n])]

\* A function that contradicts itself is Unknown in everything, and a pointer
\* function that says nothing of its result is Unknown in that.
build(f, definition, store) ==
    LET code   == VisibleCode(f, definition)
        result == results(code, f, store)[Len(code)]
    IN  [params |-> IF result.conflict THEN AllUnknown(f.arity)
                    ELSE [i \in 1 .. f.arity |-> effects(i, code, f, store)[Len(code)]],
         return_effect |-> IF result.conflict \/ (f.pointer /\ result.effect = "None")
                           THEN "Unknown" ELSE result.effect,
         return_borrow_arg |-> IF result.conflict THEN 0 ELSE result.arg,
         origin |-> "BodyVerified", conflict |-> result.conflict]
=============================================================================
