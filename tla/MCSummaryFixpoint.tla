-------------------------- MODULE MCSummaryFixpoint --------------------------
(***************************************************************************)
(* The translation units SummaryFixpoint is checked on: three functions    *)
(* and two externals, by the shape of the call graph.                      *)
(***************************************************************************)
EXTENDS SummaryMeaning

Param(i) == [params |-> {i}, direct |-> i, alias |-> 0]
PartOf(i) == [params |-> {i}, direct |-> 0, alias |-> 0]
LocalFor(i) == [params |-> {}, direct |-> 0, alias |-> i]
Null == [params |-> {}, direct |-> 0, alias |-> 0]
EitherOf == [params |-> {1, 2}, direct |-> 0, alias |-> 0]

Touch(op, i) == [op |-> op, params |-> {i}]
CallOf(fn, args) == [op |-> "call", fn |-> fn, args |-> args, conditional |-> FALSE]
MaybeCall(fn, args) == [CallOf(fn, args) EXCEPT !.conditional = TRUE]
ReturnParam(i) == [op |-> "return_param", param |-> i]
ReturnCall(fn, args) == [op |-> "return_call", fn |-> fn, args |-> args]
ReturnLocal(fn) == [op |-> "return_local", fn |-> fn]
ReturnOther == [op |-> "return_other"]

\* A function of two parameters, by default without annotations.
Body(code) ==
    [arity |-> 2, pointer |-> FALSE, indirect |-> {}, assigned |-> {},
     annotated |-> <<"None", "None">>, returns |-> "None", returns_from |-> 0, code |-> code]
PointerBody(code, assigned) ==
    [Body(code) EXCEPT !.pointer = TRUE, !.assigned = assigned]

Defined(f) == [name |-> f, definition |-> TRUE]
Declared(f) == [name |-> f, definition |-> FALSE]
Plain == [arity |-> 2, pointer |-> FALSE]
NoFacts == [x \in {} |-> {}]

Unit(f, g, h) ==
    [bodies    |-> [f |-> f, g |-> g, h |-> h],
     functions |-> <<Defined("f"), Defined("g"), Defined("h")>>,
     externals |-> [x |-> Plain, y |-> Plain],
     annotated |-> <<>>, manifest |-> NoFacts, contracts |-> <<>>]

-----------------------------------------------------------------------------
(* f calls g, g calls h *)

Swapped == <<Param(2), Param(1)>>
Straight == <<Param(1), Param(2)>>
Twice == <<Param(1), Param(1)>>
Alias == <<LocalFor(1), Param(2)>>

Leaves ==
    {Body(<<>>), Body(<<Touch("deref", 1)>>), Body(<<CallOf("free", <<Param(1)>>)>>),
     Body(<<MaybeCall("free", <<Param(1)>>)>>),
     Body(<<CallOf("free", <<Param(2)>>), Touch("element", 1)>>),
     Body(<<Touch("flow", 1), CallOf("free", <<LocalFor(1)>>)>>),
     [Body(<<CallOf("free", <<Param(1)>>)>>) EXCEPT !.annotated = <<"TakeOwnership", "None">>],
     [Body(<<Touch("deref", 1)>>) EXCEPT !.indirect = {1}]}

Callers(g) ==
    {Body(<<before, call>>) : before \in {Touch("flow", 1), Touch("deref", 2), CallOf("free", <<Param(2)>>)},
        call \in {CallOf(g, Straight), CallOf(g, Swapped), CallOf(g, Twice), CallOf(g, Alias),
                  MaybeCall(g, Straight), CallOf(g, <<PartOf(1), EitherOf>>)}}
    \cup {Body(<<CallOf(g, Swapped), CallOf("free", <<Param(1)>>)>>),
          Body(<<CallOf(g, Straight), Touch("deref", 1)>>)}

ChainUnits == {Unit(f, g, h) : f \in Callers("g"), g \in Callers("h"), h \in Leaves}

\* void h(...);  void h(...) { ... }
ForwardUnits ==
    {[Unit(f, Body(<<CallOf("h", Straight)>>), h) EXCEPT !.functions = <<Declared("h")>> \o @] :
        f \in Callers("g"), h \in Leaves}

-----------------------------------------------------------------------------
(* f returns what g returns, g what h returns or itself *)

Sources ==
    {PointerBody(<<ReturnParam(1)>>, {}), PointerBody(<<ReturnParam(1)>>, {1}),
     PointerBody(<<ReturnParam(1), ReturnParam(2)>>, {}), PointerBody(<<ReturnLocal("malloc")>>, {}),
     PointerBody(<<ReturnLocal("malloc"), ReturnParam(2)>>, {}), PointerBody(<<>>, {}),
     PointerBody(<<ReturnOther>>, {}),
     [PointerBody(<<ReturnParam(2)>>, {}) EXCEPT !.annotated = <<"None", "TakeOwnership">>],
     [PointerBody(<<ReturnParam(2)>>, {}) EXCEPT !.returns = "BorrowFromArg", !.returns_from = 1],
     [PointerBody(<<>>, {}) EXCEPT !.returns = "BorrowFromArg", !.returns_from = 3],
     PointerBody(<<ReturnCall("x", Straight), CallOf("x", Straight)>>, {})}

Relays(g, again) ==
    {PointerBody(code, assigned) : assigned \in {{}, {2}},
        code \in {<<ReturnCall(g, args), CallOf(g, args)>> :
                     args \in {Straight, Swapped, Twice, <<PartOf(1), Param(2)>>}}
                 \cup {<<ReturnLocal(g)>>, <<ReturnCall(g, Swapped), CallOf(g, Swapped), ReturnParam(2)>>,
                       <<ReturnParam(1), ReturnCall(again, Straight), CallOf(again, Straight)>>}}

\* What a contract says of x.
Says(ret, borrow, params) == [ret |-> ret, borrow |-> borrow, params |-> params]
LenderOfSecond == [symbol |-> "x", facts |-> Says("BorrowFromArg", 2, <<"unstated", "Borrow">>)]

ReturningUnits ==
    {[Unit(f, g, h) EXCEPT !.externals.x.pointer = TRUE,
                           !.contracts = <<LenderOfSecond>>] :
        f \in Relays("g", "f"), g \in Relays("h", "g"), h \in Sources}

-----------------------------------------------------------------------------
(* Annotations of x, contracts of x and of the bodies f and g that call it *)

Effects == {"Borrow", "Destroy"}
Stated == {<<e, "None">> : e \in Effects} \cup {<<"Unknown">>, <<>>}

Annotations ==
    {<<>>} \cup
    {<<[symbol |-> "x", facts |-> Says("unstated", 0, <<e, "None">>),
        conflicting |-> clash, eligible |-> fits],
       [symbol |-> "y", facts |-> Says("None", 0, <<"None", "Borrow">>),
        conflicting |-> FALSE, eligible |-> TRUE]>> :
        e \in Effects, clash \in BOOLEAN, fits \in BOOLEAN}

\* A review of three parameters is malformed.
Manifests ==
    {NoFacts,
     [x |-> Says("unstated", 0, <<"Borrow">>), y |-> Says("None", 0, <<"None", "Borrow">>)],
     [x |-> Says("unstated", 0, <<"Destroy", "None">>)],
     [x |-> Says("unstated", 0, <<"None", "None", "None">>), y |-> Says("None", 0, <<>>)]}

BodyContracts(f) ==
    {<<>>} \cup {<<[symbol |-> f, facts |-> Says("None", 0, params)]>> : params \in Stated \cup {<<"None", "None", "None">>}}
ContractsOfX == {<<>>} \cup {<<[symbol |-> "x", facts |-> Says("unstated", 0, params)]>> : params \in Stated}

Wrapper(g) ==
    {Body(<<CallOf(g, Straight)>>), Body(<<CallOf("free", <<Param(1)>>), MaybeCall(g, Straight)>>)}

ContractUnits ==
    {[Unit(f, g, Body(<<CallOf("y", Swapped), Touch("deref", 2)>>)) EXCEPT
        !.annotated = annotated, !.manifest = manifest, !.contracts = of_body \o of_x] :
        f \in Wrapper("g"), g \in Wrapper("x"), annotated \in Annotations, manifest \in Manifests,
        of_body \in BodyContracts("f") \cup BodyContracts("g"), of_x \in ContractsOfX}

SummarizedUnits == ChainUnits \cup ForwardUnits \cup ReturningUnits \cup ContractUnits

-----------------------------------------------------------------------------
(* Units the summaries are wrong about *)

\* f reads its parameter and then passes it to one that ignores it.
IgnoringUnits ==
    {Unit(Body(<<Touch("deref", 1), CallOf("g", Straight)>>), Body(<<>>), h) : h \in Leaves}

\* f and g call each other: int *l = p; g(l); and if (c) f(q); free(q);
MutualUnits ==
    {Unit(Body(<<Touch("flow", 1), CallOf("g", Alias)>>),
          Body(<<again, CallOf("free", <<Param(1)>>)>>), h) :
        again \in {CallOf("f", Straight), MaybeCall("f", Straight)}, h \in Leaves}
=============================================================================
