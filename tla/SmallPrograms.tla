---------------------------- MODULE SmallPrograms ----------------------------
(***************************************************************************)
(* The analysed functions TLC is given: a few shapes of control flow, with *)
(* every choice of statements in a few places.  An allocation site is the  *)
(* place its statement stands at.                                          *)
(***************************************************************************)
EXTENDS Naturals

P == "p"
Q == "q"
R == "r"
S == "s"
Two == {P, Q}
Three == {P, Q, R}
Four == {P, Q, R, S}
SmallBlocks == 0 .. 5

\* Callees, by what they do to their parameters and what they return.
Callee(params, return_effect, arg, origin) ==
    [params |-> params, return_effect |-> return_effect, return_borrow_arg |-> arg,
     origin |-> origin, conflict |-> FALSE]
SmallSummaries ==
    [destroy |-> Callee(<<"Destroy">>, "None", 0, "BodyVerified"),
     look    |-> Callee(<<"Borrow">>, "None", 0, "BodyVerified"),
     ignore  |-> Callee(<<"None">>, "None", 0, "BodyVerified"),
     take    |-> Callee(<<"TakeOwnership">>, "None", 0, "ExternalTrusted"),
     replace |-> Callee(<<"Borrow", "Destroy">>, "None", 0, "BodyVerified"),
     make    |-> Callee(<<>>, "Owned", 0, "BodyVerified"),
     view    |-> Callee(<<"Borrow">>, "BorrowFromArg", 1, "BodyVerified"),
     fill    |-> Callee(<<"Unknown">>, "None", 0, "ExternalTrusted"),
     open    |-> Callee(<<"Unknown">>, "None", 0, "ExternalTrusted"),
     try     |-> Callee(<<"Unknown">>, "None", 0, "ExternalTrusted"),
     find    |-> Callee(<<"Unknown">>, "None", 0, "ExternalTrusted"),
     clone   |-> Callee(<<"Borrow", "Unknown">>, "None", 0, "ExternalTrusted")]

\* Those that hand an object out through their last parameter. A contract that always
\* writes names no success polarity: the parser refuses the key (5134 to 5139).
Contract(on_success, nonzero, nullable) ==
    [write_on_success |-> on_success, success_nonzero |-> nonzero, nullable |-> nullable]
SmallOutOwners ==
    [fill  |-> Contract(FALSE, FALSE, FALSE),
     find  |-> Contract(FALSE, FALSE, TRUE),
     try   |-> Contract(TRUE, TRUE, FALSE),
     open  |-> Contract(TRUE, FALSE, FALSE),
     clone |-> Contract(TRUE, FALSE, FALSE)]
NoOutOwners == [f \in {} |-> Contract(FALSE, FALSE, FALSE)]

Ok == "ok"
SmallResults == {Ok}

-----------------------------------------------------------------------------
(* Statements *)

Null(d) == [op |-> "null", dst |-> d, decl |-> FALSE]
Alloc(d, site) ==
    [op |-> "alloc", dst |-> d, site |-> site, in_loop |-> FALSE, decl |-> FALSE]
LoopAlloc(d, site) == [Alloc(d, site) EXCEPT !.in_loop = TRUE]
CopyOf(d, s) == [op |-> "copy", dst |-> d, src |-> s, decl |-> FALSE, own |-> FALSE]
MoveOf(d, s) == [op |-> "move", dst |-> d, src |-> s, decl |-> FALSE]
BorrowOf(d, s, kind) == [op |-> "borrow", dst |-> d, src |-> s, borrow |-> kind, decl |-> TRUE]
FreeOf(s) == [op |-> "free", src |-> s]
UseOf(s) == [op |-> "use", src |-> s, point |-> TRUE]
ReadWithin(s) == [op |-> "use", src |-> s, point |-> FALSE]
Call(f, args) == [op |-> "call", fn |-> f, args |-> args]
CallOf(f, s, m) == Call(f, <<[s |-> s, move |-> m]>>)
ResultOf(d, f, args, site, borrow) ==
    [op |-> "result", dst |-> d, fn |-> f, args |-> args, site |-> site,
     in_loop |-> FALSE, decl |-> borrow # "none", borrow |-> borrow]
FillOf(d, f, args, site, result) ==
    [op |-> "produce", dst |-> d, fn |-> f, args |-> args, site |-> site,
     in_loop |-> FALSE, escaped |-> FALSE, result |-> result]
Set(result) == [op |-> "set", result |-> result]
ReturnOf(s, effect) == [op |-> "return", src |-> s, effect |-> effect]
Step(d, point) == [op |-> "step", dst |-> d, point |-> point]

\* What a program may do to one pointer, or between two.
ReadOrFree(d) ==
    {FreeOf(d), UseOf(d), CallOf("destroy", d, FALSE), CallOf("look", d, FALSE)}
Touch(d, site) == {Null(d), Alloc(d, site)} \cup ReadOrFree(d)
Between(d, s) == {CopyOf(d, s), MoveOf(d, s)}
OneOf(site) == Touch(P, site) \cup Touch(Q, site) \cup Between(P, Q) \cup Between(Q, P)

-----------------------------------------------------------------------------
(* Conditions, each true for its first argument                             *)

Choice(then) == [form |-> "other", then |-> then, loop |-> FALSE, mentions |-> {}]

\* name == K or name != K of a result or a pointer; f(.., &d) == K or != K.
ResultIs(then, name, eq, zero) ==
    [form |-> "result", name |-> name, then |-> then, eq |-> eq, zero |-> zero,
     loop |-> FALSE, mentions |-> {}]
PointerIs(then, name, eq) ==
    [form |-> "pointer", name |-> name, then |-> then, eq |-> eq, zero |-> TRUE,
     loop |-> FALSE, mentions |-> {name}]
CallIs(then, f, d, eq, zero) ==
    [form |-> "call", fn |-> f, dest |-> d, then |-> then, eq |-> eq, zero |-> zero,
     loop |-> FALSE, mentions |-> {d}]

AtEnd(b, c) == [x \in SmallBlocks |-> IF x = b THEN c ELSE Choice(0)]
While(c) == [c EXCEPT !.loop = TRUE]

-----------------------------------------------------------------------------
(* Shapes.  Block 0 is the exit, block 5 the entry.                         *)

\* <before> if (<cond>) { <then> } else { <otherwise> } <after>
Fork(params, before, cond, then, otherwise, after) ==
    [entry  |-> 5,
     params |-> params,
     succ   |-> [b \in SmallBlocks |-> CASE b = 5 -> {4} [] b = 4 -> {2, 3}
                     [] b = 3 -> {1} [] b = 2 -> {1} [] b = 1 -> {0} [] b = 0 -> {}],
     cond   |-> AtEnd(4, cond),
     code   |-> [b \in SmallBlocks |-> CASE b = 4 -> before [] b = 3 -> then
                     [] b = 2 -> otherwise [] b = 1 -> after [] OTHER -> <<>>]]

\* <before> if (c) { <then> } <after>
Diamond(params, before, then, after) == Fork(params, before, Choice(3), then, <<>>, after)

\* <before> while (c) { <body> } <after>
Loop(params, before, body, after) ==
    [entry  |-> 5,
     params |-> params,
     succ   |-> [b \in SmallBlocks |-> CASE b = 5 -> {4} [] b = 4 -> {3}
                     [] b = 3 -> {1, 2} [] b = 2 -> {3} [] b = 1 -> {0} [] b = 0 -> {}],
     cond   |-> AtEnd(3, While(Choice(2))),
     code   |-> [b \in SmallBlocks |-> CASE b = 4 -> before [] b = 2 -> body
                     [] b = 1 -> after [] OTHER -> <<>>]]

\* <before> again: <body> if (c) goto again; <after>
GotoLoop(before, body, after) ==
    [entry  |-> 5,
     params |-> <<>>,
     succ   |-> [b \in SmallBlocks |-> CASE b = 5 -> {4} [] b = 4 -> {3}
                     [] b = 3 -> {1, 3} [] b = 1 -> {0} [] OTHER -> {}],
     cond   |-> AtEnd(3, Choice(3)),
     code   |-> [b \in SmallBlocks |-> CASE b = 4 -> before [] b = 3 -> body
                     [] b = 1 -> after [] OTHER -> <<>>]]
=============================================================================
