------------------------- MODULE MCCheckedExecution -------------------------
(***************************************************************************)
(* The sets of analysed functions CheckedExecution is checked on.          *)
(***************************************************************************)
EXTENDS CheckedExecution, SmallPrograms

\* p = malloc(); <second>; if (c) { <third> } <fourth>; <fifth>
BranchingPrograms ==
    {Diamond(<<>>, <<Alloc(P, 1), second>>, <<third>>, <<fourth, fifth>>) :
        second \in {Null(Q), CopyOf(Q, P), MoveOf(Q, P)},
        third \in OneOf(2) \cup {CallOf("take", P, FALSE)},
        fourth \in OneOf(3), fifth \in OneOf(4)}

\* CAND_MOVE of an unresolved pointer leaves its destination as it was, without
\* an obligation (moveBinding, 2333; SPEC-0006:51 says INCOMPLETE).  The loops
\* leave it out.
NoMove(site) == OneOf(site) \ {MoveOf(P, Q), MoveOf(Q, P)}

\* p = malloc(); <second>; while (c) { <third>; <fourth> } <fifth>
TwoStepLoops ==
    {Loop(<<>>, <<Alloc(P, 1), second>>, <<third, fourth>>, <<fifth>>) :
        second \in {Null(Q), CopyOf(Q, P)},
        third \in NoMove(2), fourth \in NoMove(3),
        fifth \in {UseOf(P), UseOf(Q), FreeOf(P), FreeOf(Q)}}

\* p = NULL; q = NULL; while (c) { <first>; p = malloc(); <second>; <third> } <last>
\* An alias of last turn's object may outlive it, and the site comes round again.
RebirthLoops ==
    {Loop(<<>>, <<Null(P), Null(Q)>>, <<first, LoopAlloc(P, 3), second, third>>, <<last>>) :
        first \in ReadOrFree(P), second \in ReadOrFree(Q),
        third \in {CopyOf(Q, P), FreeOf(P), Null(Q)}, last \in ReadOrFree(P) \cup ReadOrFree(Q)}

\* p = NULL; q = NULL; while (c) { q = p; <first>; p = malloc(); <second> } <last>
\* The alias is of the object of the turn before.
LaggingLoops ==
    {Loop(<<>>, <<Null(P), Null(Q)>>, <<CopyOf(Q, P), first, LoopAlloc(P, 3), second>>, <<last>>) :
        first \in ReadOrFree(P), second \in {UseOf(P), UseOf(Q), Null(Q)},
        last \in {UseOf(P), FreeOf(P), UseOf(Q)}}

LoopingPrograms == TwoStepLoops \cup RebirthLoops \cup LaggingLoops

\* Borrows of p in q, calls that read, keep, destroy or return their argument,
\* and a parameter p in place of a local one.
ArgOf(s) == <<[s |-> s, move |-> FALSE]>>
Borrowings ==
    {<<BorrowOf(Q, P, kind)>> : kind \in BorrowKind}
    \cup {<<CallOf("view", P, FALSE), ResultOf(Q, "view", ArgOf(P), 9, borrow)>> :
              borrow \in {"none", "Shared", "Mutable"}}
Parameters ==
    {<<>>} \cup {<<[s |-> P, effect |-> effect]>> : effect \in {"Unknown", "Borrow", "TakeOwnership"}}
Start(params) == IF params = <<>> THEN <<Alloc(P, 1)>> ELSE <<>>
Branched ==
    {FreeOf(P), UseOf(Q), ReadWithin(Q), Null(Q), CopyOf(Q, P), CallOf("ignore", Q, FALSE)}
Ending == {UseOf(P), FreeOf(P), CallOf("destroy", P, FALSE), UseOf(Q), FreeOf(Q)}

BorrowingPrograms ==
    {Diamond(params, Start(params) \o borrowing, <<third>>, <<fourth, fifth>>) :
        params \in Parameters, borrowing \in Borrowings,
        third \in Branched, fourth \in Branched \cup ReadOrFree(P),
        fifth \in Ending \cup {ReturnOf(P, "Owned"), ReturnOf(Q, "BorrowFromArg")}}

\* An object the function makes, hands over with CAND_MOVE and has no alias of.
HandingOver == {CallOf("take", P, TRUE), MoveOf(Q, P), UseOf(P), CallOf("destroy", P, FALSE)}
HandOverPrograms ==
    {Diamond(<<>>, <<Call("make", <<>>), ResultOf(P, "make", <<>>, 1, "none"), Null(Q)>>,
             <<third>>, <<fourth, fifth>>) :
        third \in HandingOver, fourth \in HandingOver \cup {CallOf("take", Q, TRUE)},
        fifth \in ReadOrFree(P) \cup ReadOrFree(Q)}

\* p = malloc(); <borrow of p in q>; <second>; <borrow of p in r>; <third>;
\* if (c) { <fourth> } <fifth>
Lendings(d) ==
    {BorrowOf(d, P, "Shared"), BorrowOf(d, P, "Mutable"),
     ResultOf(d, "view", <<[s |-> P, move |-> FALSE]>>, 9, "Mutable")}
LendingPrograms ==
    {Diamond(<<>>, <<Alloc(P, 1), lending, second, again, third>>, <<fourth>>, <<fifth>>) :
        lending \in Lendings(Q), again \in Lendings(R),
        second \in {UseOf(Q), ReadWithin(Q), CallOf("look", P, FALSE)},
        third \in {UseOf(R), UseOf(Q), CallOf("look", R, FALSE)},
        fourth \in {UseOf(Q), ReadWithin(R), Null(Q)},
        fifth \in {UseOf(Q), UseOf(R), FreeOf(P)}}

\* replace(p, q): one callee reads its first argument and destroys its second.
TwoArgumentPrograms ==
    {Diamond(<<>>, <<Alloc(P, 1), Alloc(Q, 2)>>, <<third>>,
             <<Call("replace", <<[s |-> P, move |-> FALSE], [s |-> Q, move |-> FALSE]>>), last>>) :
        third \in {Null(P)} \cup ReadOrFree(P) \cup ReadOrFree(Q),
        last \in ReadOrFree(P) \cup ReadOrFree(Q)}

\* p = NULL; <a call hands an object out to p>; <second>;
\* if (<what the call says>) { <then> } else { <otherwise> } <after>
After(d) == {FreeOf(d), UseOf(d), Null(d)}
ResultTests == {ResultIs(3, Ok, eq, zero) : eq \in BOOLEAN, zero \in BOOLEAN}
PointerTests(d) == {PointerIs(3, d, eq) : eq \in BOOLEAN}
CallTests(f, d) == {CallIs(3, f, d, eq, zero) : eq \in BOOLEAN, zero \in BOOLEAN}

StoredResultPrograms ==
    {Fork(<<>>, <<Null(P), Null(Q), FillOf(P, f, <<>>, 1, Ok), second>>, c, <<then>>, <<otherwise>>, <<after>>) :
        f \in {"try", "open"},
        second \in {Set(Ok), Null(P), FreeOf(Q), FillOf(Q, "try", <<>>, 2, Ok), FillOf(Q, "open", <<>>, 2, NoResult)},
        c \in ResultTests \cup PointerTests(P),
        then \in After(P), otherwise \in After(P), after \in {UseOf(P), FreeOf(P), UseOf(Q)}}

TestedCallPrograms ==
    {Fork(<<>>, <<Alloc(Q, 1), Null(P), FillOf(P, "clone", ArgOf(Q), 2, NoResult)>>, c, <<then>>, <<otherwise>>, <<FreeOf(Q), after>>) :
        c \in CallTests("clone", P) \cup PointerTests(P),
        then \in After(P), otherwise \in After(P) \cup {FreeOf(Q), CopyOf(P, Q)},
        after \in After(P)}

\* Calls that always write p, with an object or (find) perhaps with NULL.
WrittenSlotPrograms ==
    {Fork(<<>>, <<Null(P), Null(Q), FillOf(P, f, <<>>, 1, NoResult)>>, c, <<CopyOf(Q, P), then>>, <<otherwise>>, <<after, last>>) :
        f \in {"fill", "find"}, c \in {Choice(3)} \cup PointerTests(P),
        then \in After(P), otherwise \in {FillOf(P, "fill", <<>>, 2, NoResult), FreeOf(P)},
        after \in After(P) \cup After(Q), last \in ReadOrFree(P) \cup ReadOrFree(Q)}

\* p = NULL; q = NULL; again: q = p; <first>; p = NULL; fill(&p); if (c) goto again; <last>
RefilledPrograms ==
    {GotoLoop(<<Null(P), Null(Q)>>,
              <<CopyOf(Q, P)>> \o first \o <<Null(P), FillOf(P, "fill", <<>>, 2, NoResult)>>,
              <<last>>) :
        first \in {<<>>} \cup {<<x>> : x \in ReadOrFree(P) \cup ReadOrFree(Q)},
        last \in ReadOrFree(P) \cup ReadOrFree(Q)}

OutOwnerPrograms == StoredResultPrograms \cup TestedCallPrograms \cup WrittenSlotPrograms

BorrowPrograms ==
    BorrowingPrograms \cup HandOverPrograms \cup LendingPrograms \cup TwoArgumentPrograms
    \cup LoopingPrograms \cup OutOwnerPrograms

\* p = malloc(); <q borrows p>; *q; <r borrows p>; *r; <s borrows p>; ... *r;
ThirdBorrowPrograms ==
    {Diamond(<<>>, <<Alloc(P, 1), BorrowOf(Q, P, "Mutable"), UseOf(Q), lending, UseOf(R),
                     BorrowOf(S, P, kind), CallOf("look", R, FALSE)>>, <<>>, <<last>>) :
        lending \in Lendings(R), kind \in BorrowKind, last \in {UseOf(S), FreeOf(P)}}

\* p = NULL; q = NULL; if (c) { p = malloc(); <third> } <fourth>; <fifth>
MaybeNullPrograms ==
    {Diamond(<<>>, <<Null(P), Null(Q)>>, <<Alloc(P, 2), third>>, <<fourth, fifth>>) :
        third \in OneOf(3), fourth \in ReadOrFree(P) \cup ReadOrFree(Q),
        fifth \in ReadOrFree(P) \cup ReadOrFree(Q)}

\* p = malloc(); q = p; take(CAND_MOVE(p)); <last>
ConsumedAliasPrograms ==
    {Diamond(<<>>, <<Alloc(P, 1), CopyOf(Q, P)>>, <<>>, <<CallOf("take", P, TRUE), last>>) :
        last \in ReadOrFree(Q)}
=============================================================================
