--------------------------- MODULE MCFlowAnalyzer ---------------------------
(***************************************************************************)
(* The sets of analysed functions FlowAnalyzer is checked on by itself.    *)
(***************************************************************************)
EXTENDS FlowAnalyzer, SmallPrograms

\* Two loops, one inside the other, so that a block of a low id is reached
\* again after blocks of higher ids.
\* <before> do { while (c) { <body> } <then> } while (d); <after>
GuardedLoops(before, c, d, body, then, after) ==
    [entry  |-> 5,
     params |-> <<[s |-> R, effect |-> "Borrow"]>>,
     succ   |-> [b \in SmallBlocks |-> CASE b = 5 -> {4} [] b = 4 -> {2, 3}
                     [] b = 3 -> {4} [] b = 2 -> {1, 4} [] b = 1 -> {0} [] b = 0 -> {}],
     cond   |-> [b \in SmallBlocks |->
                    CASE b = 4 -> While(c) [] b = 2 -> While(d) [] OTHER -> Choice(0)],
     code   |-> [b \in SmallBlocks |-> CASE b = 5 -> before [] b = 3 -> body
                     [] b = 2 -> then [] b = 1 -> after [] OTHER -> <<>>]]

\* How the loops are entered and what they test.
Heads ==
    {[before |-> <<Alloc(P, 1), second>>, c |-> Choice(3), d |-> Choice(4)] :
        second \in {Null(Q), CopyOf(Q, P), BorrowOf(Q, P, "Mutable")}}
    \cup
    {[before |-> <<Null(P), Null(Q), FillOf(P, "try", <<>>, 1, Ok)>>,
      c |-> c, d |-> ResultIs(4, Ok, TRUE, FALSE)] :
        c \in {ResultIs(3, Ok, FALSE, TRUE), PointerIs(3, P, FALSE)}}

Changes ==
    {<<LoopAlloc(P, 2)>>, <<CopyOf(Q, P)>>, <<MoveOf(Q, P)>>, <<Null(P)>>, <<FreeOf(P)>>,
     <<CopyOf(Q, P), LoopAlloc(P, 2)>>, <<MoveOf(Q, P), LoopAlloc(P, 2)>>,
     <<BorrowOf(Q, P, "Shared")>>, <<BorrowOf(Q, R, "Mutable")>>, <<UseOf(Q)>>,
     <<Step(Q, TRUE)>>, <<Step(P, FALSE), CallOf("take", P, TRUE)>>,
     <<Set(Ok)>>, <<Null(P), FillOf(P, "open", <<>>, 3, Ok)>>}

ChangingPrograms ==
    {GuardedLoops(head.before, head.c, head.d, body, then, <<after>>) :
        head \in Heads, body \in Changes, then \in Changes, after \in {UseOf(Q), FreeOf(P)}}

\* The loops whose entry states take the most turns to settle.
Renewals ==
    {<<CopyOf(Q, P), LoopAlloc(P, 2)>>, <<MoveOf(Q, P), LoopAlloc(P, 3)>>,
     <<BorrowOf(Q, R, "Mutable")>>, <<CopyOf(P, Q), LoopAlloc(Q, 4), FreeOf(P)>>}
RenewingPrograms ==
    {GuardedLoops(<<Alloc(P, 1), Null(Q)>>, Choice(3), Choice(4), body, then, <<UseOf(Q)>>) :
        body \in Renewals, then \in Renewals}

LoopingPrograms == ChangingPrograms \cup RenewingPrograms
=============================================================================
