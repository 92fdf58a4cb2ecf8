--------------------------- MODULE ProgramTransfer ---------------------------
(***************************************************************************)
(* The analysed C functions, as FlowAnalyzer (src/src/cand.cpp) sees them: *)
(* a graph of basic blocks whose ids are those clang gives (the exit is 0, *)
(* the entry the highest), the state a function is entered with            *)
(* (seedParameterState) and what a whole block does to a flow state        *)
(* (transfer).  A block has a set of successors and the condition it       *)
(* chooses between them by, which the analysis looks at only to refine     *)
(* what a pointer-output call has left behind.                             *)
(***************************************************************************)
EXTENDS GuardRefinement

CONSTANTS
    Blocks,      \* the block ids
    Programs     \* the functions to analyse

\* A function: its entry block, the successors, the statements and the condition
\* of a block, and the effect its own summary gives each pointer parameter, in order.
ASSUME ProgramAssumption ==
    /\ Blocks \subseteq Nat
    /\ \A p \in Programs :
          /\ p.entry \in Blocks
          /\ p.succ \in [Blocks -> SUBSET Blocks]
          /\ DOMAIN p.code = Blocks
          /\ \A b \in Blocks :
                /\ Len(p.code[b]) \in Nat
                /\ \A i \in 1 .. Len(p.code[b]) : IsStatement(p.code[b][i])
          /\ \A b \in Blocks : IsCondition(p.cond[b])
          /\ p.params \in Seq([s : Storages, effect : ParamEffect])
          /\ kParameterObjectIdBase + Len(p.params) < kUnknownObjectId

\* A graph has finitely many blocks.
ASSUME BlocksAssumption == IsFiniteSet(Blocks)

-----------------------------------------------------------------------------
(* The state at function entry *)

parameterObjectIdForIndex(i) == kParameterObjectIdBase + i

\* A parameter the summary knows nothing about is tracked but carries no
\* authority: capability Unknown refuses every transfer.
seedParameterState(params) ==
    LET index == DOMAIN params
        Storage(i) == params[i].s
        Seeded == {Storage(i) : i \in index}
        IndexOf(s) == CHOOSE i \in index : Storage(i) = s
        Effect(i) == params[i].effect
    IN  [EmptyFlow EXCEPT
           !.storages = [s \in Seeded |->
               Binding(parameterObjectIdForIndex(IndexOf(s)),
                       IF Effect(IndexOf(s)) = "TakeOwnership" THEN "Owner" ELSE "Alias")],
           !.objects = [o \in {parameterObjectIdForIndex(i) : i \in index} |->
               LET effect == Effect(o - kParameterObjectIdBase)
               IN  [state |-> "Owned", origin |-> "Parameter",
                    capability |-> IF effect = "None" THEN "Unknown" ELSE effect]]]

-----------------------------------------------------------------------------
(* transfer: the statements of a block in order.  live[i] is the set of the *)
(* borrow storages used after statement i.  A note keeps its statement.     *)

\* r is what statement n led to, notes what the statements before it noted.
AfterStatement(n, notes, r) ==
    Result(r.st, notes \cup {[index |-> n, note |-> x] : x \in r.notes})

\* Element n is the result of the first n statements.
transferThrough(code, live, st) ==
    LET after[n \in 0 .. Len(code)] ==
            IF n = 0 THEN Result(st, {})
            ELSE LET before == after[n - 1]
                     r == processStmt(code[n], live[n], before.st)
                 IN  AfterStatement(n, before.notes, r)
    IN  after

transfer(code, live, st) == transferThrough(code, live, st)[Len(code)]

\* While the fixed point is computed borrow_live_after_stmt_ is empty, and
\* borrowLiveAfter answers TRUE for a point it does not know.
NothingExpires(code) == [i \in DOMAIN code |-> Storages]

TransferBlock(p, b, st) == transfer(p.code[b], NothingExpires(p.code[b]), st)
=============================================================================
