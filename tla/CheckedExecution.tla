-------------------------- MODULE CheckedExecution --------------------------
(***************************************************************************)
(* The analyser composed with the program it analyses: after the verdict   *)
(* the analysed function runs, on any path its control-flow graph allows,  *)
(* with a heap of concrete objects.  This is what a PASS talks about       *)
(* (ADR-0010: no known violation and no unresolved operation), so here the *)
(* verdict can be compared with what the program does.  With pointer-output *)
(* contracts the agent gate reports such a run as incomplete and exits 0   *)
(* (canEmitCand1Pass); what PASS stands for here is the exit code.         *)
(*                                                                         *)
(* The C program is outside src/: its semantics is that of ISO C for the   *)
(* statements the model has.  An allocation succeeds (a failed one yields  *)
(* a null pointer, about which no temporal claim is made).  Using a null   *)
(* or an uninitialised pointer is outside the claim and ends the run.      *)
(***************************************************************************)
EXTENDS FlowAnalyzer, Integers

CONSTANT MaxHeap     \* bound: the objects one run allocates

ASSUME HeapAssumption == MaxHeap \in Nat

VARIABLES
    status,      \* "idle", "running" or "stopped"
    at,          \* the next statement: its block and index, and the arguments
                 \*   of a call the callee is done with
    mem,         \* storage -> heap index, NullPointer or Uninitialised
    heap,        \* the objects allocated so far: their site, alive or not
    moved,       \* storages whose capability CAND_MOVE gave away
    loans,       \* storage -> the kind of borrow it holds, "displaced" when a
                 \*   borrow that conflicts with it was made since, or "none"
    results,     \* what each result variable holds, Uninitialised at first
    violation    \* "none", or the first violation of the run

execVars == <<status, at, mem, heap, moved, loans, results, violation>>

NullPointer == 0
Uninitialised == -1

Points(s) == mem[s] > NullPointer
Dangling(s) == Points(s) /\ ~heap[mem[s]].alive

-----------------------------------------------------------------------------

ExecInit ==
    /\ status = "idle"
    /\ at = [block |-> program.entry, index |-> 1, done |-> {}]
    /\ LET params == program.params
       IN  /\ mem = [s \in Storages |->
                        IF \E i \in DOMAIN params : params[i].s = s
                        THEN CHOOSE i \in DOMAIN params : params[i].s = s
                        ELSE Uninitialised]
           /\ heap = [i \in DOMAIN params |->
                        [id |-> parameterObjectIdForIndex(i), alive |-> TRUE]]
    /\ moved = {}
    /\ loans = [s \in Storages |-> "none"]
    /\ results = [r \in Results \cup {NoResult} |-> Uninitialised]
    /\ violation = "none"

Code == program.code[at.block]
Current == Code[at.index]

\* Only a program whose every operation the analysis resolved is worth running.
Enter ==
    /\ status = "idle"
    /\ phase = "done"
    /\ Obligations = {}
    /\ status' = "running"
    /\ UNCHANGED <<at, mem, heap, moved, loans, results, violation>>

Leave ==
    /\ status = "running"
    /\ at.index > Len(Code)
    /\ program.succ[at.block] = {}
    /\ status' = "stopped"
    /\ UNCHANGED <<at, mem, heap, moved, loans, results, violation>>

\* The integers a call returns.  K is 0, or 1 when it is not zero.
Values == 0 .. 2              \* bound

\* What the condition c compares with K.
Subject(c) ==
    CASE c.form = "call"    -> results[NoResult]
      [] c.form = "result"  -> results[c.name]
      [] c.form = "pointer" -> mem[c.name]

Holds(c) == (Subject(c) = IF c.zero THEN 0 ELSE 1) = c.eq

\* A condition that reads an uninitialised variable ends the run.
Branch ==
    /\ status = "running"
    /\ at.index > Len(Code)
    /\ LET c == program.cond[at.block]
       IN  \E b \in program.succ[at.block] :
              /\ c.form # "other" =>
                    Subject(c) # Uninitialised /\ (Holds(c) = (b = c.then))
              /\ at' = [block |-> b, index |-> 1, done |-> {}]
    /\ UNCHANGED <<status, mem, heap, moved, loans, results, violation>>

Executing(op) == status = "running" /\ at.index <= Len(Code) /\ Current.op = op

Advance == at' = [at EXCEPT !.index = @ + 1, !.done = {}] /\ UNCHANGED status

Stop(reason) ==
    /\ status' = "stopped"
    /\ violation' = reason
    /\ UNCHANGED <<at, mem, heap, moved, loans, results>>

Hold(s, pointer, is_moved) ==
    /\ mem' = [mem EXCEPT ![s] = pointer]
    /\ moved' = IF is_moved THEN moved \cup {s} ELSE moved \ {s}

Assign(s, pointer, is_moved) ==
    /\ Hold(s, pointer, is_moved)
    /\ loans' = [loans EXCEPT ![s] = "none"]

\* d becomes a borrow of the object s points to.  It displaces the borrows of
\* that object it may not coexist with: those must not be used any more.
Displaced(d, pointer, kind) ==
    {x \in Storages \ {d} : /\ loans[x] \in BorrowKind
                            /\ pointer > NullPointer /\ mem[x] = pointer
                            /\ "Mutable" \in {kind, loans[x]}}

Lend(d, s, kind) ==
    /\ Hold(d, mem[s], s \in moved)
    /\ loans' = [x \in Storages |-> IF x = d THEN kind
                     ELSE IF x \in Displaced(d, mem[s], kind) THEN "displaced"
                     ELSE loans[x]]

\* A storage read or destroyed after CAND_MOVE took its capability.
MovedFrom(s) == s \in moved /\ Points(s)

Kill(s) ==
    IF Points(s) THEN heap' = [heap EXCEPT ![mem[s]].alive = FALSE]
                 ELSE UNCHANGED heap

\* What reading or destroying through s runs into, the death of the object
\* before the loss of the capability or of the borrow.
Access(s) ==
    IF Dangling(s) THEN "use_after_death"
    ELSE IF MovedFrom(s) THEN "use_after_move"
    ELSE IF loans[s] = "displaced" THEN "borrow_conflict" ELSE "none"

Destruction(s) ==
    IF Dangling(s) THEN "double_destruction"
    ELSE IF MovedFrom(s) THEN "use_after_move" ELSE "none"

SetNull ==
    /\ Executing("null")
    /\ Assign(Current.dst, NullPointer, FALSE)
    /\ Advance /\ UNCHANGED <<heap, results, violation>>

NewObject(s, site) ==
    /\ Len(heap) < MaxHeap
    /\ heap' = Append(heap, [id |-> site, alive |-> TRUE])
    /\ Assign(s, Len(heap) + 1, FALSE)

Malloc ==
    /\ Executing("alloc")
    /\ NewObject(Current.dst, Current.site)
    /\ Advance /\ UNCHANGED <<results, violation>>

\* A copied pointer is as moved-from as the pointer it is a copy of.
Copy ==
    /\ Executing("copy")
    /\ Assign(Current.dst, mem[Current.src], Current.src \in moved)
    /\ Advance /\ UNCHANGED <<heap, results, violation>>

Borrow ==
    /\ Executing("borrow")
    /\ Lend(Current.dst, Current.src, Current.borrow)
    /\ Advance /\ UNCHANGED <<heap, results, violation>>

Move ==
    /\ Executing("move")
    /\ IF Dangling(Current.src) \/ MovedFrom(Current.src)
       THEN Stop("use_after_move")
       ELSE /\ mem' = [mem EXCEPT ![Current.dst] = mem[Current.src]]
            /\ moved' = (moved \cup {Current.src}) \ {Current.dst}
            /\ loans' = [loans EXCEPT ![Current.dst] = "none"]
            /\ Advance /\ UNCHANGED <<heap, results, violation>>

Free ==
    /\ Executing("free")
    /\ LET s == Current.src
       IN  IF mem[s] = Uninitialised \/ Destruction(s) # "none"
           THEN Stop(Destruction(s))
           ELSE Kill(s) /\ Advance /\ UNCHANGED <<mem, moved, loans, results, violation>>

Use ==
    /\ Executing("use")
    /\ LET s == Current.src
       IN  IF ~Points(s) \/ Access(s) # "none"
           THEN Stop(Access(s))
           ELSE Advance /\ UNCHANGED <<mem, heap, moved, loans, results, violation>>

\* A callee does with its arguments what its summary says, in any order.  One
\* that takes ownership may destroy the object or keep it.
EffectOn(i) == IF /\ Current.fn \in DOMAIN Summaries
                  /\ i \in DOMAIN Summaries[Current.fn].params
               THEN Summaries[Current.fn].params[i] ELSE "None"

Calling(i, effect) ==
    /\ Executing("call") \/ Executing("produce")
    /\ i \in DOMAIN Current.args \ at.done
    /\ EffectOn(i) = effect

ArgumentDone(i) == at' = [at EXCEPT !.done = @ \cup {i}] /\ UNCHANGED status

CallReturns ==
    /\ Executing("call")
    /\ at.done = DOMAIN Current.args
    /\ Advance /\ UNCHANGED <<mem, heap, moved, loans, results, violation>>

CallIgnores(i) ==
    /\ Calling(i, "None")
    /\ ArgumentDone(i) /\ UNCHANGED <<mem, heap, moved, loans, results, violation>>

CallReads(i) ==
    /\ Calling(i, "Borrow")
    /\ LET s == Current.args[i].s
       IN  IF Access(s) # "none" THEN Stop(Access(s))
           ELSE ArgumentDone(i) /\ UNCHANGED <<mem, heap, moved, loans, results, violation>>

CallDestroys(i) ==
    /\ Calling(i, "Destroy")
    /\ LET s == Current.args[i].s
       IN  IF Destruction(s) # "none" THEN Stop(Destruction(s))
           ELSE Kill(s) /\ ArgumentDone(i) /\ UNCHANGED <<mem, moved, loans, results, violation>>

CallTakes(i) ==
    /\ Calling(i, "TakeOwnership")
    /\ LET s == Current.args[i].s
       IN  IF Destruction(s) # "none" THEN Stop(Destruction(s))
           ELSE /\ Kill(s) \/ UNCHANGED heap
                /\ moved' = IF Current.args[i].move THEN moved \cup {s} ELSE moved
                /\ ArgumentDone(i) /\ UNCHANGED <<mem, loans, results, violation>>

\* A call that hands an object out keeps its contract: whether it succeeded
\* shows in its result, and a slot it need not write on failure is left alone.
Succeeded(fn, value) == OutOwners[fn].success_nonzero = (value # 0)

CallProduces ==
    /\ Executing("produce")
    /\ at.done = DOMAIN Current.args
    /\ LET contract == OutOwners[Current.fn]
       IN  \E value \in Values :
              /\ results' = [results EXCEPT ![Current.result] = value]
              /\ IF contract.write_on_success /\ ~Succeeded(Current.fn, value)
                 THEN UNCHANGED <<mem, heap, moved, loans>>
                 ELSE \/ NewObject(Current.dst, Current.site)
                      \/ /\ contract.nullable
                         /\ Assign(Current.dst, NullPointer, FALSE) /\ UNCHANGED heap
    /\ Advance /\ UNCHANGED violation

\* A result variable receives some other value.
SetResult ==
    /\ Executing("set")
    /\ \E value \in Values : results' = [results EXCEPT ![Current.result] = value]
    /\ Advance /\ UNCHANGED <<mem, heap, moved, loans, violation>>

\* dst = f(...), after the call, which is a statement of its own.
ReceiveResult ==
    /\ Executing("result")
    /\ LET summary == Summaries[Current.fn]
       IN  \/ /\ summary.return_effect = "Owned"
              /\ NewObject(Current.dst, Current.site)
           \/ /\ summary.return_effect = "BorrowFromArg"
              /\ Lend(Current.dst, Current.args[summary.return_borrow_arg].s,
                      IF Current.borrow = "Mutable" THEN "Mutable" ELSE "Shared")
              /\ UNCHANGED heap
    /\ Advance /\ UNCHANGED <<results, violation>>

Return ==
    /\ Executing("return")
    /\ Stop("none")

ArgumentIndices == 1 .. 2     \* bound: the arguments of one call

Run ==
    \/ Enter \/ Leave \/ Branch
    \/ SetNull \/ Malloc \/ Copy \/ Borrow \/ Move \/ Free \/ Use
    \/ \E i \in ArgumentIndices :
          CallIgnores(i) \/ CallReads(i) \/ CallDestroys(i) \/ CallTakes(i)
    \/ CallReturns \/ CallProduces \/ SetResult \/ ReceiveResult \/ Return

CheckedInit == Init /\ ExecInit
CheckedNext == \/ Next /\ UNCHANGED execVars
               \/ Run /\ UNCHANGED vars
CheckedSpec == CheckedInit /\ [][CheckedNext]_<<vars, execVars>>

-----------------------------------------------------------------------------
(* Properties *)

\* A PASS is trustworthy: no run of a program that passed reads an object
\* after its death or destroys it twice (ADR-0010; README, result semantics).
TrustworthyPass ==
    PASS => violation \notin {"use_after_death", "double_destruction"}

\* Nor does it use a pointer CAND_MOVE has emptied (SPEC-0006).
NoUseAfterMove == PASS => violation # "use_after_move"

\* Nor does it use a borrow after a mutable borrow of the same object was made,
\* or a mutable borrow after any other (SPEC-0010, semantic rules 6 and 7).
ExclusiveBorrows == PASS => violation # "borrow_conflict"

\* A run of a passed program enters a block.
Entering == PASS /\ status = "running" /\ at.index = 1 /\ at.done = {}

\* What the converged entry state of a block says of every pointer holds
\* whenever a run of a passed program enters the block: the pointer is bound
\* to its object or to an unresolved target, and when that object is dead on
\* this run, it is not Owned there or the pointer is moved-from.
EntryStateCovers ==
    Entering =>
        LET st == in_states[at.block]
        IN  \A s \in Storages :
               Points(s) =>
                  /\ s \in DOMAIN st.storages
                  /\ LET o == st.storages[s].object_id
                     IN  \/ o = kUnknownObjectId
                         \/ /\ o % kGenerationStride =
                                  heap[mem[s]].id % kGenerationStride
                            /\ Dangling(s) =>
                                  \/ MovedRelation(st.storages[s].relation)
                                  \/ st.objects[o].state \in {"Dead", "MaybeDead", "Unknown"}

\* An entry state calls a pointer the owner of an object only if it points to
\* that object: no edge of a branch takes a call for a success it was not
\* (ADR-0030, guard recognition).
OwnersExist ==
    Entering =>
        LET st == in_states[at.block]
        IN  \A s \in DOMAIN st.storages :
               LET b == st.storages[s]
               IN  (b.relation = "Owner" /\ b.object_id # kUnknownObjectId) =>
                      /\ Points(s)
                      /\ heap[mem[s]].id % kGenerationStride = b.object_id % kGenerationStride

\* Two pointers an entry state binds to one object do point to one object: the
\* ids of a site that allocates again tell its objects apart.
ObjectsToldApart ==
    Entering =>
        LET bind == in_states[at.block].storages
        IN  \A s, t \in DOMAIN bind :
               (/\ bind[s].object_id = bind[t].object_id
                /\ bind[s].object_id # kUnknownObjectId
                /\ Points(s) /\ Points(t)) => mem[s] = mem[t]

\* A pending guard is worth testing: as long as it is there its result tells
\* whether its destination holds what the recorded call made, or still NULL.
GuardsTestify ==
    Entering =>
        \A guard \in in_states[at.block].pending_out_guards :
            /\ results[guard.result] # Uninitialised
            /\ IF guard.success_nonzero = (results[guard.result] # 0)
               THEN Points(guard.dest) /\ heap[mem[guard.dest]].id = guard.call
               ELSE mem[guard.dest] = NullPointer
=============================================================================
