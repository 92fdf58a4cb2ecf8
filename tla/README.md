# A TLA+ model of the C& (cand) ownership analyser

C& is a static analyser for C. For every function with a body in the main file it
runs a flow analysis over clang's control-flow graph, tracks which pointer owns which
object, and ends with a verdict: FAIL (a violation, exit 1), INCOMPLETE (an operation it
could not resolve, exit 3) or PASS (exit 0). Its claim is about PASS: *no known violation
and no unresolved ownership or lifetime operation* (`README.md:182-186`, ADR-0010). For code
written by agents a gate stands behind the analyser: a policy, a trusted base, and evidence
that can be verified by running the check again. These modules model the flow analysis, the
function summaries it relies on and the gate, check the first two on small functions against
what those functions do when they run and the third on small repositories against what happens
to them between its steps, and prove the parts that hold for every function, every translation
unit and every policy.

All code references are to `src/src/cand.cpp` unless another file is named.

## 1. Inventory

| component | state it keeps | operations | hard behaviours | what makes it correct |
|---|---|---|---|---|
| **Ownership lattice** (685–1052) | `FlowState`: maps of storage bindings, objects, borrows; allocation generations, widened sites, pending guards | `joinState`, `joinBinding`, `joinBorrowState`, `joinFlow` | the join is not associative; a storage one side lacks joins with `StorageBinding{}` | idempotent; the result absorbs both operands; never the more permissive state |
| **Statement handlers** (`FlowAnalyzer::handle*`, 1900–3650) | the flow state of the current point | `createBorrow`, `invalidateBorrows`, `expireBorrowUses`, `checkAccess`, `handleFree`, `destroyBinding`, `moveBinding`, `transferBinding`, `handleCall`, `bindAllocation`, `bindSummaryReturn`, `handleDeclStmt`, `handleAssignment`, `handleReturn` | aliases of one object; the order of a call's arguments; joins that lose a relation | an unresolved operation is noted; a dead object is never silently used |
| **Flow analysis driver** (`run`, 4015–4206; liveness 3753–3953) | entry and exit states, worklist, borrow liveness, `emitting_` | worklist turn, liveness sweep, emission pass | a block is skipped when its result did not change; liveness uses borrows registered so far | stops; stops only at a solution; diagnostics only from converged states |
| **Heap generations** (3061–3162) | generation per allocation site, widened sites | `bindAllocation`, `hasRetainedGenerationReference` | a loop gives one site many objects; ids are reused | two objects in reach never share an id |
| **Collector and verdict** (410–705) | findings, obligations, deduplicated by key | `addFinding`, `addUnsupported`, `finalize`, `exitCode` | post-processing under an agent contract | FAIL over INCOMPLETE over PASS |
| **Pointer-output contracts** (#41; 2460–2902, 4052–4087) | pending guards and marked bindings in the flow state | `acceptsOutOwnerProduce`, `applyOutOwnerProduce`, `applyOutOwnerRefinement`, the kills | a guard that outlives a write to its variable; two edges, one condition; a site that comes round again | a pointer is an owner only where a test says so; a guard tells what its call did |
| **Function summaries** (`SummaryBuilder`, 4381–4810; `prepare`, 4819–4865) | summary store | `scan`, `combineReturn`, Jacobi rounds | recursion; a bound on the rounds instead of a convergence test | a summary covers what the body does; the rounds converge |
| **Contracts and annotation review** (4867–5505) | reviewed annotations, contract symbols, conflicts | `seedReviewedAnnotations`, `loadContracts`, `applyContractSymbol` | three sources disagree; order of application | a conflict is never resolved in favour of trust |
| **Agent check gate** (5604–5641, 5689–5809, 6353–6804) | `AgentPolicyState`, the hashed inputs | `loadAgentPolicy`, `collectSourceInputs`, `validateAgent*`, `addIncludedFiles`, `canEmitCand1Pass`, `main` | files, policy and origin/main are read one after the other and may change in between; two predicates make result and exit code | exit 0 rests on what origin/main pins, not on the workspace |
| **Generated-code policy** (`agent_policy.cpp`; `runPolicyDiff`) | two policies | `loadPolicyText`, `isStrictGeneratedPolicy`, `comparePolicies`, `contractIsPinned` | several changes in one diff; many diffs in a row | a weakening is never reported as neutral, and no chain of tightenings is one |
| **Evidence** (5812–6278) | the evidence file and its digest | `buildEvidence`, `verifyEvidenceFile` with its replay | a file edited by hand, left over, or made while files changed; a replay that is not the same run | evidence that verifies is true now; honest evidence verifies |
| **Trusted attestation** (`.github/trusted/attest.py`) | none | a CI script | | |
| **Frontend** (`ASTVisitor`, 5508–5603) | clang AST and CFG | `VisitFunctionDecl` | | |
| **Tests, fuzzers, scripts, examples, contracts** | none | | | |

Interactions: the frontend hands every function body to the driver, after the summaries of
all functions have been computed and merged with contracts; the driver calls the handlers,
which call the lattice and read the summaries; the handlers hand notes to the Collector,
only while `emitting_`; `main` turns the Collector's verdict, and in agent mode the gate,
into the exit code and the evidence. The gate reads the workspace and origin/main, which
others write at the same time; the evidence file outlives the process that wrote it, and
verifying it starts the check again.

The analysis is sequential: what is hard in it is *order* (of blocks, statements, arguments,
passes), *staleness* (a cached result, a liveness computed for fewer borrows than the emission
pass has, a guard whose variables have changed) and *long sequences of legal statements* that
reach a state no test wrote down. The gate is sequential in a world that is not: edits, commits
and merges *interleave* with its reads, and what it wrote is read when it is no longer true.
`PROJECT.json` lists each of these hazards at its line.

## 2. Modules

| module | models | how it corresponds |
|---|---|---|
| `OwnershipLattice` | the domains and joins | one operator per C++ function, same names |
| `OwnershipTransfer` | the statement handlers | one operator per handler: flow state in, flow state and notes out |
| `GuardRefinement` | `applyOutOwnerRefinement` and the edge loop of `run` | what a condition says of a marked pointer on each edge |
| `ProgramTransfer` | `seedParameterState`, `transfer` | a block folds its statements |
| `FlowAnalyzer` | `FlowAnalyzer::run`, borrow liveness, `Collector::exitCode` | see below |
| `ChaoticIteration` | abstract specification of the fixed point | any state space, transfer and join; no worklist, no cache |
| `CheckedExecution` | the analysed C function running after the verdict | ISO C semantics of the statements; external to the repository |
| `SmallPrograms`, `MCFlowAnalyzer`, `MCCheckedExecution` | the functions TLC analyses | shapes of control flow with choices of statements |
| `FunctionSummaries` | `FunctionSummary` and its enumerations | what a caller may rely on; used by `OwnershipTransfer` too |
| `SummaryBuilder` | `SummaryBuilder` | one operator per question it asks of a statement; `build` is its `build` |
| `ContractMerge` | `seedReviewedAnnotations`, `applyContractSymbol` | what one annotation or contract makes of one summary |
| `SummaryFixpoint` | `prepare`, `loadContracts` | the rounds and lists as a state machine, see below |
| `SummaryMeaning` | what the bodies do | least relations over the call graph; the yardstick for summaries |
| `MCSummaryFixpoint` | the translation units TLC runs | three bodies, two externals, by shape of the call graph |
| `GeneratedPolicy` | `agent_policy.cpp`, `runPolicyDiff` | one operator per function; a policy text is loaded or refused |
| `PolicyRatchet` | abstract specification of the policy gate | origin/main's policy is tightened or reviewed, nothing else |
| `AgentCheck` | `cand check --agent` | one action per step of `main` that reads the workspace, see below |
| `AgentWorkflow` | `verifyEvidenceFile`, and what happens to the repository | runs `AgentCheck` twice: the check and its replay |
| `MCAgentWorkflow` | the repositories, command lines and edits TLC tries | two sources, a header, a contract, a review manifest, 11 policies |
| `FiniteRecursion` | lemmas on recursive functions | an induction principle and type rule the provers can use |
| `OwnershipLatticeProofs`, `OwnershipTransferProofs`, `FlowAnalyzerProofs`, `UniqueOwnerProofs`, `CheckedExecutionProofs`, `SummaryFixpointProofs`, `AgentWorkflowProofs` | theorems | section 5 |

`FlowAnalyzer` has these variables and actions:

| variable | code |
|---|---|
| `program` | the `FunctionDecl` and its `CFG` |
| `in_states`, `out_states`, `worklist` | the locals of `run()` of those names |
| `known_borrow_storages` | `known_borrow_storages_` |
| `borrow_live_in`, `borrow_live_out`, `changed`, `sweep` | locals of `computeBorrowLiveness`; `sweep` is the rest of its `for` loop |
| `phase` | where `run()` stands; `phase = "emit"` is `emitting_` |
| `notes` | what reached the `Collector` |

| action | code |
|---|---|
| `ProcessBlock(b)` | one turn of the worklist loop, on the lowest id, as the `std::set` gives it |
| `Converged` | the loop ends, `computeBorrowLiveness` starts |
| `SweepBlock(b)`, `EndSweep` | one block of a liveness turn; the end of a turn |
| `Emit` | the emission pass over all reached blocks |

`CheckedExecution` adds the run of the function: `Enter` when the analysis left no
obligation, then one action per statement (`Malloc`, `Copy`, `Borrow`, `Move`, `Free`, `Use`,
`Call*`, `SetResult`, `ReceiveResult`, `Return`) and `Branch`, to the successor its condition
chooses, or to any where the condition says nothing of the modelled variables. Its state is a
heap of concrete objects, the pointers, the integer results of calls, which pointers
`CAND_MOVE` emptied, and which borrows a conflicting borrow displaced. A callee does what its
summary says, to its arguments in any order; one that takes ownership may destroy the object or
keep it; one that hands an object out (`CallProduces`) succeeds or fails as its contract allows
and its result tells.

`SummaryFixpoint` has these variables and actions:

| variable | code |
|---|---|
| `unit` | the translation unit with the inputs of the command line |
| `store`, `next` | `summaries_` and the `next` of a round |
| `phase` | the two loops of `prepare`, and the two lists between them |
| `round`, `position` | the loop counters |
| `unreviewed`, `conflicting`, `contract_error` | what the review and the contracts leave on record |

| action | code |
|---|---|
| `Build` | one declaration of a round: `SummaryBuilder(f, summaries_, next).build()` |
| `EndRound` | `stable = next == summaries_`, the swap, and the loop condition |
| `ReviewAnnotation`, `AnnotationsDone` | one declaration of `seedReviewedAnnotations`; its end |
| `ApplyContract`, `ContractsDone` | one symbol of the contract bundles; the start of the second rounds |

`AgentCheck` and `AgentWorkflow` have these variables and actions:

| variable | code |
|---|---|
| `workspace`, `origin` | files, policy files and HEAD; the commit and policies of origin/main |
| `evidence` | the file `--emit-evidence` names, and the temporary one of a replay |
| `run` | a process of `cand check --agent`: its phase, `AgentPolicyState`, inputs and outcome |
| `verification` | a process of `cand evidence verify` |
| `reviewed`, `changes`, `started`, `made` | history for the properties |

| action | code |
|---|---|
| `LoadPolicy`, `CompareTrustedBase`, `CompareWithBase` | `loadAgentPolicy`, cut where it reads the workspace, then git, then git again |
| `CollectSources`, `ValidateTrustedInputs`, `Analyse`, `Report` | the rest of `main`, cut at each new reading |
| `Verify`, `CompareInputs`, `CompareReplay` | `verifyEvidenceFile`: the bindings, the trusted inputs, the replay |
| `EditFile`, `EditPolicy`, `Commit`, `EditEvidence` | what others do to the workspace between any two of these |
| `MergeByPolicyDiff`, `MergeByEvidence`, `MergeByReview` | the ways into origin/main |

Conventions:

- A definition whose comment starts with **Fault** is a plausible bug in the operator
  that follows it. Nothing uses it; `PROJECT.json` says which property refutes it.
- A statement carries what the expression classifiers found out (`op`, the storages it names,
  whether it is a declaration, whether its allocation is in a loop).
- `point` on a read or a pointer step says whether the expression is an element of the
  control-flow graph. `borrowLiveAfter` answers "live" for any other expression, so nothing
  expires there.

What the modules abstract:

- Source locations and message names. They are part of the equality `run()` tests, and
  joined by minimum; without them an iteration may end a turn earlier, never later.
- `allocation_generations` is the set of the sites at generation 1: the code never stores
  another number (3073–3120).
- Fields, array elements and globals as storages: each behaves as a local or is unsupported.
- A condition is given in the normal form `applyOutOwnerRefinement` reduces it to: a subject
  (the call, a result variable, a pointer), `=` or `!=`, and a constant that is zero or is not.
  Everything else, compound conditions included, is "other" and refines nothing.
- The slot of a pointer-output call is its last argument; that it names a plain local is part of
  the statement, that its address escapes, and that the call is lexically in a loop, are flags.
- Parameter ids do not run out (`ProgramAssumption`); `parameterObjectIdForIndex` would
  return the unknown id then.
- A body is the sequence of the statements `scan` visits, with the questions of syntax
  answered: which parameters an argument contains, which one it is, which one a local stands
  for, whether a call is conditional. Only pointer parameters are numbered, and `malloc`
  stands for `calloc` too.
- A contract or annotation is a record of stated facts about one declared symbol. Parsing,
  symbols without a declaration, conflict texts and out-owner facts are left out; whether
  redeclarations contradict each other, or are eligible, is an input.
- The distinct texts of an unknown call (function pointer, variadic, unknown name) are one.
- The gate: a digest is the content itself (so two contents never share one); a step reads what
  it reads at one instant; of the markers counted, the files that hold one are kept; the
  analysis is a constant function of the rules, the files, the arguments and the manifests; the
  frontend's arguments come from the command line, as with `--`; one `cand` process runs at a
  time. Failures of git, of writing the evidence file and of finding its own binary end a run at
  once in the code and are left out, as are malformed JSON and runs without `--agent`.
- An action of the run stops at a null or uninitialised pointer: the claim excludes them.
  An allocation succeeds.

## 3. Runs

All runs but `agent` and `replay_two_sources` say `CHECK_DEADLOCK FALSE`, because an analysis,
and the function after it, end.

| run | asks | bounds |
|---|---|---|
| `fixpoint` | Is the iteration right by itself? `TypeOK`, the worklist's invariant `WorklistCovers`, `PostFixpoint`, `UniqueOwner`, `LivenessIsReachableUse`; `EntryStatesAscend`, `EmissionFollowsConvergence`; refinement of `ChaoticIteration`; `Termination` | two nested loops over six blocks, three storages, allocations in loops, moves, borrows, an unsupported step |
| `branch_temporal` | Does a function with a branch that passed ever use or free a dead object (`TrustworthyPass`), and does the converged entry state describe every run (`EntryStateCovers`)? | two pointers, every choice of four statements around one branch; default profile |
| `borrowing` | At `--level=cand1` with pointer-output contracts: the same, and no use after a move (`NoUseAfterMove`) nor of a borrow after a conflicting one was made (`ExclusiveBorrows`); a pointer called an owner has its object (`OwnersExist`), two pointers bound to one object point to one (`ObjectsToldApart`), and a pending guard's result tells what its call did (`GuardsTestify`) | one branch or one loop, up to seven statements, three pointers: parameters of every effect, borrows, calls that read, take, destroy or return their arguments, sites that allocate in a loop, and objects handed out by five kinds of contract and tested by result, by call or by pointer; 14 127 functions |
| `summaries` | Do the rounds reach summaries that agree (`ConvergedOrClosed`)? Does no function destroy what its summary says it borrows or ignores (`DestructionCovered`), and does a result have the origin its summary says (`ReturnOriginsCovered`)? `TypeOK`; does a trusted input ever replace a body (`BodiesWin`), is a disagreement noted (`ContractsAgree`) and kept (`ConflictsStay`), and is an early end a solution (`EarlyEndSolves`)? | three bodies and two parameters. Call chains: arguments straight, swapped, twice, by alias, under a condition, by parts, over eight leaves, declared before or not; relays of results, recursive ones too, over eleven sources; annotations × manifests × contracts for a body and an external it reaches, malformed ones included |
| `agent` | Does exit 0 of a run nothing interfered with rest on origin/main's policy, whatever the workspace's says, under the rules of the level on the command line (`PassRestsOnBase`)? Is evidence that verifies and passes, with nothing changed during the verification, true of the repository as it is now (`ValidPassHoldsNow`), and does honest evidence of a run no policy refused verify (`HonestEvidenceVerifies`)? Do exit code and result agree but for the passes that are withheld (`ExitCodeTellsResult`)? Does origin/main's policy only tighten without a human (`RefinesPolicyRatchet`)? | five repositories, 19 command lines, three environments, and up to two changes (edits of files and policy, commits, forged evidence, merges) at any point of a check and a verification. The constraint `Bounded` does not follow a refused run after a change, nor a second change in three of the repositories or after some edits of the policy |

The invariants of an analysed function are about a *passed* function, so a run's functions are mostly ones that
fail; those that pass and then run are what the invariant speaks of, and for each of them a
mutant of the code turns a wrong function into a passed one.

Why the bounds are enough: a missed violation needs one object, two names of it, a join and
at most three statements after it. A guard adds one integer, of which `Values` has 0, 1 and one
more, and one edge for each answer. Loops get four objects (`MaxHeap`) so that a site comes
round twice while an older object of it is still in reach, which is where generations run
out. `ArgumentIndices` is two arguments per call. `kGenerationStride`, `kUnknownObjectId` and
`kParameterObjectIdBase` are 1 000 000, `UINT_MAX` and the parameter base in the code and
small numbers here that keep the three id ranges apart; the proofs hold for all values.

For summaries, three functions are the least that have an effect pass through a function in
the middle, and two parameters the least that can be swapped or merged. `ConvergedOrClosed`
and `DestructionCovered` hold on call chains: a chain of n functions settles within n rounds, one
of which is spare. `ContractsAgree` holds where externals are reached by direct arguments and results
are not mixed, since then only what was Unknown changes (22 of section 5). The runs
of the next section take away one of these conditions each (a cycle with an alias; an alias
whose effect is known only in the second rounds) and lose the property. So does a declaration
repeated after the definition: `hasBody()` is true of it, it is built last, and
`parameterIndex` finds none of the parameters the body names. The bounds leave that case out,
and also calls that pass one object twice (`replace(p, p)`), whose outcome depends on the order
in which the callee reads and destroys.

For the gate, two changes let one undo what another did (edit and restore, edit and merge) while
a check or a replay is under way, and two sources, one named and one not, tell the scope from
the arguments. Contracts that are always written and yet nullable, tested by their result, and
contracts written on success with a nullable object are left out of the functions: they refine
by the same two operators.

### Runs that find a disagreement

Each of these checks one property that a document of the repository states, and TLC finds a
short function the analyser passes or describes, or a unit it summarises, against it.

| run | function | document |
|---|---|---|
| `moved_or_null` | `p = NULL; if (c) { p = malloc(); q = CAND_MOVE(p); } use(p);` : NULL joined with Moved is MaybeNull (`joinBinding`, 913) and the move is forgotten | SPEC-0006:47, SPEC-0001:176 |
| `consumed_alias` | `q = p; take(CAND_MOVE(p)); use(q);` : only `p` is marked moved, the object stays Owned | README:222-224 |
| `summary_ignored_read` | `void f(int *p) { *p = 1; ignore(p); }`: the later effect None replaces the Borrow, and callers may pass a dead object | ADR-0027:38-44 |
| `summary_recursion` | `f(p) { int *l = p; g(l); }`, `g(q) { if (c) f(q); free(q); }`: the summaries alternate for ever, and the last ones are used | SPEC-0001:172 |
| `third_borrow` | a borrow that is refused while the states converge and granted in the emission pass has no liveness, and expires at once; a third, conflicting borrow passes | SPEC-0010:44-48 |
| `produce_in_goto_loop` | `again: q = p; free(p); p = NULL; fill(&p); if (c) goto again; free(q);` : the refusal of pointer-output calls in loops is lexical, a `goto` makes no lexical loop, and each round makes the object of the round before Owned again | the comment at 2643–2648, SPEC-0001:176 |
| `replay_two_sources` | evidence of a run over two sources never verifies: the arguments are recorded once per source, and the replay passes all of them on | SPEC-0004:108-110 |

Disagreements met while modelling for which there is no run of their own:

- Result and exit code (6784–6804): without findings a cand1 run under the pointer-output rules,
  of an unreleased verifier or against a p0 policy reports `incomplete` and exits 0, where
  `README.md:186-189` and the comment at 6750 say 3. `ExitCodeTellsResult` says these are all.
- `start: p = malloc(); q = NULL; ok = try(&q); if (ok) { free(q); q = p; } check: if (q) use(q);`
  with both paths to `check` analysed before it: the join has the object of one path and the mark
  of the other (`joinBinding`, 907), and the test of `q` makes a second Owner of `p`'s object
  (`refineByDestNullCheck`, 2733), against SPEC-0010:36 and ADR-0030:129.
- A move of an unresolved pointer that is no call argument (2333) notes nothing; SPEC-0006:51
  says INCOMPLETE.
- A contract is compared with a body before the externals the body calls have their contracts,
  and not again (5415); ADR-0013:29-30 says a contradiction is refused. Three ways lead to one: a
  call passes a local that stands for a parameter; a parameter is passed on and then returned
  (`x(p); return p;` is a borrow of its argument until `x` is known to take it, then Owned); a
  function returns the results of two externals, comes into conflict when the second is known,
  and its caller's confirmed effects turn Unknown with it.
- The level of the command line is not compared with `policy.safety_level` (`README.md:300`,
  ADR-0009); the replay, which runs at the recorded level, tells them apart.
- The review manifest is recorded but not passed to the replay (6245–6251, against ADR-0029). Nor is
  the manifest or the option a policy refused: such `fail-policy` evidence may verify as stale.
- With more than one source and frontend arguments in the policy, the arguments collected (once
  per source) never equal the policy's (6712–6720).
- Copying or returning a pointer whose object may not have been made is silent and drops the
  mark (3475), where ADR-0030 section 5 says a use is never silently accepted.
- A call as condition is routed by the contract's success polarity even if the contract always
  writes and so has none (2805-2813; the parser takes the key for `on_success` only, 5134-5139):
  with `find` always writing, nullable, the edge of `if (find(&p))` where the call was not zero
  marks `p` Null though an object may be there. `p = NULL; q = NULL; if (find(&p)) { q = p;
  free(q); } free(q);` then passes, the copy of the marked Null dropping its mark (3475), and
  destroys one object twice. ADR-0030:128-132 routes by a zero or nonzero polarity and names no
  edge for a contract without one.
- `int *x(void);` with a contract `none`, `int *y(void);` with a contract `owned`:
  `if (c) return x(); return y();` is summarised as Owned, since `combineReturn` (4652) lets None
  give way to whatever follows; SPEC-0003 section 5 lists `none` and `owned` as different values.
- The effect None for the slot of a contract is written to a vector that is still empty, and
  overwritten (5400–5403): an accepted produce into a moved-from slot reports the slot, against
  the comment at 5397–5399.

## 4. Fairness

`FairSpec` is `Spec /\ WF_vars(Next)`. `run()` is straight sequential code in one
process: while it has a next step it takes it. Nothing finer is needed, because the worklist
is ordered and only one step is enabled at a time. `Termination` is then a question about
the transfer functions: that their results stop changing although the join is not a
textbook semilattice and the transfer functions are not monotone.

## 5. Proofs

All theorems hold for every set of storages, blocks, programs and summaries and all values
of the id constants, from the assumptions the modules name:
`UnknownIdAssumption`, `IdAssumption` (ids are naturals and the ranges are in order),
`SummaryAssumption`, `ProfileAssumption` (cand1 is strict) and `ProgramAssumption`
(a program is a well-formed graph of statements), `BlocksAssumption` (with finitely many blocks), `OutOwnerAssumption` (contracts of summarised
callees, only at cand1); for summaries, `UnitAssumption` (a
translation unit is well formed: every body is declared, contracts name declared symbols); for
the gate, `StartAssumption` (a repository has files, policies and commits),
`InvocationAssumption` (a command line is a list of sources and of arguments, and its evidence
does not go into the temporary file of a replay), `NotGivenAssumption` (an option that is left
out is no path), `MaxUnsignedAssumption` and `ChangesAssumption`. Nothing is assumed of the
analysis the gate runs (`Analysis`): it may find anything.

1. **`OwnershipLatticeProofs!JoinFlowFacts`.** `joinFlow` of two flow states is a flow state,
   is idempotent, and absorbs both operands: `joinFlow(joinFlow(a, b), b) = joinFlow(a, b)`,
   and so for `a`. It is proved component by component; bindings need
   `CoherentBinding` (a binding to no object is Null, Alias or Unknown), without which
   absorption fails.
2. **`OwnershipTransferProofs!TransferBlockOK`.** Every handler, and so every block, keeps
   a flow state well formed and coherent. One lemma per handler, then an induction over the
   statements of a block. `AlongEdgeOK` says the same of the refinement of an edge, whatever
   the condition.
3. **`FlowAnalyzerProofs!TypeCorrect`**: `Spec => []TypeOK`, from 1 and 2.
4. **`WorklistCorrect`, `FixpointCorrect`**: `Spec => []WorklistCovers` and
   `[]PostFixpoint`. `PostFixpoint` is not inductive: it says nothing while the worklist is
   non-empty. The strengthening is `WorklistCovers`: a reached block off the worklist has its
   current result in `out_states`, and every result there has already been absorbed by the
   successors' entry states. A turn that changes an entry state puts its block back; a turn
   that does not needs idempotence and absorption, which is why 1 comes first. At
   `Converged` the worklist is empty and `PostFixpoint` follows.
5. **`EntryStatesOnlyAscend`, `EmissionIsPostConvergence`**: the two action properties.
   The first is what makes dropping a block from the worklist safe; the second is ADR-0011's
   promise that no diagnostic comes from an intermediate state.
6. **`Refinement`**: `Spec` implements `ChaoticIteration`. A turn whose result is unchanged
   is a stutter, by `WorklistCovers`; any other turn is a `Grow`; `Converged` is a `Settle`,
   by `PostFixpoint`.

7. **`SummaryFixpointProofs!SummariesTyped`**: `Spec => []TypeOK` of `SummaryFixpoint`: every
   summary of every round is a `FunctionSummary`, whatever the bodies, annotations and
   contracts are. The work is in `BuildOK`: one lemma per operator of `SummaryBuilder`, and
   `FiniteRecursion!StaysInSet` for each of its three recursions (arguments of a call,
   effects over a body, results over a body).
8. **`BodySummariesWin`, `ConflictsArePinned`**: no trusted input replaces the summary of a
   body, and a conflict that is noted stays. Neither is inductive: the rounds need
   `BodiesBuilt` (outside the first rounds every body has a summary built from it) and
   `ConflictsPinned` (during the second rounds `next` holds the conflicts of the store).
9. **`StableMeansSolved`**: when the second rounds stop because nothing changed, every
   summary of a body without a conflict is the one `build` gives under the final store. The
   invariant is `RoundFollowsStore`: what a round has put into `next` for f was built from the
   *last* declaration of f so far, under the unchanged store; that `next` starts as a copy of
   the store is harmless because every body is declared. Nothing like it holds
   when the rounds run out (`summary_recursion`).

10. **`AgentWorkflowProofs!PolicyDiffOnlyTightens`**: for every two policy texts, `cand policy
    diff` exits 0 only if the new one admits nothing the old one refuses. One lemma per kind of
    setting shows that a loosening puts a weakening into the list, which no other entry removes.
    **`TighteningsAddUp`**: being at least as strict is transitive, so a chain of such merges is
    one. Together they are the step of 15 that has no verified check in it.

11. **`AgentWorkflowProofs!TypeCorrect`, `ExitCodeHonest`**: `Spec => []TypeOK` and
    `[]ExitCodeTellsResult` of `AgentWorkflow`, for any repositories, command lines, edits,
    forgeries and any number of changes. The invariant is `TypeInv`: beside `TypeOK` it has `RunOK`
    (a state with an error or a weakening is one that fails the policy; an outcome is
    `verdictOf` the run) and `Kept` (what each phase of `main` has checked of what it read).
12. **`ExitZeroRestsOnBase`**: `Spec => []PassRestsOnBase`. `PassRestsOnBase` looks only at runs that
    are over; `RunInv` adds what the run holds at each phase on the way: while nothing has changed
    since the run began (`quiet`) and the run does not fail the policy, its policy is the one in
    the workspace, its comparison the one with origin/main as it is, its inputs the files as they
    are, and each test that was passed is true of them (`UpToDate`). A run that fails the
    policy needs no agreement, since it never exits 0.
13. **`ValidPassIsTrue`**: `Spec => []ValidPassHoldsNow`. `VerificationInv` says that the running
    replay is the one the evidence asks for and began after the verification did, and that what it
    writes is what its run found. A verification that ends "valid" has compared that with
    the evidence, so whatever the file's history, a pass in it is the pass of a run over the
    repository as it is, to which 12's invariant applies.
14. **`HonestEvidenceIsValid`**: `Spec => []HonestEvidenceVerifies`. It needs that the check is a
    function of the repository and the command line: `cleanRun` computes what a run that does not
    fail comes to (`DecidedRun`) and `Accepts` whether there is one, and neither depends on how
    the run got there. `ReplayRepeatsIt` shows that the command line of the replay is
    accepted if the recorded one was, and gives the same evidence; pins are normalized paths, so
    the manifest the evidence names is the manifest that was used. `HonestInv` carries
    this through the two runs: the file is `AsWritten`, and the verification is `Following` it to
    "valid". The three hypotheses of `HonestEvidenceVerifies` are where this breaks in the
    code (section 3).
15. **`WorkflowRatchets`**: `Spec => RefinesPolicyRatchet`, the workflow implements
    `PolicyRatchet`. The only steps that change origin/main are the merges. `MergeByReview`
    reviews; `MergeByPolicyDiff` is a tightening by 10; `MergeByEvidence` is one because by 12
    and 13 a verified pass stands for a policy at least as strict as origin/main's. `StillAsStrict`
    and `TighteningsAddUp` carry that to the policy reviewed last.

The properties of the `agent` run are thereby all proved.

16. **`UniqueOwnerProofs!OwnersAreUnique`**: `Spec => []UniqueOwner`. That two owners own two
    objects (`OwnersApart`) is not inductive: an allocation must give an id that nothing in reach
    is bound to. The invariant `Apart` adds that an object of a site's second generation is in
    reach only if the site is on record as being there (`GenerationsOnRecord`), and that no pointer
    waits for a guard (`NoneMarked`). `hasRetainedGenerationReference` is then enough for both
    generations of a site, since the ids of two sites do not meet; a join gives an owner only where
    both sides have one of the same object, and puts every site on record that either side has
    there. One lemma per handler, an induction over the statements of a block, and the edges.
    The three hypotheses are conditions of the code's, not of the proof's: before `cand1` a site has
    one id, and a loop makes it again; with pointer-output contracts a guard makes an owner of an
    alias (the second disagreement without a run in section 3); and a function with more sites than
    `kGenerationStride` gives one id to two sites (`SitesFit`). The runs check `UniqueOwner` with contracts, over functions whose
    marked pointers are not joined with aliases.

17. **`FlowAnalyzerProofs!SweepsFindTheUses`**: `Spec => []LivenessIsReachableUse`. The invariant
    `LivenessInv` has both halves. Upper: at every moment of the sweeps a storage that is live at
    a block is a known borrow a use of which lies ahead (`UsedWithin`). Lower: while a turn has
    changed nothing, the equations hold at the blocks it has left behind, so that they hold
    everywhere when a whole turn changed nothing; `EndSweep` must reset `changed` for that.
    `UsedWithinIsLeast` makes the two meet: the paths of at most `Cardinality(Blocks)` steps are
    all there are (`GrowthSettles`; here the graph must be finite, `BlocksAssumption`), so that
    `UsedWithin` is the least set the equations allow. That the sweeps do end is `Termination`, and
    only model-checked.

18. **`CheckedExecutionProofs`**: `PassIsTrustworthy`, `EntryStatesDescribeRuns`, `OwnersHaveObjects`,
    `ObjectsAreToldApart`: `CheckedSpec => []TrustworthyPass`, and so for `EntryStateCovers`,
    `OwnersExist` and `ObjectsToldApart`, for any number of storages, blocks, loops and objects.
    The proof is a simulation. `Covers(st, m, h)` says that a flow state tells the truth of a memory:
    a pointer is bound to its object or to an unresolved target; an object that is gone is not
    Owned; two pointers with known targets are bound to one object just when they point to one; an
    owner has an object. One lemma per statement (`NullCovers`, `CopyCovers`, `NewObjectCovers`,
    `FreeCovers`, `UseSafe`, `CallCovers`) shows that a statement the analysis is silent about keeps
    that and kills no dead object. Where the proof could fail is the allocation: it makes
    an object id Owned again, and `BearsCovers` needs that no other pointer is bound to that id,
    which is `Apart` of 16. `AbsorbingCovers` takes the relation along an edge: an entry state that
    has absorbed another says less. The rest is about when the analysis is silent. `RunCovered`
    speaks of the state between two statements of the emission pass (`Between`), and holds because
    a PASS means that the pass noted nothing in any reached block (`Quiet`), each of whose
    entry states has absorbed what its predecessors send (`WorklistCovers`, 4) and the entry
    block's what the function is entered with (`SeedAbsorbed`). Within a call `Behind` counts it
    as done from its first argument on.
    The hypotheses are those of 16 and `PlainPrograms`: no borrow and no `CAND_MOVE`, no callee that
    returns a borrow of its argument, and a callee that destroys an argument has no other. With moves the
    theorem is false (`consumed_alias`, and the silent move of an unresolved pointer in section 3);
    so it is with pointer-output contracts (`produce_in_goto_loop`), and where a callee destroys one
    argument and reads another, which may be the same object. Borrows are left out because the
    emission pass may then differ from the passes before it (`third_borrow`): without them every pass
    of a block is the same one (`TraceFacts`, `TransferPlain`).

19. **`SummaryFixpointProofs!RoundsAreEnough`**: `Spec => []ConvergedOrClosed` for units in which no
    function calls itself (`NonRecursive`). `prepare` has no test that its rounds converged when
    they run out; this says that as many rounds as declarations and one more are enough. A rank
    above the ranks of its callees is found for each body; `RoundsSettle` says that round r has
    brought the bodies of rank r to rest: in conflict, which the second rounds pin, or equal to what
    `build` gives. That needs a congruence, `BuildAgrees`: two stores that agree on the functions
    a body calls or returns from build the same summary, so a body whose callees rest has
    nothing left to change for. Contracts, annotations and what the first rounds left may be
    anything. Recursion is where it fails (`summary_recursion`).
20. **`DestructionIsOnRecord`, `DestructionIsCovered`**: `Spec => [](ConvergedOrClosed =>
    DestructionCovered)`, and so `[]DestructionCovered` without recursion. The yardstick `Consumed` is
    a least relation over the call graph, the summaries any solution of their equations; the proof is
    that the parameters whose summaries admit it are closed under the steps of the least one
    (`ConsumedWithin`). A step is: what a call consumes cannot be lost by the statements after
    it (`CombinedLasts`, `EffectsLast`, by `StaysInSetFrom`). The effects that last are
    Destroy, TakeOwnership and Unknown; Borrow does not, and `ReadsCovered` is false
    (`summary_ignored_read`). The
    summaries of recursive functions are included wherever they agree with each other.
21. **`ReturnsAreOnRecord`, `ReturnsAreCovered`**: the same for `ReturnOriginsCovered`, on states where
    the bodies in conflict are those that contradict themselves (`Uncontradicted`) and functions that
    return an owned object have no parameter of unknown effect (`OwnersKnown`). `Told` is the
    summary's side of an origin, and `OriginsTold` that `Told` is closed under the steps of `Origins`:
    one lemma per kind of return statement. The hard one is `OwnedTold`: a callee returns the
    object it took over, the caller passed a parameter there, and so must have a summary
    that says the parameter is taken (`CallConsumes`, with {TakeOwnership, Unknown} in the
    place of the effects that last in 20). `ReturnsAgree` says that a result noted at one return is the
    final one or there is a conflict, and `ExternalsStated` is the invariant about contracts and annotations.

22. **`ComparedOnceIsEnough`**: `Spec => []ContractsAgree` for units all of whose bodies are `Steady`. The
    contracts are compared with summaries made while externals are unknown, so the question is
    what the second rounds may still change. Order the summaries by `Sharpened`: whatever the first
    says of an effect or a result the second says too, unless it was Unknown. `build` is monotone
    in that order on steady code (`BuildSharper`, by `StaysRelated` for the scan of a body and for its
    returns). `RoundsSharpen` is the invariant: one more round would not take back anything known,
    before the contracts over the bodies' own summaries, and after them over everything. `Compared`
    says of the contracts met so far that they agree with their body or it is in conflict; what a
    contract confirmed was not Unknown, and so stays. No round need be the last one, and
    functions may call themselves.

`Steady` excludes the three ways of section 3, and TLC has a counterexample when any one is let in: no call is
passed a local that stands for a parameter (`NoAliases`), no parameter is passed on and then returned
(`UnpassedReturns`), and a function that returns another's result returns nothing else
(`LoneRelays`). 11 162 of the 13 436 units of `summaries` are steady.

The hypotheses of 20 and 21: `Orderly` (the definition is the last declaration of a function, `free` and
`malloc` have no body, `free` has one argument) leaves out the redeclaration after a definition of section 3.
`PlainReturns` leaves out the result `none` of a pointer function and asks of a trusted
fact what the parsers do (5121, 4922), and of a returned call what C and the scan do: it has the
arguments its callee declares, and is met as a call too. Both hold of all 13 436 units of the run
`summaries`; 12 864 of these are `NonRecursive`. `OwnersKnown` is needed: `g(p)`
takes p over, `if (c) return p; look(p);`, has an Unknown parameter and an Owned result, so that
`f(q) { return g(q->next); }` is Owned as well; the analysis of f has an obligation at that call,
the analysis of its callers has none. That `Uncontradicted` is, TLC does not show on units like those of the run.

Only model-checked are:

- `UniqueOwner` with pointer-output contracts, and the four properties of 18 outside plain functions;
- `NoUseAfterMove` and `ExclusiveBorrows`, which are false of some functions (the violation runs show
  them) and say nothing of plain ones; `GuardsTestify`, which is about pointer-output contracts;
- `ConvergedOrClosed` of recursive units (it is false of some), and `ReturnOriginsCovered` outside the
  hypotheses of 21;
- `ContractsAgree` outside the hypotheses of 22, where it holds of the units of `summaries` and is
  false of others;
- `Termination`: liveness under fairness and `ENABLED` are outside the prover.

So is induction over data with the library's theorems. The model writes recursion as recursive
functions so that the modules stay provable; what is proved of such a function beyond its type is
what `FiniteRecursion` carries along its arguments (17, 19 to 22), or an invariant kept by each statement
of a block (2 and 16).

## 6. Not modelled

- **Clang's AST and CFG**, expression classification: the statements of the model are what
  they produce.
- **Trusted attestation, tests, fuzzers, scripts**: no state of their own.
- **Collector text, JSON and human output**: formatting.
- **Runs without `--agent`** and the options only they have: the same analysis, with nothing
  around it.

## 7. Plan

Done: the lattice, the handlers with pointer-output contracts, the driver, its abstract
specification, the composition with a running program, the function summaries with the
annotations and contracts they are merged with, the agent gate with its evidence and policy, and
the proofs above.

In this order next:

| work | what it adds |
|---|---|
| proofs about guards | that a pending guard's destination and result are not written between its call and its test |
| `UnitAnalysis` | `SummaryFixpoint` composed with the handlers and `CheckedExecution`: the summaries the runs now take as given are those `prepare` computes; a unit whose functions all pass has no violation in any of them |

Then the gathering of annotations over redeclarations (`gatherAnnotatedDeclarations`) as an
extension of `ContractMerge`.
