------------------------- MODULE AgentWorkflowProofs -------------------------
(***************************************************************************)
(* Proofs about AgentWorkflow, in this order.                              *)
(*                                                                         *)
(* What a comparison finds.  comparePolicies and policyDiffExit of         *)
(* GeneratedPolicy, for every two policy texts: PolicyDiffOnlyTightens,    *)
(* TighteningsAddUp.                                                       *)
(*                                                                         *)
(* What a run holds.  RunOK and Kept tell what each phase has established  *)
(* from what the run itself read (AsAsked, Reconciled, InScope), however   *)
(* the repository changes meanwhile; UpToDate tells how that agrees with   *)
(* the repository while nothing changes.  CheckStepOK, CheckStepKeeps: one *)
(* lemma per stage of main.  From these: TypeCorrect, ExitCodeHonest and,  *)
(* while quiet, ExitZeroRestsOnBase.                                       *)
(*                                                                         *)
(* What a verification holds.  VerificationInv ties the replay to the      *)
(* evidence it repeats; ValidPassIsTrue and, with the lemmas on            *)
(* comparePolicies, WorkflowRatchets.                                      *)
(*                                                                         *)
(* What a run writes.  A run that does not fail is the one cleanRun        *)
(* computes of the repository and the command line (DecidedRun), and the   *)
(* repository and the command line tell whether it fails (Accepts).  The   *)
(* replay has a command line that is accepted too and gives the same       *)
(* evidence (ReplayRepeatsIt), hence HonestEvidenceIsValid.                *)
(***************************************************************************)
EXTENDS AgentWorkflow, TLAPS, FiniteSetTheorems

-----------------------------------------------------------------------------
(* The comparison of policies *)

\* A text, read or refused, has budgets that are natural numbers.
LEMMA BudgetsAreNatural ==
    ASSUME NEW text, NEW b \in BudgetKinds
    PROVE  loadPolicyText(text).budgets[b] \in Nat
<1>1. CASE readsAsPolicy(text)
    <2>1. loadPolicyText(text).budgets = Json(text).budgets
        BY <1>1 DEF loadPolicyText
    <2>2. Json(text).budgets[b] \in 0 .. MaxUnsigned
        BY <1>1 DEF readsAsPolicy
    <2>. QED BY <2>1, <2>2, MaxUnsignedAssumption
<1>2. CASE ~readsAsPolicy(text)
    <2>1. loadPolicyText(text).budgets = [k \in BudgetKinds |-> 0]
        BY <1>2 DEF loadPolicyText, unread
    <2>. QED BY <2>1
<1>. QED BY <1>1, <1>2

\* Whether it allows what is unsupported is decided either way.
LEMMA AllowanceIsBoolean ==
    ASSUME NEW text
    PROVE  loadPolicyText(text).allow_unsupported \in BOOLEAN
BY DEF loadPolicyText, unread, readsAsPolicy

\* A comparison that finds nothing weakened says that no budget grew, ...
LEMMA NoWeakerBudget ==
    ASSUME NEW before, NEW after, NEW b \in BudgetKinds,
           before.budgets[b] \in Nat, after.budgets[b] \in Nat,
           ~comparePolicies(before, after).weakened
    PROVE  after.budgets[b] <= before.budgets[b]
<1>. SUFFICES ASSUME after.budgets[b] > before.budgets[b] PROVE FALSE
    OBVIOUS
<1>1. Weakening(b) \in budgetChanges(before, after)
    BY DEF budgetChanges
<1>2. Weakening(b).classification = "PROOF_WEAKENING"
    BY DEF Weakening, Change
<1>. QED BY <1>1, <1>2 DEF comparePolicies

\* ... that nothing unsupported is newly allowed and no file left the scope.
LEMMA NoWeakerScope ==
    ASSUME NEW before, NEW after,
           before.allow_unsupported \in BOOLEAN, after.allow_unsupported \in BOOLEAN,
           ~comparePolicies(before, after).weakened
    PROVE  /\ after.allow_unsupported => before.allow_unsupported
           /\ before.scope_files \subseteq after.scope_files
<1>1. ASSUME after.allow_unsupported, ~before.allow_unsupported PROVE FALSE
    <2>1. Weakening("unsupported-policy-change") \in unsupportedChange(before, after)
        BY <1>1 DEF unsupportedChange
    <2>2. Weakening("unsupported-policy-change").classification = "PROOF_WEAKENING"
        BY DEF Weakening, Change
    <2>. QED BY <2>1, <2>2 DEF comparePolicies
<1>2. ASSUME ~(before.scope_files \subseteq after.scope_files) PROVE FALSE
    <2>1. Weakening("checked-scope-change") \in scopeChange(before, after)
        BY <1>2 DEF scopeChange
    <2>2. Weakening("checked-scope-change").classification = "PROOF_WEAKENING"
        BY DEF Weakening, Change
    <2>. QED BY <2>1, <2>2 DEF comparePolicies
<1>. QED BY <1>1, <1>2

\* A comparison that asks for no review says that no reviewed setting changed.
LEMMA NoUnreviewedSetting ==
    ASSUME NEW before, NEW after, NEW s \in ReviewedSettings,
           ~comparePolicies(before, after).review_required
    PROVE  after[s] = before[s]
<1>. SUFFICES ASSUME before[s] # after[s] PROVE FALSE
    OBVIOUS
<1>1. Review(s) \in settingChanges(before, after)
    BY DEF settingChanges
<1>2. Review(s).classification = "REVIEW_REQUIRED"
    BY DEF Review, Change
<1>. QED BY <1>1, <1>2 DEF comparePolicies

\* A comparison that finds nothing weakened and nothing to review finds a policy
\* that admits nothing the old one refuses.
LEMMA ComparedStricter ==
    ASSUME NEW base, NEW head,
           ~comparePolicies(loadPolicyText(base), loadPolicyText(head)).weakened,
           ~comparePolicies(loadPolicyText(base), loadPolicyText(head)).review_required
    PROVE  AtLeastAsStrict(loadPolicyText(base), loadPolicyText(head))
<1>. DEFINE before == loadPolicyText(base)
            after == loadPolicyText(head)
<1>1. \A b \in BudgetKinds : after.budgets[b] <= before.budgets[b]
    BY BudgetsAreNatural, NoWeakerBudget
<1>2. /\ after.allow_unsupported => before.allow_unsupported
      /\ before.scope_files \subseteq after.scope_files
    BY AllowanceIsBoolean, NoWeakerScope
<1>3. \A s \in ReviewedSettings : after[s] = before[s]
    BY NoUnreviewedSetting
<1>. QED BY <1>1, <1>2, <1>3 DEF AtLeastAsStrict

\* cand policy diff lets a change through without a human only if the new
\* policy admits nothing the old one refuses: no strengthening, and no other
\* change in the same diff, hides a weakening (comparePolicies and the exit
\* code of `cand policy diff`).
THEOREM PolicyDiffOnlyTightens ==
    ASSUME NEW base, NEW head, policyDiffExit(base, head) = 0
    PROVE  /\ readsAsPolicy(base) /\ readsAsPolicy(head)
           /\ AtLeastAsStrict(loadPolicyText(base), loadPolicyText(head))
<1>1. readsAsPolicy(base) /\ readsAsPolicy(head)
    BY DEF policyDiffExit, readsAsPolicy
<1>2. /\ ~comparePolicies(loadPolicyText(base), loadPolicyText(head)).weakened
      /\ ~comparePolicies(loadPolicyText(base), loadPolicyText(head)).review_required
    BY <1>1 DEF policyDiffExit, readsAsPolicy
<1>. QED BY <1>1, <1>2, ComparedStricter

\* Small tightenings add up to a tightening: what a chain of changes admits,
\* the policy it started from admits.
THEOREM TighteningsAddUp ==
    ASSUME NEW first, NEW second, NEW third,
           AtLeastAsStrict(loadPolicyText(first), loadPolicyText(second)),
           AtLeastAsStrict(loadPolicyText(second), loadPolicyText(third))
    PROVE  AtLeastAsStrict(loadPolicyText(first), loadPolicyText(third))
<1>1. \A b \in BudgetKinds : loadPolicyText(third).budgets[b] <= loadPolicyText(first).budgets[b]
    BY BudgetsAreNatural DEF AtLeastAsStrict
<1>. QED BY <1>1 DEF AtLeastAsStrict

-----------------------------------------------------------------------------
(* A run of the check *)

RunFields == {"phase", "inv", "state", "sources", "arguments", "contract", "review",
              "outcome", "analysed", "semantics"}
StateFields == {"policy", "delta", "policy_failed", "review_required", "policy_errors",
                "contract_inputs", "annotation_review_inputs", "unsafe_boundaries",
                "suppressions", "toolchain_supported"}
DeltaFields == {"changes", "weakened", "review_required", "classification"}

\* Every error and every weakening found makes the state one that fails.
StateOK(st) ==
    /\ st = [f \in StateFields |-> st[f]]
    /\ st.delta = [f \in DeltaFields |-> st.delta[f]]
    /\ st.policy_failed \in BOOLEAN /\ st.review_required \in BOOLEAN
    /\ st.delta.weakened \in BOOLEAN /\ st.delta.review_required \in BOOLEAN
    /\ st.policy_errors # {} => st.policy_failed
    /\ st.toolchain_supported \/ st.policy_failed

LEMMA NewStateOK == StateOK(newState) /\ ~policyFail(newState) /\ ~reviewRequired(newState)
BY DEF newState, noDelta, StateOK, StateFields, DeltaFields, policyFail, reviewRequired

LEMMA RejectOK ==
    ASSUME NEW st, StateOK(st), NEW error
    PROVE  /\ StateOK(reject(st, error)) /\ policyFail(reject(st, error))
           /\ reject(st, error).policy = st.policy /\ reject(st, error).delta = st.delta
BY DEF reject, StateOK, StateFields, policyFail

LEMMA RejectIfOK ==
    ASSUME NEW st, StateOK(st), NEW error, NEW condition
    PROVE  /\ StateOK(rejectIf(condition, error, st))
           /\ rejectIf(condition, error, st).policy = st.policy
           /\ rejectIf(condition, error, st).delta = st.delta
           /\ ~policyFail(rejectIf(condition, error, st)) =>
                 ~condition /\ rejectIf(condition, error, st) = st
BY RejectOK DEF rejectIf

LEMMA RejectAllOK ==
    ASSUME NEW st, StateOK(st), NEW errors
    PROVE  /\ StateOK(rejectAll(errors, st))
           /\ ~policyFail(rejectAll(errors, st)) =>
                 errors = {} /\ rejectAll(errors, st) = st
<1>1. StateOK(rejectAll(errors, st))
  BY DEF rejectAll, StateOK, StateFields
<1>2. ASSUME ~policyFail(rejectAll(errors, st)) PROVE errors = {}
  BY <1>2 DEF rejectAll, StateOK, StateFields, policyFail
<1>3. ASSUME errors = {} PROVE rejectAll(errors, st) = st
  BY <1>3 DEF rejectAll, StateOK, StateFields
<1>. QED BY <1>1, <1>2, <1>3

LEMMA WeakenOK ==
    ASSUME NEW st, StateOK(st), NEW kind
    PROVE  /\ StateOK(weaken(kind, st)) /\ policyFail(weaken(kind, st))
           /\ weaken(kind, st).policy = st.policy
BY DEF weaken, StateOK, StateFields, DeltaFields, policyFail

LEMMA ReconcileOK ==
    ASSUME NEW st, StateOK(st), NEW inv
    PROVE  /\ StateOK(reconcile(st, inv))
           /\ ~policyFail(reconcile(st, inv)) =>
                 /\ reconcile(st, inv) = st
                 /\ ~inv.weaker_profile
                 /\ ~(inv.level = "cand1" /\ ~inv.verifier.supported)
                 /\ ~(/\ inv.level = "cand1" /\ inv.pointer_output_contracts
                      /\ st.policy.pointer_output_contracts # "true")
           /\ reconcile(st, inv).policy = st.policy
<1> DEFINE unsupported == inv.level = "cand1" /\ ~inv.verifier.supported
           rejected    == [reject(st, "toolchain") EXCEPT !.toolchain_supported = FALSE]
           toolchain   == IF unsupported THEN rejected ELSE st
           contradicts == /\ inv.level = "cand1"
                          /\ inv.pointer_output_contracts
                          /\ st.policy.pointer_output_contracts # "true"
           pointer     == rejectIf(contradicts, "pointer-output", toolchain)
           profile     == weaken("profile-override", reject(pointer, "profile"))
<1>1. StateOK(rejected) /\ policyFail(rejected) /\ rejected.policy = st.policy
  BY DEF reject, StateOK, StateFields, policyFail
<1>2. StateOK(toolchain) /\ toolchain.policy = st.policy
  BY <1>1
<1>3. ~policyFail(toolchain) => ~unsupported /\ toolchain = st
  BY <1>1
<1>4. /\ StateOK(pointer)
      /\ ~policyFail(pointer) => ~contradicts /\ pointer = toolchain
  <2> HIDE DEF toolchain, contradicts
  <2>. QED BY <1>2, RejectIfOK
<1>5. pointer.policy = st.policy
  <2> HIDE DEF toolchain, contradicts
  <2>. QED BY <1>2, RejectIfOK
<1>6. StateOK(profile) /\ policyFail(profile) /\ profile.policy = pointer.policy
  <2> HIDE DEF pointer
  <2>. QED BY <1>4, RejectOK, WeakenOK
<1>7. reconcile(st, inv) = IF inv.weaker_profile THEN profile ELSE pointer
  BY DEF reconcile
<1> HIDE DEF toolchain, pointer, profile, unsupported, contradicts
<1>8. StateOK(reconcile(st, inv)) /\ reconcile(st, inv).policy = st.policy
  BY <1>4, <1>5, <1>6, <1>7
<1>9. ~policyFail(reconcile(st, inv)) =>
        /\ ~inv.weaker_profile /\ ~contradicts /\ ~unsupported
        /\ reconcile(st, inv) = st
  BY <1>3, <1>4, <1>6, <1>7
<1>. QED BY <1>8, <1>9 DEF unsupported, contradicts

LEMMA SubstitutedOK ==
    ASSUME NEW st, StateOK(st), NEW kind
    PROVE  StateOK(substituted(kind, st)) /\ policyFail(substituted(kind, st))
<1>1. StateOK(reject(st, kind)) /\ policyFail(reject(st, kind))
  BY RejectOK
<1>. QED BY <1>1 DEF substituted, StateOK, StateFields, DeltaFields, policyFail

LEMMA ViolationOK ==
    ASSUME NEW st, StateOK(st), NEW kind, NEW marked
    PROVE  /\ StateOK(violation(kind, marked, st))
           /\ ~policyFail(violation(kind, marked, st)) =>
                 marked = {} /\ violation(kind, marked, st) = st
BY RejectOK, WeakenOK DEF violation

LEMMA PolicyViolationsOK ==
    ASSUME NEW st, StateOK(st)
    PROVE  /\ StateOK(addDetectedPolicyViolations(st))
           /\ ~policyFail(addDetectedPolicyViolations(st)) =>
                 /\ st.unsafe_boundaries = {} /\ st.suppressions = {}
                 /\ addDetectedPolicyViolations(st) = st
<1> DEFINE unsafe == violation("new-unsafe-boundaries", st.unsafe_boundaries, st)
<1>1. /\ StateOK(unsafe)
      /\ ~policyFail(unsafe) => st.unsafe_boundaries = {} /\ unsafe = st
  BY ViolationOK
<1>2. addDetectedPolicyViolations(st) = violation("new-suppressions", st.suppressions, unsafe)
  BY DEF addDetectedPolicyViolations
<1> HIDE DEF unsafe
<1>3. /\ StateOK(addDetectedPolicyViolations(st))
      /\ ~policyFail(addDetectedPolicyViolations(st)) =>
            st.suppressions = {} /\ addDetectedPolicyViolations(st) = unsafe
  BY <1>1, <1>2, ViolationOK
<1>. QED BY <1>1, <1>3

-----------------------------------------------------------------------------
(* What a run knows at each phase, unless it has failed the policy already. *)

Aborted == {"error", "usage", "policy-error"}
decided(r) == r.phase = "ended" /\ r.outcome.result \notin Aborted
reached(r, phases) == r.phase \in phases \/ decided(r)

AnalysedPhases == {"report"}
ValidatedPhases == {"analyse"} \cup AnalysedPhases
CollectedPhases == {"trusted_inputs"} \cup ValidatedPhases
ComparedPhases == {"sources"} \cup CollectedPhases
BasedPhases == {"base"} \cup ComparedPhases
LoadedPhases == {"trust"} \cup BasedPhases

given(r) == {normalizedRelativePath(r.inv.sources[i]) : i \in DOMAIN r.inv.sources}
scope(r) == r.state.policy.scope_files

\* The verdict of a run, from what it knows in the end.
verdictOf(r) ==
    [exit |-> IF policyFail(r.state) \/ reviewRequired(r.state) THEN 4
              ELSE exitCode(r.semantics),
     result |-> finalResult(r)]

RunOK(r) ==
    /\ r = [f \in RunFields |-> r[f]]
    /\ StateOK(r.state)
    /\ r.phase \in {"idle", "policy", "ended"} \cup LoadedPhases
    /\ r.phase = "policy" => r = start(r.inv)
    /\ r.phase \in {"trust", "base"} => r.state.delta = noDelta
    /\ r.phase # "ended" => r.outcome = None
    /\ r.phase = "ended" =>
          \/ r.outcome.exit = 2 /\ r.outcome.result \in Aborted
          \/ r.outcome = verdictOf(r)

\* Facts about the run alone: they hold whatever becomes of the repository.
AsAsked(r) ==
    /\ r.inv.base_ref = "origin/main" /\ ~r.inv.base_policy
    /\ r.inv.policy_path = AuthoritativePolicy
    /\ isStrictGeneratedPolicy(r.state.policy)
    /\ readsAsPolicy(r.state.policy.sha256)
    /\ r.state.policy = loadPolicyText(r.state.policy.sha256)

Reconciled(r) ==
    /\ ~r.inv.weaker_profile
    /\ ~(r.inv.level = "cand1" /\ ~r.inv.verifier.supported)
    /\ ~(/\ r.inv.level = "cand1" /\ r.inv.pointer_output_contracts
         /\ r.state.policy.pointer_output_contracts # "true")

InScope(r) ==
    /\ given(r) = scope(r)
    /\ scope(r) \subseteq {f.path : f \in r.sources}
    /\ r.arguments = repeated(r.inv.arguments, Len(r.inv.sources))
    /\ withoutStandard(r.arguments) = r.state.policy.frontend_arguments
    /\ argumentErrors(r.arguments, "c11", r.inv) = {}

Trusting(r) ==
    /\ r.contract = r.inv.contract /\ r.review = r.inv.review
    /\ trustedClass(r.state.contract_inputs)
    /\ trustedClass(r.state.annotation_review_inputs)

Kept(r) ==
    LET st == r.state
    IN  ~policyFail(st) =>
          /\ r.phase \in {"trust", "base"} => ~st.review_required
          /\ r.phase \in {"trust", "base", "sources", "trusted_inputs"} =>
                st.contract_inputs = {} /\ st.annotation_review_inputs = {}
          /\ reached(r, LoadedPhases) => AsAsked(r)
          /\ reached(r, ComparedPhases) => Reconciled(r)
          /\ reached(r, CollectedPhases) => InScope(r)
          /\ reached(r, ValidatedPhases) => Trusting(r)
          /\ decided(r) => st.unsafe_boundaries = {} /\ st.suppressions = {}

\* Facts about the run and the repository as it is: they hold while nothing
\* has changed since the run began.
policyNow == loadPolicyText(workspace.policies[AuthoritativePolicy])
baseNow == origin.policies[AuthoritativePolicy]
deltaNow ==
    IF baseNow = Absent THEN initialPolicy
    ELSE comparePolicies(loadPolicyText(baseNow), policyNow)

AgreesWithBase(r) ==
    /\ baseNow = Absent \/ readsAsPolicy(baseNow)
    /\ r.state.delta = deltaNow
    /\ r.state.review_required = deltaNow.review_required

HoldsSources(r) ==
    /\ \A p \in scope(r) : readable(p)
    /\ r.phase # "ended" =>
          /\ r.sources = hashed(scope(r))
          /\ r.state.unsafe_boundaries = unsafeIn(scope(r))
          /\ r.state.suppressions = suppressedIn(scope(r))

inputNow(st, option) == IF option = NotGiven THEN {} ELSE {trustedInput(st, option)}

HoldsInputs(r) ==
    /\ r.contract # NotGiven => isTrusted(r.state, r.contract)
    /\ r.review # NotGiven => isTrusted(r.state, r.review)
    /\ r.state.contract_inputs = inputNow(r.state, r.contract)
    /\ r.state.annotation_review_inputs = inputNow(r.state, r.review)

HoldsAnalysis(r) ==
    /\ \A p \in dependencies(scope(r)) : readable(p)
    /\ r.analysed = hashed(dependencies(scope(r)))
    /\ r.semantics = Analysis(rules(r), r.analysed, r.arguments,
                              manifest(r.contract), manifest(r.review))
    /\ ~r.semantics.error

HoldsNoMarkers(r) ==
    /\ r.sources = hashed(dependencies(scope(r)))
    /\ \A p \in scope(r) \cup (dependencies(scope(r)) \ {PublicHeader}) :
          ~IsUnsafe(content(p)) /\ ~IsSuppressed(content(p))

UpToDate(r) ==
    ~policyFail(r.state) =>
       /\ reached(r, LoadedPhases) => r.state.policy = policyNow
       /\ reached(r, BasedPhases) => r.inv.trusted_base = origin.commit
       /\ reached(r, ComparedPhases) => AgreesWithBase(r)
       /\ reached(r, CollectedPhases) => HoldsSources(r)
       /\ reached(r, ValidatedPhases) => HoldsInputs(r)
       /\ reached(r, AnalysedPhases) => HoldsAnalysis(r)
       /\ decided(r) => HoldsNoMarkers(r)

RunInv == quiet => UpToDate(run)

-----------------------------------------------------------------------------
(* A run that failed the policy, or was cut short, has nothing to keep. *)

LEMMA FailedKeeps ==
    ASSUME NEW r, policyFail(r.state)
    PROVE  Kept(r) /\ UpToDate(r)
BY DEF Kept, UpToDate

LEMMA AbortedKeeps ==
    ASSUME NEW r, r.phase = "ended", r.outcome.result \in Aborted
    PROVE  Kept(r) /\ UpToDate(r)
BY DEF Kept, UpToDate, reached, decided, LoadedPhases, BasedPhases, ComparedPhases, CollectedPhases,
       ValidatedPhases, AnalysedPhases

LEMMA StartOK ==
    ASSUME NEW inv
    PROVE  /\ RunOK(start(inv)) /\ Kept(start(inv)) /\ UpToDate(start(inv))
           /\ RunOK(idle) /\ Kept(idle) /\ UpToDate(idle)
<1>1. start(inv).phase = "policy" /\ start(inv).state = newState
      /\ idle.phase = "idle" /\ idle.state = newState
  BY DEF start, idle
<1>2. ~decided(start(inv)) /\ ~decided(idle)
  BY <1>1 DEF decided
<1>3. RunOK(start(inv)) /\ RunOK(idle)
  BY NewStateOK DEF RunOK, start, idle, RunFields, LoadedPhases, BasedPhases, ComparedPhases
<1>. QED BY <1>1, <1>2, <1>3 DEF Kept, UpToDate, reached, LoadedPhases, BasedPhases, ComparedPhases,
            CollectedPhases, ValidatedPhases, AnalysedPhases

\* The rest of loadAgentPolicy: it ends the run without a policy, and otherwise
\* passes the run on, unchanged where nothing is wrong.
LEMMA AfterPolicyOK ==
    ASSUME NEW r, r = [f \in RunFields |-> r[f]], StateOK(r.state), r.outcome = None
    PROVE  LET after == afterPolicy(r)
           IN  /\ RunOK(after)
               /\ \/ after.phase = "sources"
                  \/ after.phase = "ended" /\ after.outcome.result \in Aborted
               /\ ~policyFail(after.state) =>
                     /\ after.state = r.state
                     /\ after.inv = r.inv
                     /\ Reconciled(after)
<1> DEFINE st == reconcile(r.state, r.inv)
           after == afterPolicy(r)
<1>1. /\ StateOK(st)
      /\ ~policyFail(st) =>
            /\ st = r.state
            /\ ~r.inv.weaker_profile
            /\ ~(r.inv.level = "cand1" /\ ~r.inv.verifier.supported)
            /\ ~(/\ r.inv.level = "cand1" /\ r.inv.pointer_output_contracts
                 /\ r.state.policy.pointer_output_contracts # "true")
  BY ReconcileOK
<1>2. after = IF st.policy.schema = ""
              THEN [r EXCEPT !.state = st, !.phase = "ended",
                             !.outcome = [exit |-> 2, result |-> "policy-error"]]
              ELSE [r EXCEPT !.state = st, !.phase = "sources"]
  BY DEF afterPolicy
<1> HIDE DEF st, after
<1>3. /\ after = [f \in RunFields |-> after[f]]
      /\ after.state = st /\ after.inv = r.inv
      /\ \/ after.phase = "sources" /\ after.outcome = None
         \/ after.phase = "ended" /\ after.outcome = [exit |-> 2, result |-> "policy-error"]
  BY <1>2 DEF RunFields
<1>4. RunOK(after)
  BY <1>1, <1>3 DEF RunOK, LoadedPhases, BasedPhases, ComparedPhases, Aborted
<1>5. \/ after.phase = "sources"
      \/ after.phase = "ended" /\ after.outcome.result \in Aborted
  BY <1>3 DEF Aborted
<1>6. ~policyFail(after.state) => after.state = r.state /\ after.inv = r.inv /\ Reconciled(after)
  BY <1>1, <1>3 DEF Reconciled
<1>. QED BY <1>4, <1>5, <1>6 DEF after

\* LoadPolicy: what it lets through is origin/main's own policy file, read whole.
LEMMA LoadPolicyOK ==
    ASSUME RunOK(run), LoadPolicy
    PROVE  RunOK(run') /\ Kept(run') /\ UpToDate(run')
<1> DEFINE inv == run.inv
           policy == loadPolicyText(workspace.policies[inv.policy_path])
           loaded == [run.state EXCEPT !.policy = policy]
           lax == ~isStrictGeneratedPolicy(policy)
           strict == rejectIf(lax, "not-strict", loaded)
           elsewhere == inv.policy_path # AuthoritativePolicy
           path == rejectIf(elsewhere, "policy-path", strict)
           foreign == inv.base_ref # "origin/main" \/ inv.base_policy
           checked == rejectIf(foreign, "base-authority", path)
<1>1. run = start(inv) /\ run = [f \in RunFields |-> run[f]] /\ run.outcome = None
  BY DEF RunOK, LoadPolicy
<1>2. run.state = newState
  BY <1>1 DEF start
<1>3. StateOK(loaded) /\ loaded.policy = policy /\ loaded.delta = noDelta
      /\ ~loaded.review_required /\ loaded.contract_inputs = {}
      /\ loaded.annotation_review_inputs = {}
  <2> HIDE DEF policy
  <2>1. StateOK(run.state) /\ run.state.delta = noDelta /\ ~run.state.review_required
        /\ run.state.contract_inputs = {} /\ run.state.annotation_review_inputs = {}
    BY <1>2, NewStateOK DEF newState
  <2>. QED BY <2>1 DEF StateOK, StateFields
<1>4. StateOK(strict) /\ strict.policy = policy /\ strict.delta = noDelta
      /\ (~policyFail(strict) => ~lax /\ strict = loaded)
  <2> HIDE DEF loaded, policy, lax
  <2>. QED BY <1>3, RejectIfOK
<1>5. StateOK(path) /\ path.policy = policy /\ path.delta = noDelta
      /\ (~policyFail(path) => ~elsewhere /\ path = strict)
  <2> HIDE DEF strict, policy, elsewhere
  <2>. QED BY <1>4, RejectIfOK
<1>6. StateOK(checked) /\ checked.policy = policy /\ checked.delta = noDelta
      /\ (~policyFail(checked) => ~foreign /\ checked = path)
  <2> HIDE DEF path, policy, foreign
  <2>. QED BY <1>5, RejectIfOK
<1>7. run' = IF policy.schema = ""
             THEN afterPolicy([run EXCEPT !.state = reject(@, "policy-unreadable")])
             ELSE IF foreign
             THEN afterPolicy([run EXCEPT !.state = checked])
             ELSE [run EXCEPT !.state = checked, !.phase = "trust"]
  BY DEF LoadPolicy
<1> HIDE DEF checked, path, strict, loaded, policy, foreign, elsewhere, lax, inv
<1>8. CASE policy.schema = ""
  <2> DEFINE r == [run EXCEPT !.state = reject(@, "policy-unreadable")]
  <2>1. StateOK(reject(run.state, "policy-unreadable"))
        /\ policyFail(reject(run.state, "policy-unreadable"))
    BY RejectOK DEF RunOK
  <2>2. r = [f \in RunFields |-> r[f]] /\ StateOK(r.state) /\ r.outcome = None
        /\ policyFail(r.state)
    BY <1>1, <2>1 DEF RunFields
  <2> HIDE DEF r
  <2>. QED BY <1>7, <1>8, <2>2, AfterPolicyOK, FailedKeeps DEF r
<1>9. CASE policy.schema # "" /\ foreign
  <2> DEFINE r == [run EXCEPT !.state = checked]
  <2>1. policyFail(checked)
    BY <1>6, <1>9
  <2>2. r = [f \in RunFields |-> r[f]] /\ StateOK(r.state) /\ r.outcome = None
        /\ policyFail(r.state)
    BY <1>1, <1>6, <2>1 DEF RunFields
  <2>3. run' = afterPolicy(r)
    BY <1>7, <1>9
  <2> HIDE DEF r
  <2>. QED BY <2>2, <2>3, AfterPolicyOK, FailedKeeps
<1>10. CASE policy.schema # "" /\ ~foreign
  <2>1. run' = [run EXCEPT !.state = checked, !.phase = "trust"]
    BY <1>7, <1>10
  <2>2. run' = [f \in RunFields |-> run'[f]] /\ run'.state = checked /\ run'.phase = "trust"
        /\ run'.inv = inv /\ run'.outcome = None
    BY <1>1, <2>1 DEF RunFields, inv
  <2>3. RunOK(run')
    BY <2>2, <1>6 DEF RunOK, LoadedPhases, BasedPhases
  <2>4. ASSUME ~policyFail(run'.state)
        PROVE  AsAsked(run') /\ run'.state.policy = policyNow
               /\ run'.state = loaded
    <3>1. checked = loaded /\ ~foreign /\ inv.policy_path = AuthoritativePolicy
          /\ isStrictGeneratedPolicy(policy)
      BY <1>4, <1>5, <1>6, <2>2, <2>4 DEF elsewhere, lax
    <3>2. policy = policyNow
      BY <3>1 DEF policy, policyNow
    <3>3. readsAsPolicy(policy.sha256) /\ policy = loadPolicyText(policy.sha256)
      BY <1>10 DEF policy, loadPolicyText, unread
    <3>. QED BY <1>3, <2>2, <3>1, <3>2, <3>3 DEF AsAsked, foreign
  <2>5. ~reached(run', ComparedPhases)
    BY <2>2 DEF reached, decided, ComparedPhases, CollectedPhases, ValidatedPhases,
                AnalysedPhases
  <2>6. ~reached(run', BasedPhases) /\ ~reached(run', CollectedPhases) /\ ~reached(run', ValidatedPhases)
        /\ ~reached(run', AnalysedPhases) /\ ~decided(run')
    BY <2>2, <2>5 DEF reached, decided, BasedPhases, ComparedPhases, CollectedPhases,
                      ValidatedPhases
  <2>7. Kept(run')
    BY <1>3, <2>2, <2>4, <2>5, <2>6 DEF Kept
  <2>8. UpToDate(run')
    BY <2>4, <2>5, <2>6 DEF UpToDate
  <2>. QED BY <2>3, <2>7, <2>8
<1>. QED BY <1>8, <1>9, <1>10

\* What the phases say of a run at one of them.
LEMMA Reaching ==
    ASSUME NEW r
    PROVE  /\ r.phase = "trust" =>
                /\ reached(r, LoadedPhases) /\ ~reached(r, BasedPhases)
                /\ ~reached(r, ComparedPhases) /\ ~reached(r, CollectedPhases)
                /\ ~reached(r, ValidatedPhases) /\ ~reached(r, AnalysedPhases) /\ ~decided(r)
           /\ r.phase = "base" =>
                /\ reached(r, LoadedPhases) /\ reached(r, BasedPhases)
                /\ ~reached(r, ComparedPhases) /\ ~reached(r, CollectedPhases)
                /\ ~reached(r, ValidatedPhases) /\ ~reached(r, AnalysedPhases) /\ ~decided(r)
           /\ r.phase = "sources" =>
                /\ reached(r, LoadedPhases) /\ reached(r, BasedPhases)
                /\ reached(r, ComparedPhases) /\ ~reached(r, CollectedPhases)
                /\ ~reached(r, ValidatedPhases) /\ ~reached(r, AnalysedPhases) /\ ~decided(r)
           /\ r.phase = "trusted_inputs" =>
                /\ reached(r, LoadedPhases) /\ reached(r, BasedPhases)
                /\ reached(r, ComparedPhases) /\ reached(r, CollectedPhases)
                /\ ~reached(r, ValidatedPhases) /\ ~reached(r, AnalysedPhases) /\ ~decided(r)
           /\ r.phase = "analyse" =>
                /\ reached(r, LoadedPhases) /\ reached(r, BasedPhases)
                /\ reached(r, ComparedPhases) /\ reached(r, CollectedPhases)
                /\ reached(r, ValidatedPhases) /\ ~reached(r, AnalysedPhases) /\ ~decided(r)
           /\ r.phase = "report" \/ decided(r) =>
                /\ reached(r, LoadedPhases) /\ reached(r, BasedPhases)
                /\ reached(r, ComparedPhases) /\ reached(r, CollectedPhases)
                /\ reached(r, ValidatedPhases) /\ reached(r, AnalysedPhases)
           /\ r.phase = "report" => ~decided(r)
BY DEF reached, decided, LoadedPhases, BasedPhases, ComparedPhases, CollectedPhases,
       ValidatedPhases, AnalysedPhases

\* CompareTrustedBase: the CI's base is the commit origin/main is at.
LEMMA CompareTrustedBaseOK ==
    ASSUME RunOK(run), Kept(run), CompareTrustedBase
    PROVE  RunOK(run') /\ Kept(run') /\ (UpToDate(run) => UpToDate(run'))
<1>1. run = [f \in RunFields |-> run[f]] /\ run.outcome = None /\ StateOK(run.state)
      /\ run.phase = "trust" /\ run.state.delta = noDelta
  BY DEF RunOK, CompareTrustedBase
<1>2. CASE run.inv.trusted_base # origin.commit
  <2> DEFINE r == [run EXCEPT !.state = reject(@, "trusted-base")]
  <2>1. StateOK(reject(run.state, "trusted-base"))
        /\ policyFail(reject(run.state, "trusted-base"))
    BY <1>1, RejectOK
  <2>2. r = [f \in RunFields |-> r[f]] /\ StateOK(r.state) /\ r.outcome = None
        /\ policyFail(r.state)
    BY <1>1, <2>1 DEF RunFields
  <2>3. run' = afterPolicy(r)
    BY <1>2 DEF CompareTrustedBase
  <2> HIDE DEF r
  <2>. QED BY <2>2, <2>3, AfterPolicyOK, FailedKeeps
<1>3. CASE run.inv.trusted_base = origin.commit
  <2> DEFINE moved == run.inv.base_ref # run.state.policy.base_ref
             st == rejectIf(moved, "base-ref", run.state)
  <2>1. run' = [run EXCEPT !.phase = "base", !.state = st]
    BY <1>3 DEF CompareTrustedBase
  <2>2. StateOK(st) /\ (~policyFail(st) => st = run.state) /\ st.delta = noDelta
    <3> HIDE DEF moved
    <3>. QED BY <1>1, RejectIfOK
  <2> HIDE DEF st
  <2>3. run' = [f \in RunFields |-> run'[f]] /\ run'.state = st /\ run'.phase = "base"
        /\ run'.inv = run.inv /\ run'.outcome = None
    BY <1>1, <2>1 DEF RunFields
  <2>4. RunOK(run')
    BY <2>2, <2>3 DEF RunOK, LoadedPhases, BasedPhases
  <2>5. SUFFICES ASSUME ~policyFail(run'.state)
                 PROVE  Kept(run') /\ (UpToDate(run) => UpToDate(run'))
    BY <2>4, FailedKeeps
  <2>6. run'.state = run.state /\ ~policyFail(run.state)
    BY <2>2, <2>3, <2>5
  <2>7. AsAsked(run)
    BY <1>1, <2>6, Reaching DEF Kept
  <2>8. AsAsked(run')
    BY <2>3, <2>6, <2>7 DEF AsAsked
  <2>9. Kept(run')
    BY <1>1, <2>3, <2>6, <2>8, Reaching DEF Kept
  <2>10. ASSUME UpToDate(run) PROVE UpToDate(run')
    BY <1>1, <1>3, <2>3, <2>6, <2>10, Reaching DEF UpToDate
  <2>. QED BY <2>9, <2>10
<1>. QED BY <1>2, <1>3

\* A delta has the fields of one, and the comparison decides them.
DeltaOK(delta) ==
    /\ delta = [f \in DeltaFields |-> delta[f]]
    /\ delta.weakened \in BOOLEAN /\ delta.review_required \in BOOLEAN

LEMMA ComparisonOK ==
    ASSUME NEW before, NEW after
    PROVE  DeltaOK(comparePolicies(before, after)) /\ DeltaOK(initialPolicy)
BY DEF comparePolicies, initialPolicy, DeltaOK, DeltaFields

LEMMA NewDeltaOK ==
    ASSUME NEW st, StateOK(st), NEW delta, DeltaOK(delta)
    PROVE  LET set == [st EXCEPT !.delta = delta]
           IN  /\ StateOK(set) /\ set.delta = delta
               /\ set.policy = st.policy /\ set.review_required = st.review_required
               /\ set.contract_inputs = st.contract_inputs
               /\ set.annotation_review_inputs = st.annotation_review_inputs
BY DEF DeltaOK, StateOK, StateFields

\* The last two assignments of loadAgentPolicy.
LEMMA DeltaCounts ==
    ASSUME NEW st, StateOK(st)
    PROVE  LET counted == [st EXCEPT !.policy_failed = @ \/ st.delta.weakened,
                                     !.review_required = @ \/ st.delta.review_required]
           IN  /\ StateOK(counted) /\ counted.delta = st.delta
               /\ ~policyFail(counted) => ~policyFail(st)
               /\ counted.policy = st.policy
               /\ counted.contract_inputs = st.contract_inputs
               /\ counted.annotation_review_inputs = st.annotation_review_inputs
               /\ ~st.review_required => counted.review_required = st.delta.review_required
<1> DEFINE counted == [st EXCEPT !.policy_failed = @ \/ st.delta.weakened,
                                 !.review_required = @ \/ st.delta.review_required]
<1>1. /\ counted.policy_failed = (st.policy_failed \/ st.delta.weakened)
      /\ counted.review_required = (st.review_required \/ st.delta.review_required)
      /\ \A f \in StateFields \ {"policy_failed", "review_required"} : counted[f] = st[f]
      /\ counted = [f \in StateFields |-> counted[f]]
  BY DEF StateOK, StateFields
<1> HIDE DEF counted
<1>2. /\ counted.policy = st.policy /\ counted.delta = st.delta
      /\ counted.policy_errors = st.policy_errors
      /\ counted.toolchain_supported = st.toolchain_supported
      /\ counted.contract_inputs = st.contract_inputs
      /\ counted.annotation_review_inputs = st.annotation_review_inputs
  BY <1>1 DEF StateFields
<1>3. ~st.review_required => counted.review_required = st.delta.review_required
  BY <1>1 DEF StateOK
<1>4. StateOK(counted)
  BY <1>1, <1>2 DEF StateOK
<1>5. ~policyFail(counted) => ~policyFail(st)
  BY <1>1, <1>2 DEF policyFail
<1>. QED BY <1>2, <1>3, <1>4, <1>5 DEF counted

\* CompareWithBase: the policy is measured against origin/main's.
LEMMA CompareWithBaseOK ==
    ASSUME RunOK(run), Kept(run), CompareWithBase
    PROVE  RunOK(run') /\ Kept(run') /\ (UpToDate(run) => UpToDate(run'))
<1> DEFINE baseText == origin.policies[run.inv.policy_path]
           before == loadPolicyText(baseText)
           delta == IF baseText = Absent THEN initialPolicy
                    ELSE comparePolicies(before, run.state.policy)
           unread_base == baseText # Absent /\ before.schema = ""
           compared == IF unread_base THEN reject(run.state, "base-policy-unreadable")
                       ELSE [run.state EXCEPT !.delta = delta]
           counted == [compared EXCEPT !.policy_failed = @ \/ compared.delta.weakened,
                                       !.review_required = @ \/ compared.delta.review_required]
           r == [run EXCEPT !.state = counted]
<1>1. run = [f \in RunFields |-> run[f]] /\ run.outcome = None /\ StateOK(run.state)
      /\ run.phase = "base" /\ run.state.delta = noDelta
  BY DEF RunOK, CompareWithBase
<1>2. run' = afterPolicy(r)
  BY DEF CompareWithBase
<1>3. DeltaOK(delta)
  BY ComparisonOK
<1>4. StateOK(compared) /\ (~policyFail(compared) => ~unread_base)
  <2> HIDE DEF delta, unread_base
  <2>. QED BY <1>1, <1>3, NewDeltaOK, RejectOK
<1>5. ~unread_base => /\ compared.delta = delta
                      /\ compared.policy = run.state.policy
                      /\ compared.review_required = run.state.review_required
                      /\ compared.contract_inputs = run.state.contract_inputs
                      /\ compared.annotation_review_inputs = run.state.annotation_review_inputs
                      /\ compared.policy_failed = run.state.policy_failed
  <2> HIDE DEF delta, unread_base
  <2>. QED BY <1>1 DEF StateOK, StateFields
<1>6. unread_base \/ baseText = Absent \/ readsAsPolicy(baseText)
  BY DEF loadPolicyText, unread
<1> HIDE DEF compared
<1>7. /\ StateOK(counted) /\ counted.delta = compared.delta
      /\ ~policyFail(counted) => ~policyFail(compared)
      /\ counted.policy = compared.policy
      /\ counted.contract_inputs = compared.contract_inputs
      /\ counted.annotation_review_inputs = compared.annotation_review_inputs
      /\ ~compared.review_required => counted.review_required = compared.delta.review_required
  BY <1>4, DeltaCounts
<1> HIDE DEF counted
<1>8. r = [f \in RunFields |-> r[f]] /\ StateOK(r.state) /\ r.outcome = None
      /\ r.state = counted /\ r.inv = run.inv
  BY <1>1, <1>7 DEF RunFields
<1> HIDE DEF r
<1>9. RunOK(run')
  BY <1>2, <1>8, AfterPolicyOK
<1>10. SUFFICES ASSUME ~policyFail(run'.state), run'.phase = "sources"
                PROVE  Kept(run') /\ (UpToDate(run) => UpToDate(run'))
  BY <1>2, <1>8, <1>9, AfterPolicyOK, FailedKeeps, AbortedKeeps
<1>11. run'.state = counted /\ run'.inv = run.inv /\ Reconciled(run')
  BY <1>2, <1>8, <1>10, AfterPolicyOK
<1>12. ~unread_base /\ ~policyFail(compared)
  BY <1>4, <1>7, <1>10, <1>11
<1>13. ~policyFail(run.state)
  <2>1. ~compared.policy_failed
    BY <1>12 DEF policyFail
  <2>2. ~run.state.policy_failed
    BY <2>1, <1>5, <1>12
  <2>3. ~run.state.delta.weakened
    BY <1>1 DEF noDelta
  <2>. QED BY <2>2, <2>3 DEF policyFail
<1>14. AsAsked(run) /\ ~run.state.review_required
       /\ run.state.contract_inputs = {} /\ run.state.annotation_review_inputs = {}
  BY <1>1, <1>13, Reaching DEF Kept
<1>15. AsAsked(run')
  BY <1>5, <1>7, <1>11, <1>12, <1>14 DEF AsAsked
<1>16. Kept(run')
  BY <1>5, <1>7, <1>10, <1>11, <1>12, <1>14, <1>15, Reaching DEF Kept
<1>17. ASSUME UpToDate(run) PROVE UpToDate(run')
  <2>1. run.state.policy = policyNow /\ run.inv.trusted_base = origin.commit
    BY <1>1, <1>13, <1>17, Reaching DEF UpToDate
  <2>2. baseText = baseNow
    BY <1>14 DEF AsAsked, baseNow
  <2>3. run'.state.delta = delta /\ run'.state.review_required = delta.review_required
    BY <1>5, <1>7, <1>11, <1>12, <1>14
  <2>4. delta = deltaNow
    BY <2>1, <2>2 DEF deltaNow
  <2>5. AgreesWithBase(run')
    BY <1>6, <1>12, <2>2, <2>3, <2>4 DEF AgreesWithBase
  <2>6. run'.state.policy = run.state.policy
    BY <1>5, <1>7, <1>11, <1>12
  <2>. QED BY <1>10, <1>11, <2>1, <2>5, <2>6, Reaching DEF UpToDate
<1>. QED BY <1>16, <1>17

LEMMA HashedPaths ==
    ASSUME NEW paths
    PROVE  {f.path : f \in hashed(paths)} = paths
<1>1. ASSUME NEW p \in paths PROVE p \in {f.path : f \in hashed(paths)}
  <2> DEFINE file == [path |-> p, sha256 |-> content(p)]
  <2>1. file \in hashed(paths) /\ file.path = p
    BY DEF hashed
  <2>. QED BY <2>1
<1>2. ASSUME NEW f \in hashed(paths) PROVE f.path \in paths
  BY DEF hashed
<1>. QED BY <1>1, <1>2

\* CollectSources: the sources are the policy's whole scope, and the arguments
\* the policy's.
LEMMA CollectSourcesOK ==
    ASSUME RunOK(run), Kept(run), CollectSources
    PROVE  RunOK(run') /\ Kept(run') /\ (UpToDate(run) => UpToDate(run'))
<1> DEFINE inv == run.inv
           norm == [i \in DOMAIN inv.sources |-> normalizedRelativePath(inv.sources[i])]
           read == {i \in DOMAIN norm : readable(norm[i])}
           inputs == {norm[i] : i \in read}
           inside == {i \in DOMAIN norm : norm[i] # <<>>}
           duplicate == \E i, j \in read : i # j /\ norm[i] = norm[j]
           outOfScope == duplicate \/ inputs # run.state.policy.scope_files
           arguments == repeated(inv.arguments, Len(inv.sources))
           counted == [run.state EXCEPT !.unsafe_boundaries = unsafeIn(inputs),
                                        !.suppressions = suppressedIn(inputs)]
           argument_errors == argumentErrors(arguments, run.state.policy.frontend_standard, inv)
           differ == withoutStandard(arguments) # run.state.policy.frontend_arguments
           errors ==
               (IF inside # DOMAIN norm THEN {"source-outside"} ELSE {})
               \cup (IF read # inside THEN {"source-unreadable"} ELSE {})
               \cup (IF duplicate THEN {"source-duplicate"} ELSE {})
               \cup (IF outOfScope THEN {"scope-differs"} ELSE {})
               \cup argument_errors
               \cup (IF differ THEN {"arguments-differ"} ELSE {})
           checked == rejectAll(errors, counted)
           st == IF outOfScope THEN weaken("invocation-scope-change", checked) ELSE checked
<1>1. run = [f \in RunFields |-> run[f]] /\ run.outcome = None /\ StateOK(run.state)
      /\ run.phase = "sources"
  BY DEF RunOK, CollectSources
<1>2. run' = [run EXCEPT !.phase = "trusted_inputs", !.sources = hashed(inputs),
                         !.arguments = arguments, !.state = st]
  BY DEF CollectSources
<1>3. /\ StateOK(counted)
      /\ counted.unsafe_boundaries = unsafeIn(inputs)
      /\ counted.suppressions = suppressedIn(inputs)
      /\ counted.policy = run.state.policy /\ counted.delta = run.state.delta
      /\ counted.policy_failed = run.state.policy_failed
      /\ counted.review_required = run.state.review_required
      /\ counted.contract_inputs = run.state.contract_inputs
      /\ counted.annotation_review_inputs = run.state.annotation_review_inputs
  <2> HIDE DEF inputs
  <2>. QED BY <1>1 DEF StateOK, StateFields
<1>4. /\ StateOK(checked)
      /\ ~policyFail(checked) => errors = {} /\ checked = counted
  <2> HIDE DEF counted, errors
  <2>. QED BY <1>3, RejectAllOK
<1>5. /\ StateOK(st)
      /\ ~policyFail(st) => ~outOfScope /\ st = checked
  <2> HIDE DEF checked, outOfScope
  <2>. QED BY <1>4, WeakenOK
<1>6. errors = {} => /\ inside = DOMAIN norm /\ read = inside
                     /\ argument_errors = {} /\ ~differ
  <2> HIDE DEF inside, norm, read, duplicate, outOfScope, argument_errors, differ
  <2>. QED OBVIOUS
<1> HIDE DEF st, arguments, counted, checked, errors
<1>7. run' = [f \in RunFields |-> run'[f]] /\ run'.state = st /\ run'.inv = inv
      /\ run'.phase = "trusted_inputs" /\ run'.outcome = None
      /\ run'.sources = hashed(inputs) /\ run'.arguments = arguments
  BY <1>1, <1>2 DEF RunFields
<1>8. RunOK(run')
  BY <1>5, <1>7 DEF RunOK, LoadedPhases, BasedPhases, ComparedPhases, CollectedPhases
<1>9. SUFFICES ASSUME ~policyFail(run'.state)
               PROVE  Kept(run') /\ (UpToDate(run) => UpToDate(run'))
  BY <1>8, FailedKeeps
<1>10. st = counted /\ ~outOfScope /\ errors = {}
  BY <1>4, <1>5, <1>7, <1>9
<1>11. inside = DOMAIN norm /\ read = inside /\ argument_errors = {} /\ ~differ
       /\ inputs = run.state.policy.scope_files
  BY <1>6, <1>10
<1>12. ~policyFail(run.state)
  BY <1>3, <1>7, <1>9, <1>10 DEF policyFail
<1>13. /\ AsAsked(run) /\ Reconciled(run)
       /\ run.state.contract_inputs = {} /\ run.state.annotation_review_inputs = {}
  BY <1>1, <1>12, Reaching DEF Kept
<1>14. AsAsked(run') /\ Reconciled(run')
  BY <1>3, <1>7, <1>10, <1>13 DEF AsAsked, Reconciled
<1>15. /\ given(run') = inputs /\ scope(run') = inputs
       /\ \A p \in inputs : readable(p)
  <2>1. given(run') = {norm[i] : i \in DOMAIN norm}
    BY <1>7 DEF given
  <2>2. inputs = {norm[i] : i \in DOMAIN norm}
    BY <1>11
  <2>3. scope(run') = inputs
    BY <1>3, <1>7, <1>10, <1>11 DEF scope
  <2>. QED BY <2>1, <2>2, <2>3
<1>16. InScope(run')
  <2>1. scope(run') \subseteq {f.path : f \in run'.sources}
    BY <1>7, <1>15, HashedPaths
  <2>2. run'.arguments = repeated(run'.inv.arguments, Len(run'.inv.sources))
    BY <1>7 DEF arguments
  <2>3. withoutStandard(run'.arguments) = run'.state.policy.frontend_arguments
    BY <1>3, <1>7, <1>10, <1>11
  <2>4. run.state.policy.frontend_standard = "c11"
    BY <1>13 DEF AsAsked, isStrictGeneratedPolicy
  <2>5. argumentErrors(run'.arguments, "c11", run'.inv) = {}
    BY <1>7, <1>11, <2>4
  <2>. QED BY <1>15, <2>1, <2>2, <2>3, <2>5 DEF InScope
<1>17. Kept(run')
  BY <1>3, <1>7, <1>10, <1>13, <1>14, <1>16, Reaching DEF Kept
<1>18. ASSUME UpToDate(run) PROVE UpToDate(run')
  <2>1. run.state.policy = policyNow /\ AgreesWithBase(run)
        /\ run.inv.trusted_base = origin.commit
    BY <1>1, <1>12, <1>18, Reaching DEF UpToDate
  <2>2. AgreesWithBase(run') /\ run'.state.policy = policyNow
    BY <1>3, <1>7, <1>10, <2>1 DEF AgreesWithBase
  <2>3. HoldsSources(run')
    <3> HIDE DEF inputs
    <3>. QED BY <1>3, <1>7, <1>10, <1>15 DEF HoldsSources
  <2>. QED BY <1>7, <2>1, <2>2, <2>3, Reaching DEF UpToDate
<1>. QED BY <1>17, <1>18

\* The scope of a policy that was read is a set of normalized paths.
LEMMA ScopeIsNormalized ==
    ASSUME NEW policy, readsAsPolicy(policy.sha256), policy = loadPolicyText(policy.sha256)
    PROVE  \A p \in policy.scope_files : isNormalized(p)
<1>1. policy.scope_files = elements(Json(policy.sha256).scope_files)
  BY DEF loadPolicyText
<1>. QED BY <1>1 DEF elements, readsAsPolicy

\* A policy that was read trusts nothing under a class it does not know.
LEMMA PinsHaveAClass ==
    ASSUME NEW policy, readsAsPolicy(policy.sha256), policy = loadPolicyText(policy.sha256),
           NEW path, NEW digest
    PROVE  pinnedAs(policy, path, digest) \subseteq {"builtin", "verified", "reviewed"}
<1> DEFINE json == Json(policy.sha256)
           pins == json.trusted_contracts
<1>1. policy.trusted_contracts = elements(pins)
  BY DEF loadPolicyText
<1>2. \A p \in policy.trusted_contracts : p.trust_class \in TrustClasses
  BY <1>1 DEF elements, readsAsPolicy
<1>. QED BY <1>2 DEF pinnedAs, TrustClasses

LEMMA TrustedInputClass ==
    ASSUME NEW st, readsAsPolicy(st.policy.sha256), st.policy = loadPolicyText(st.policy.sha256),
           NEW option, option # NotGiven => isTrusted(st, option)
    PROVE  trustedClass(inputNow(st, option))
<1> DEFINE path == normalizedRelativePath(option)
           classes == pinnedAs(st.policy, path, content(path))
<1>1. CASE option = NotGiven
  BY <1>1 DEF trustedClass, inputNow
<1>2. CASE option # NotGiven
  <2>1. classes # {}
    BY <1>2 DEF isTrusted, contractIsPinned
  <2>2. (CHOOSE t \in classes : TRUE) \in {"builtin", "verified", "reviewed"}
    <3>1. classes \subseteq {"builtin", "verified", "reviewed"}
      BY PinsHaveAClass
    <3> HIDE DEF classes
    <3>. QED BY <2>1, <3>1
  <2>3. inputNow(st, option) = {trustedInput(st, option)}
    BY <1>2 DEF inputNow
  <2>4. trustedInput(st, option).trust_class = CHOOSE t \in classes : TRUE
    BY DEF trustedInput
  <2>. QED BY <2>2, <2>3, <2>4 DEF trustedClass
<1>. QED BY <1>1, <1>2

\* The trusted inputs of a state depend on its policy alone.
LEMMA SamePolicySameTrust ==
    ASSUME NEW st, NEW other, other.policy = st.policy, NEW option
    PROVE  /\ isTrusted(other, option) = isTrusted(st, option)
           /\ inputNow(other, option) = inputNow(st, option)
BY DEF isTrusted, inputNow, trustedInput

LEMMA ValidateContractOK ==
    ASSUME NEW st, StateOK(st), NEW option
    PROVE  LET after == validateAgentContract(st, option)
           IN  /\ StateOK(after)
               /\ ~policyFail(after) =>
                     /\ ~policyFail(st)
                     /\ option # NotGiven => isTrusted(st, option)
                     /\ after.contract_inputs = st.contract_inputs \cup inputNow(st, option)
                     /\ after.annotation_review_inputs = st.annotation_review_inputs
                     /\ after.policy = st.policy /\ after.delta = st.delta
                     /\ after.review_required = st.review_required
                     /\ after.unsafe_boundaries = st.unsafe_boundaries
                     /\ after.suppressions = st.suppressions
<1> DEFINE after == validateAgentContract(st, option)
           added == [st EXCEPT !.contract_inputs = @ \cup {trustedInput(st, option)}]
<1>1. CASE option = NotGiven
  BY <1>1 DEF validateAgentContract, inputNow
<1>2. CASE option # NotGiven /\ ~isTrusted(st, option)
  BY <1>2, SubstitutedOK DEF validateAgentContract
<1>3. CASE option # NotGiven /\ isTrusted(st, option)
  <2>1. after = added
    BY <1>3 DEF validateAgentContract
  <2>2. inputNow(st, option) = {trustedInput(st, option)}
    BY <1>3 DEF inputNow
  <2> HIDE DEF after
  <2>3. StateOK(after) /\ after.policy_failed = st.policy_failed
        /\ after.contract_inputs = st.contract_inputs \cup inputNow(st, option)
        /\ after.annotation_review_inputs = st.annotation_review_inputs
        /\ after.policy = st.policy /\ after.delta = st.delta
        /\ after.review_required = st.review_required
        /\ after.unsafe_boundaries = st.unsafe_boundaries
        /\ after.suppressions = st.suppressions
    BY <2>1, <2>2 DEF StateOK, StateFields
  <2>4. policyFail(st) => policyFail(after)
    BY <2>3 DEF policyFail
  <2>. QED BY <1>3, <2>3, <2>4 DEF after
<1>. QED BY <1>1, <1>2, <1>3

LEMMA ValidateReviewOK ==
    ASSUME NEW st, StateOK(st), NEW option
    PROVE  LET after == validateAnnotationReview(st, option)
           IN  /\ StateOK(after)
               /\ ~policyFail(after) =>
                     /\ ~policyFail(st)
                     /\ option # NotGiven => isTrusted(st, option)
                     /\ after.annotation_review_inputs =
                           st.annotation_review_inputs \cup inputNow(st, option)
                     /\ after.contract_inputs = st.contract_inputs
                     /\ after.policy = st.policy /\ after.delta = st.delta
                     /\ after.review_required = st.review_required
                     /\ after.unsafe_boundaries = st.unsafe_boundaries
                     /\ after.suppressions = st.suppressions
<1> DEFINE after == validateAnnotationReview(st, option)
           added == [st EXCEPT !.annotation_review_inputs = @ \cup {trustedInput(st, option)}]
<1>1. CASE option = NotGiven
  BY <1>1 DEF validateAnnotationReview, inputNow
<1>2. CASE option # NotGiven /\ ~isTrusted(st, option)
  BY <1>2, SubstitutedOK DEF validateAnnotationReview
<1>3. CASE option # NotGiven /\ isTrusted(st, option)
  <2>1. after = added
    BY <1>3 DEF validateAnnotationReview
  <2>2. inputNow(st, option) = {trustedInput(st, option)}
    BY <1>3 DEF inputNow
  <2> HIDE DEF after
  <2>3. StateOK(after) /\ after.policy_failed = st.policy_failed
        /\ after.annotation_review_inputs =
              st.annotation_review_inputs \cup inputNow(st, option)
        /\ after.contract_inputs = st.contract_inputs
        /\ after.policy = st.policy /\ after.delta = st.delta
        /\ after.review_required = st.review_required
        /\ after.unsafe_boundaries = st.unsafe_boundaries
        /\ after.suppressions = st.suppressions
    BY <2>1, <2>2 DEF StateOK, StateFields
  <2>4. policyFail(st) => policyFail(after)
    BY <2>3 DEF policyFail
  <2>. QED BY <1>3, <2>3, <2>4 DEF after
<1>. QED BY <1>1, <1>2, <1>3

\* ValidateTrustedInputs: a manifest counts only if the policy pins its content.
LEMMA ValidateTrustedInputsOK ==
    ASSUME RunOK(run), Kept(run), ValidateTrustedInputs
    PROVE  RunOK(run') /\ Kept(run') /\ (UpToDate(run) => UpToDate(run'))
<1> DEFINE inv == run.inv
           kept(option) == IF option # NotGiven /\ isTrusted(run.state, option)
                           THEN option ELSE NotGiven
           first == validateAgentContract(run.state, inv.contract)
           st == validateAnnotationReview(first, inv.review)
<1>1. run = [f \in RunFields |-> run[f]] /\ run.outcome = None /\ StateOK(run.state)
      /\ run.phase = "trusted_inputs"
  BY DEF RunOK, ValidateTrustedInputs
<1>2. run' = [run EXCEPT !.phase = "analyse", !.state = st,
                         !.contract = kept(inv.contract), !.review = kept(inv.review)]
  BY DEF ValidateTrustedInputs
<1>3. /\ StateOK(first)
      /\ ~policyFail(first) =>
            /\ ~policyFail(run.state)
            /\ inv.contract # NotGiven => isTrusted(run.state, inv.contract)
            /\ first.contract_inputs =
                  run.state.contract_inputs \cup inputNow(run.state, inv.contract)
            /\ first.annotation_review_inputs = run.state.annotation_review_inputs
            /\ first.policy = run.state.policy /\ first.delta = run.state.delta
            /\ first.review_required = run.state.review_required
            /\ first.unsafe_boundaries = run.state.unsafe_boundaries
            /\ first.suppressions = run.state.suppressions
  BY <1>1, ValidateContractOK
<1> HIDE DEF first
<1>4. /\ StateOK(st)
      /\ ~policyFail(st) =>
            /\ ~policyFail(first)
            /\ inv.review # NotGiven => isTrusted(first, inv.review)
            /\ st.annotation_review_inputs =
                  first.annotation_review_inputs \cup inputNow(first, inv.review)
            /\ st.contract_inputs = first.contract_inputs
            /\ st.policy = first.policy /\ st.delta = first.delta
            /\ st.review_required = first.review_required
            /\ st.unsafe_boundaries = first.unsafe_boundaries
            /\ st.suppressions = first.suppressions
  BY <1>3, ValidateReviewOK
<1> HIDE DEF st
<1>5. run' = [f \in RunFields |-> run'[f]] /\ run'.state = st /\ run'.inv = inv
      /\ run'.phase = "analyse" /\ run'.outcome = None
      /\ run'.sources = run.sources /\ run'.arguments = run.arguments
      /\ run'.contract = kept(inv.contract) /\ run'.review = kept(inv.review)
  BY <1>1, <1>2 DEF RunFields
<1>6. RunOK(run')
  BY <1>4, <1>5 DEF RunOK, LoadedPhases, BasedPhases, ComparedPhases, CollectedPhases,
                    ValidatedPhases
<1>7. SUFFICES ASSUME ~policyFail(run'.state)
               PROVE  Kept(run') /\ (UpToDate(run) => UpToDate(run'))
  BY <1>6, FailedKeeps
<1>8. ~policyFail(st) /\ ~policyFail(first) /\ ~policyFail(run.state)
  BY <1>3, <1>4, <1>5, <1>7
<1>9. /\ AsAsked(run) /\ Reconciled(run) /\ InScope(run)
      /\ run.state.contract_inputs = {} /\ run.state.annotation_review_inputs = {}
  BY <1>1, <1>8, Reaching DEF Kept
<1>10. /\ st.policy = run.state.policy /\ st.delta = run.state.delta
       /\ st.review_required = run.state.review_required
       /\ st.unsafe_boundaries = run.state.unsafe_boundaries
       /\ st.suppressions = run.state.suppressions
       /\ first.policy = st.policy
  BY <1>3, <1>4, <1>8
<1>11. /\ inv.contract # NotGiven => isTrusted(st, inv.contract)
       /\ inv.review # NotGiven => isTrusted(st, inv.review)
       /\ st.contract_inputs = inputNow(st, inv.contract)
       /\ st.annotation_review_inputs = inputNow(st, inv.review)
  BY <1>3, <1>4, <1>8, <1>9, <1>10, SamePolicySameTrust
<1>12. run'.contract = inv.contract /\ run'.review = inv.review
  BY <1>5, <1>10, <1>11, SamePolicySameTrust
<1>13. AsAsked(run') /\ Reconciled(run')
  BY <1>5, <1>9, <1>10 DEF AsAsked, Reconciled
<1>14. InScope(run')
  <2>1. given(run') = given(run) /\ scope(run') = scope(run)
    BY <1>5, <1>10 DEF given, scope
  <2>. QED BY <1>5, <1>9, <1>10, <2>1 DEF InScope
<1>15. Trusting(run')
  <2>1. readsAsPolicy(st.policy.sha256) /\ st.policy = loadPolicyText(st.policy.sha256)
    BY <1>5, <1>13 DEF AsAsked
  <2>2. trustedClass(inputNow(st, inv.contract)) /\ trustedClass(inputNow(st, inv.review))
    BY <1>11, <2>1, TrustedInputClass
  <2>. QED BY <1>5, <1>11, <1>12, <2>2 DEF Trusting
<1>16. Kept(run')
  BY <1>5, <1>13, <1>14, <1>15, Reaching DEF Kept
<1>17. ASSUME UpToDate(run) PROVE UpToDate(run')
  <2>1. run.state.policy = policyNow /\ AgreesWithBase(run) /\ HoldsSources(run)
        /\ run.inv.trusted_base = origin.commit
    BY <1>1, <1>8, <1>17, Reaching DEF UpToDate
  <2>2. AgreesWithBase(run') /\ run'.state.policy = policyNow
    BY <1>5, <1>10, <2>1 DEF AgreesWithBase
  <2>3. HoldsSources(run')
    <3>1. scope(run') = scope(run)
      BY <1>5, <1>10 DEF scope
    <3>. QED BY <1>1, <1>5, <1>10, <2>1, <3>1 DEF HoldsSources
  <2>4. HoldsInputs(run')
    BY <1>5, <1>11, <1>12 DEF HoldsInputs
  <2>. QED BY <1>5, <2>1, <2>2, <2>3, <2>4, Reaching DEF UpToDate
<1>. QED BY <1>16, <1>17

\* Analyse: the frontend reads the same sources again, and what they include.
LEMMA AnalyseOK ==
    ASSUME RunOK(run), Kept(run), Analyse
    PROVE  RunOK(run') /\ Kept(run') /\ (UpToDate(run) => UpToDate(run'))
<1> DEFINE sources == given(run) \ {<<>>}
           files == hashed(dependencies(sources))
           semantics == Analysis(rules(run), files, run.arguments,
                                 manifest(run.contract), manifest(run.review))
<1>1. run = [f \in RunFields |-> run[f]] /\ run.outcome = None /\ StateOK(run.state)
      /\ run.phase = "analyse"
  BY DEF RunOK, Analyse
<1>2. \/ /\ \A p \in sources : readable(p)
         /\ \A p \in dependencies(sources) : readable(p)
         /\ ~semantics.error
         /\ run' = [run EXCEPT !.phase = "report", !.semantics = semantics, !.analysed = files]
      \/ run' = ended(2, "error")
  BY DEF Analyse, given
<1>3. CASE run' = ended(2, "error")
  <2>1. run' = [f \in RunFields |-> run'[f]] /\ run'.state = run.state /\ run'.phase = "ended"
        /\ run'.outcome = [exit |-> 2, result |-> "error"]
    BY <1>1, <1>3 DEF RunFields, ended
  <2>2. RunOK(run')
    BY <1>1, <2>1 DEF RunOK, Aborted
  <2>. QED BY <2>1, <2>2, AbortedKeeps DEF Aborted
<1>4. CASE /\ \A p \in sources : readable(p)
           /\ \A p \in dependencies(sources) : readable(p)
           /\ ~semantics.error
           /\ run' = [run EXCEPT !.phase = "report", !.semantics = semantics, !.analysed = files]
  <2> HIDE DEF semantics, files
  <2>1. run' = [f \in RunFields |-> run'[f]] /\ run'.state = run.state /\ run'.inv = run.inv
        /\ run'.phase = "report" /\ run'.outcome = None
        /\ run'.sources = run.sources /\ run'.arguments = run.arguments
        /\ run'.contract = run.contract /\ run'.review = run.review
        /\ run'.semantics = semantics /\ run'.analysed = files
    BY <1>1, <1>4 DEF RunFields
  <2>2. RunOK(run')
    BY <1>1, <2>1 DEF RunOK, LoadedPhases, BasedPhases, ComparedPhases, CollectedPhases,
                      ValidatedPhases, AnalysedPhases
  <2>3. SUFFICES ASSUME ~policyFail(run'.state)
                 PROVE  Kept(run') /\ (UpToDate(run) => UpToDate(run'))
    BY <2>2, FailedKeeps
  <2>4. AsAsked(run) /\ Reconciled(run) /\ InScope(run) /\ Trusting(run)
    BY <1>1, <2>1, <2>3, Reaching DEF Kept
  <2>5. scope(run') = scope(run) /\ given(run') = given(run) /\ rules(run') = rules(run)
    BY <2>1 DEF scope, given, rules
  <2>6. AsAsked(run') /\ Reconciled(run') /\ InScope(run') /\ Trusting(run')
    BY <2>1, <2>4, <2>5 DEF AsAsked, Reconciled, InScope, Trusting
  <2>7. Kept(run')
    BY <2>1, <2>6, Reaching DEF Kept
  <2>8. ASSUME UpToDate(run) PROVE UpToDate(run')
    <3>1. run.state.policy = policyNow /\ AgreesWithBase(run) /\ HoldsSources(run)
          /\ HoldsInputs(run) /\ run.inv.trusted_base = origin.commit
      BY <1>1, <2>1, <2>3, <2>8, Reaching DEF UpToDate
    <3>2. AgreesWithBase(run') /\ HoldsSources(run') /\ HoldsInputs(run')
      BY <1>1, <2>1, <2>5, <3>1 DEF AgreesWithBase, HoldsSources, HoldsInputs
    <3>3. sources = scope(run)
      <4>1. \A p \in scope(run) : isNormalized(p)
        BY <2>4, ScopeIsNormalized DEF AsAsked, scope
      <4>. QED BY <2>4, <4>1 DEF InScope, isNormalized
    <3>4. HoldsAnalysis(run')
      BY <1>4, <2>1, <2>5, <3>3 DEF HoldsAnalysis, semantics, files
    <3>. QED BY <2>1, <3>1, <3>2, <3>4, Reaching DEF UpToDate
  <2>. QED BY <2>7, <2>8
<1>. QED BY <1>2, <1>3, <1>4

\* The verdict depends on what the run knows, not on its phase.
LEMMA VerdictDepends ==
    ASSUME NEW r, NEW other,
           other.state = r.state, other.inv = r.inv, other.semantics = r.semantics,
           other.sources = r.sources, other.arguments = r.arguments
    PROVE  finalResult(other) = finalResult(r)
BY DEF finalResult, canEmitCand1Pass, evidenceBound, rules

LEMMA HashedUnion ==
    ASSUME NEW paths, NEW more
    PROVE  hashed(paths) \cup hashed(more) = hashed(paths \cup more)
BY DEF hashed

LEMMA IncludedOK ==
    ASSUME NEW r, r = [f \in RunFields |-> r[f]], StateOK(r.state)
    PROVE  LET read == {p \in included(r) : readable(p)}
               marked == read \ {PublicHeader}
               after == addIncludedFiles(r)
           IN  /\ after = [f \in RunFields |-> after[f]] /\ StateOK(after.state)
               /\ \A f \in RunFields \ {"state", "sources"} : after[f] = r[f]
               /\ after.sources = r.sources \cup hashed(read)
               /\ after.state.policy = r.state.policy
               /\ ~policyFail(after.state) =>
                     /\ read = included(r)
                     /\ ~policyFail(r.state)
                     /\ after.state.unsafe_boundaries = r.state.unsafe_boundaries \cup unsafeIn(marked)
                     /\ after.state.suppressions = r.state.suppressions \cup suppressedIn(marked)
                     /\ after.state.delta = r.state.delta
                     /\ after.state.review_required = r.state.review_required
                     /\ after.state.contract_inputs = r.state.contract_inputs
                     /\ after.state.annotation_review_inputs = r.state.annotation_review_inputs
<1> DEFINE read == {p \in included(r) : readable(p)}
           marked == read \ {PublicHeader}
           counted == [r.state EXCEPT !.unsafe_boundaries = @ \cup unsafeIn(marked),
                                      !.suppressions = @ \cup suppressedIn(marked)]
           unreadable == read # included(r)
           st == rejectIf(unreadable, "dependency-unreadable", counted)
           after == [r EXCEPT !.sources = @ \cup hashed(read), !.state = st]
<1>1. addIncludedFiles(r) = after
  BY DEF addIncludedFiles
<1> HIDE DEF read
<1>2. /\ StateOK(counted)
      /\ counted.unsafe_boundaries = r.state.unsafe_boundaries \cup unsafeIn(marked)
      /\ counted.suppressions = r.state.suppressions \cup suppressedIn(marked)
      /\ counted.delta = r.state.delta /\ counted.review_required = r.state.review_required
      /\ counted.contract_inputs = r.state.contract_inputs
      /\ counted.annotation_review_inputs = r.state.annotation_review_inputs
      /\ counted.policy = r.state.policy /\ counted.policy_failed = r.state.policy_failed
  <2> HIDE DEF marked
  <2>. QED BY DEF StateOK, StateFields
<1> HIDE DEF counted
<1>3. /\ StateOK(st) /\ st.policy = counted.policy
      /\ ~policyFail(st) => ~unreadable /\ st = counted
  <2> HIDE DEF unreadable
  <2>. QED BY <1>2, RejectIfOK
<1> HIDE DEF st
<1>4. /\ after = [f \in RunFields |-> after[f]] /\ after.state = st
      /\ \A f \in RunFields \ {"state", "sources"} : after[f] = r[f]
      /\ after.sources = r.sources \cup hashed(read)
  BY DEF RunFields
<1> HIDE DEF after
<1>5. policyFail(r.state) => policyFail(counted)
  BY <1>2 DEF policyFail
<1>. QED BY <1>1, <1>2, <1>3, <1>4, <1>5 DEF read

\* Report: the verdict is computed from what the run knows at its end, the
\* included files with it.
LEMMA ReportOK ==
    ASSUME RunOK(run), Kept(run), Report
    PROVE  RunOK(run') /\ Kept(run') /\ (UpToDate(run) => UpToDate(run'))
<1> DEFINE read == {p \in included(run) : readable(p)}
           marked == read \ {PublicHeader}
           bound == addIncludedFiles(run)
           st == addDetectedPolicyViolations(bound.state)
           final == [bound EXCEPT !.state = st]
           outcome == verdictOf(final)
<1>1. run = [f \in RunFields |-> run[f]] /\ run.outcome = None /\ StateOK(run.state)
      /\ run.phase = "report"
  BY DEF RunOK, Report
<1>2. run' = [final EXCEPT !.phase = "ended", !.outcome = outcome]
  BY DEF Report, verdictOf, buildEvidence
<1>3. /\ bound = [f \in RunFields |-> bound[f]] /\ StateOK(bound.state)
      /\ \A f \in RunFields \ {"state", "sources"} : bound[f] = run[f]
      /\ bound.sources = run.sources \cup hashed(read)
      /\ bound.state.policy = run.state.policy
      /\ ~policyFail(bound.state) =>
            /\ read = included(run)
            /\ ~policyFail(run.state)
            /\ bound.state.unsafe_boundaries = run.state.unsafe_boundaries \cup unsafeIn(marked)
            /\ bound.state.suppressions = run.state.suppressions \cup suppressedIn(marked)
            /\ bound.state.delta = run.state.delta
            /\ bound.state.review_required = run.state.review_required
            /\ bound.state.contract_inputs = run.state.contract_inputs
            /\ bound.state.annotation_review_inputs = run.state.annotation_review_inputs
  BY <1>1, IncludedOK
<1> HIDE DEF bound, read
<1>4. /\ StateOK(st)
      /\ ~policyFail(st) => /\ bound.state.unsafe_boundaries = {}
                            /\ bound.state.suppressions = {}
                            /\ st = bound.state
  BY <1>3, PolicyViolationsOK
<1> HIDE DEF st
<1>5. /\ final = [f \in RunFields |-> final[f]] /\ final.state = st
      /\ final.sources = bound.sources
      /\ \A f \in RunFields \ {"state", "sources"} : final[f] = run[f]
  BY <1>3 DEF RunFields
<1> HIDE DEF final
<1>6. /\ run' = [f \in RunFields |-> run'[f]] /\ run'.state = st /\ run'.phase = "ended"
      /\ run'.outcome = outcome /\ run'.sources = bound.sources
      /\ \A f \in RunFields \ {"state", "sources", "phase", "outcome"} : run'[f] = run[f]
      /\ \A f \in RunFields \ {"phase", "outcome"} : run'[f] = final[f]
  <2> HIDE DEF outcome
  <2>. QED BY <1>2, <1>5 DEF RunFields
<1>7. run'.inv = run.inv /\ run'.arguments = run.arguments /\ run'.contract = run.contract
      /\ run'.review = run.review /\ run'.semantics = run.semantics
      /\ run'.analysed = run.analysed
      /\ final.state = run'.state /\ final.inv = run'.inv /\ final.semantics = run'.semantics
      /\ final.sources = run'.sources /\ final.arguments = run'.arguments
  BY <1>6 DEF RunFields
<1>8. outcome = verdictOf(run')
  <2>1. finalResult(final) = finalResult(run')
    BY <1>7, VerdictDepends
  <2>. QED BY <1>7, <2>1 DEF verdictOf
<1>9. RunOK(run')
  <2> HIDE DEF outcome
  <2>. QED BY <1>4, <1>6, <1>8 DEF RunOK
<1> HIDE DEF outcome
<1>10. SUFFICES ASSUME ~policyFail(run'.state)
                PROVE  Kept(run') /\ (UpToDate(run) => UpToDate(run'))
  BY <1>9, FailedKeeps
<1>11. /\ st = bound.state /\ ~policyFail(bound.state)
       /\ read = included(run) /\ ~policyFail(run.state)
       /\ st.unsafe_boundaries = {} /\ st.suppressions = {}
       /\ run.state.unsafe_boundaries = {} /\ run.state.suppressions = {}
       /\ unsafeIn(marked) = {} /\ suppressedIn(marked) = {}
       /\ st.policy = run.state.policy /\ st.delta = run.state.delta
       /\ st.review_required = run.state.review_required
       /\ st.contract_inputs = run.state.contract_inputs
       /\ st.annotation_review_inputs = run.state.annotation_review_inputs
  BY <1>3, <1>4, <1>6, <1>10
<1>12. AsAsked(run) /\ Reconciled(run) /\ InScope(run) /\ Trusting(run)
  BY <1>1, <1>11, Reaching DEF Kept
<1>13. scope(run') = scope(run) /\ given(run') = given(run) /\ rules(run') = rules(run)
  BY <1>6, <1>7, <1>11 DEF scope, given, rules
<1>14. AsAsked(run') /\ Reconciled(run') /\ Trusting(run')
  BY <1>6, <1>7, <1>11, <1>12 DEF AsAsked, Reconciled, Trusting
<1>15. InScope(run')
  <2>1. run.sources \subseteq run'.sources
    BY <1>3, <1>6
  <2>2. {f.path : f \in run.sources} \subseteq {f.path : f \in run'.sources}
    BY <2>1
  <2>. QED BY <1>6, <1>7, <1>11, <1>12, <1>13, <2>2 DEF InScope
<1>16. Kept(run')
  BY <1>6, <1>11, <1>14, <1>15 DEF Kept, LoadedPhases, BasedPhases, ComparedPhases,
     CollectedPhases, ValidatedPhases, AnalysedPhases
<1>17. ASSUME UpToDate(run) PROVE UpToDate(run')
  <2> DEFINE files == dependencies(scope(run))
  <2>1. run.state.policy = policyNow /\ AgreesWithBase(run) /\ HoldsSources(run)
        /\ HoldsInputs(run) /\ HoldsAnalysis(run) /\ run.inv.trusted_base = origin.commit
    BY <1>1, <1>11, <1>17, Reaching DEF UpToDate
  <2>2. AgreesWithBase(run')
    BY <1>6, <1>11, <2>1 DEF AgreesWithBase
  <2>3. HoldsSources(run')
    BY <1>6, <1>13, <2>1 DEF HoldsSources
  <2>4. HoldsInputs(run')
    BY <1>6, <1>7, <1>11, <2>1, SamePolicySameTrust DEF HoldsInputs
  <2>5. HoldsAnalysis(run')
    BY <1>7, <1>13, <2>1 DEF HoldsAnalysis
  <2>6. run.sources = hashed(scope(run)) /\ run.analysed = hashed(files)
        /\ run.state.unsafe_boundaries = unsafeIn(scope(run))
        /\ run.state.suppressions = suppressedIn(scope(run))
    BY <1>1, <2>1 DEF HoldsSources, HoldsAnalysis
  <2>7. scope(run) \subseteq files
    BY DEF dependencies
  <2>8. read = files \ scope(run)
    <3>1. {f.path : f \in run.analysed} = files
      <4> HIDE DEF files
      <4>. QED BY <2>6, HashedPaths
    <3>2. {f.path : f \in run.sources} = scope(run)
      BY <2>6, HashedPaths
    <3> HIDE DEF files
    <3>. QED BY <1>11, <3>1, <3>2 DEF included
  <2>9. run'.sources = hashed(files)
    <3>1. run'.sources = hashed(scope(run)) \cup hashed(read)
      BY <1>3, <1>6, <2>6
    <3>2. scope(run) \cup read = files
      BY <2>7, <2>8
    <3>. QED BY <3>1, <3>2, HashedUnion
  <2>10. ASSUME NEW p \in scope(run) \cup (files \ {PublicHeader})
         PROVE  ~IsUnsafe(content(p)) /\ ~IsSuppressed(content(p))
    <3>1. CASE p \in scope(run)
      BY <1>11, <2>6, <3>1 DEF unsafeIn, suppressedIn
    <3>2. CASE p \notin scope(run)
      <4>1. p \in marked
        BY <2>8, <3>2
      <4>. QED BY <1>11, <4>1 DEF unsafeIn, suppressedIn
    <3>. QED BY <3>1, <3>2
  <2>11. HoldsNoMarkers(run')
    BY <1>13, <2>9, <2>10 DEF HoldsNoMarkers
  <2>. QED BY <1>6, <1>7, <1>11, <2>1, <2>2, <2>3, <2>4, <2>5, <2>11 DEF UpToDate
<1>. QED BY <1>16, <1>17

\* StartCheck: option errors end the run before it starts.
LEMMA StartCheckOK ==
    ASSUME NEW inv, StartCheck(inv)
    PROVE  RunOK(run') /\ Kept(run') /\ UpToDate(run')
<1>1. CASE run' = start(inv)
  BY <1>1, StartOK
<1>2. CASE run' = [start(inv) EXCEPT !.phase = "ended",
                                     !.outcome = [exit |-> 2, result |-> "usage"]]
  <2>1. run' = [f \in RunFields |-> run'[f]] /\ run'.phase = "ended"
        /\ run'.outcome = [exit |-> 2, result |-> "usage"] /\ run'.state = newState
    BY <1>2 DEF start, RunFields
  <2>2. RunOK(run')
    BY <2>1, NewStateOK DEF RunOK, Aborted
  <2>. QED BY <2>1, <2>2, AbortedKeeps DEF Aborted
<1>. QED BY <1>1, <1>2 DEF StartCheck

LEMMA CheckStepOK ==
    ASSUME RunOK(run), Kept(run), CheckStep
    PROVE  RunOK(run') /\ Kept(run') /\ (UpToDate(run) => UpToDate(run'))
BY LoadPolicyOK, CompareTrustedBaseOK, CompareWithBaseOK, CollectSourcesOK,
   ValidateTrustedInputsOK, AnalyseOK, ReportOK DEF CheckStep

LEMMA SameRun ==
    ASSUME RunOK(run'), Kept(run')
    PROVE  RunOK(run)' /\ Kept(run)'
OBVIOUS

\* What a step says of the run and the repository before it holds after it, when
\* the step leaves the repository alone.
LEMMA SameRepository ==
    ASSUME UNCHANGED <<workspace, origin>>, UpToDate(run')
    PROVE  UpToDate(run)'
BY DEF UpToDate, reached, decided, policyNow, baseNow, deltaNow, AgreesWithBase, HoldsSources,
       HoldsInputs, HoldsAnalysis, HoldsNoMarkers, inputNow, isTrusted, trustedInput,
       dependencies, hashed, unsafeIn, suppressedIn, manifest, readable, content, scope, rules

-----------------------------------------------------------------------------
(* Type correctness *)

Shapes ==
    /\ DOMAIN workspace = {"files", "policies", "head"}
    /\ DOMAIN verification = {"phase", "session", "payload", "status"}
    /\ DOMAIN started = {"run", "verification"}

\* What holds of the workflow and its run, however the repository changes.
TypeInv == TypeOK /\ Shapes /\ RunOK(run) /\ Kept(run)

\* The documented words and numbers (main's result and exit code).
LEMMA OutcomeOK ==
    ASSUME NEW r, RunOK(r)
    PROVE  /\ r.phase \in {"idle", "policy", "trust", "base", "sources", "trusted_inputs",
                           "analyse", "report", "ended"}
           /\ r.outcome # None =>
                 /\ r.outcome.exit \in 0 .. 4
                 /\ r.outcome.result \in {"pass", "fail", "incomplete", "fail-policy",
                                          "review-required", "policy-error", "error", "usage"}
<1>1. r.phase \in {"idle", "policy", "trust", "base", "sources", "trusted_inputs",
                   "analyse", "report", "ended"}
  BY DEF RunOK, LoadedPhases, BasedPhases, ComparedPhases, CollectedPhases, ValidatedPhases,
         AnalysedPhases
<1>2. finalResult(r) \in {"pass", "fail", "incomplete", "fail-policy", "review-required"}
  BY DEF finalResult, semanticResult
<1>3. verdictOf(r).exit \in 0 .. 4 /\ verdictOf(r).result = finalResult(r)
  BY DEF verdictOf, exitCode
<1>. QED BY <1>1, <1>2, <1>3 DEF RunOK, Aborted

LEMMA StatusOK ==
    ASSUME NEW file, NEW session, NEW payload
    PROVE  /\ bindingStatus(file, session) \in {"tampered", "stale", "bound"}
           /\ inputStatus(payload) \in {"tampered", "stale", "bound"}
BY DEF bindingStatus, inputStatus

\* A change of the repository leaves the time stamps behind.
LEMMA ChangeOK ==
    ASSUME TypeInv, change
    PROVE  /\ changes' \in 0 .. MaxChanges
           /\ started'.run \in 0 .. changes' /\ started'.verification \in 0 .. changes'
           /\ ~quiet' /\ changes' # started'.verification
BY ChangesAssumption DEF TypeInv, TypeOK, change, quiet

LEMMA TypeInvInit == Init => TypeInv
<1>. SUFFICES ASSUME Init PROVE TypeInv
  OBVIOUS
<1>1. PICK s \in Start : workspace = s.workspace /\ origin = s.origin
  BY DEF Init
<1>2. RunOK(run) /\ Kept(run)
  BY StartOK DEF Init
<1>3. Shapes
  BY <1>1, StartAssumption DEF Init, Shapes, notVerifying
<1>4. run.outcome = None
  BY DEF Init, idle, start
<1>5. TypeOK
  BY <1>1, <1>2, <1>4, StartAssumption, ChangesAssumption, OutcomeOK
     DEF Init, TypeOK, notVerifying
<1>. QED BY <1>2, <1>3, <1>5 DEF TypeInv

LEMMA TypeInvNext == TypeInv /\ [Next]_vars => TypeInv'
<1>. SUFFICES ASSUME TypeInv, [Next]_vars PROVE TypeInv'
  OBVIOUS
<1>. USE DEF TypeInv
<1>1. CASE Check
  <2>1. PICK inv \in Invocations : StartCheck(inv)
    BY <1>1 DEF Check
  <2>2. RunOK(run') /\ Kept(run')
    BY <2>1, StartCheckOK
  <2>3. Shapes'
    BY <1>1, <2>1 DEF Shapes, Check, StartCheck, notVerifying
  <2>4. TypeOK'
    <3>1. started' = [run |-> changes, verification |-> changes] /\ changes' = changes
          /\ verification' = notVerifying /\ UNCHANGED <<workspace, origin, evidence>>
      BY <1>1, <2>1 DEF Check, StartCheck
    <3>. QED BY <2>2, <3>1, OutcomeOK, ChangesAssumption DEF TypeOK, notVerifying
  <2>. QED BY <2>2, <2>3, <2>4, SameRun
<1>2. CASE Checking
  <2>1. RunOK(run') /\ Kept(run')
    BY <1>2, CheckStepOK DEF Checking
  <2>2. UNCHANGED <<workspace, origin, verification, changes, started>>
    BY <1>2 DEF Checking, CheckStep, LoadPolicy, CompareTrustedBase, CompareWithBase,
        CollectSources, ValidateTrustedInputs, Analyse, Report
  <2>3. DOMAIN evidence' = DOMAIN evidence
    BY <1>2 DEF Checking, CheckStep, LoadPolicy, CompareTrustedBase, CompareWithBase,
        CollectSources, ValidateTrustedInputs, Analyse, Report
  <2>4. Shapes'
    BY <2>2 DEF Shapes
  <2>5. TypeOK'
    BY <2>1, <2>2, <2>3, OutcomeOK DEF TypeOK
  <2>. QED BY <2>1, <2>4, <2>5, SameRun
<1>3. CASE Verify
  <2>1. run' = idle /\ UNCHANGED <<workspace, origin, evidence, changes>>
        /\ started' = [started EXCEPT !.verification = changes]
    BY <1>3 DEF Verify
  <2>2. RunOK(run') /\ Kept(run')
    BY <2>1, StartOK
  <2>3. PICK session \in Sessions :
           LET file == evidence[Evidence]
               status == bindingStatus(file, session)
           IN  verification' = [phase |-> IF status = "bound" THEN "inputs" ELSE "verdict",
                                session |-> session, payload |-> file.payload, status |-> status]
    BY <1>3 DEF Verify
  <2>4. Shapes'
    BY <2>1, <2>3 DEF Shapes
  <2>5. /\ verification'.phase \in {"inputs", "verdict"}
        /\ verification'.status \in {"tampered", "stale", "bound"}
    BY <2>3, StatusOK
  <2>6. started'.run = started.run /\ started'.verification = changes
    BY <2>1 DEF Shapes
  <2>7. TypeOK'
    BY <2>1, <2>2, <2>5, <2>6, OutcomeOK, ChangesAssumption DEF TypeOK
  <2>. QED BY <2>2, <2>4, <2>7, SameRun
<1>4. CASE CompareInputs
  <2> DEFINE status == inputStatus(verification.payload)
  <2>1. UNCHANGED <<workspace, origin, evidence, changes>>
    BY <1>4 DEF CompareInputs
  <2>2. CASE status # "bound"
    <3>1. verification' = [verification EXCEPT !.phase = "verdict", !.status = status]
          /\ UNCHANGED <<run, started>>
      BY <1>4, <2>2 DEF CompareInputs, verdict
    <3>2. status \in {"tampered", "stale", "bound"}
      BY StatusOK
    <3> HIDE DEF status
    <3>3. Shapes' /\ verification'.phase = "verdict" /\ verification'.status = status
      BY <2>1, <3>1 DEF Shapes
    <3>4. TypeOK'
      BY <2>1, <3>1, <3>2, <3>3 DEF TypeOK
    <3>. QED BY <3>1, <3>3, <3>4, SameRun
  <2>3. CASE status = "bound"
    <3>1. verification' = [verification EXCEPT !.phase = "replay"]
          /\ run' = start(replayInvocation(verification.payload, verification.session))
          /\ started' = [started EXCEPT !.run = changes]
      BY <1>4, <2>3 DEF CompareInputs
    <3>2. RunOK(run') /\ Kept(run')
      BY <3>1, StartOK
    <3>3. Shapes' /\ verification'.phase = "replay"
          /\ verification'.status = verification.status
          /\ started'.run = changes /\ started'.verification = started.verification
      BY <2>1, <3>1 DEF Shapes
    <3>4. TypeOK'
      BY <2>1, <3>2, <3>3, OutcomeOK, ChangesAssumption DEF TypeOK
    <3>. QED BY <3>2, <3>3, <3>4, SameRun
  <2>. QED BY <2>2, <2>3
<1>5. CASE CompareReplay
  <2>1. PICK status \in {"valid", "stale"} :
           verification' = [verification EXCEPT !.phase = "verdict", !.status = status]
    BY <1>5 DEF CompareReplay, verdict
  <2>2. UNCHANGED <<workspace, origin, run, changes, started>>
        /\ evidence' = [evidence EXCEPT ![Replay] = None]
    BY <1>5 DEF CompareReplay, history
  <2>3. Shapes' /\ verification'.phase = "verdict" /\ verification'.status = status
    BY <2>1, <2>2 DEF Shapes
  <2>4. TypeOK'
    BY <2>2, <2>3 DEF TypeOK
  <2>. QED BY <2>2, <2>3, <2>4, SameRun
<1>6. ASSUME change, UNCHANGED <<origin, evidence>>,
             DOMAIN workspace' = DOMAIN workspace,
             DOMAIN workspace'.files = DOMAIN workspace.files,
             DOMAIN workspace'.policies = DOMAIN workspace.policies,
             workspace'.head \in Nat
      PROVE  TypeInv'
  <2>1. UNCHANGED <<run, verification, started>>
    BY <1>6 DEF change
  <2>2. TypeOK'
    BY <1>6, <2>1, ChangeOK DEF TypeOK
  <2>. QED BY <1>6, <2>1, <2>2, SameRun DEF Shapes
<1>7. CASE EditFile
  <2>1. PICK e \in Edits : workspace' = [workspace EXCEPT !.files[e[1]] = e[2]]
    BY <1>7 DEF EditFile
  <2>. QED BY <1>6, <1>7, <2>1 DEF EditFile, Shapes, TypeOK
<1>8. CASE EditPolicy
  <2>1. PICK t \in Texts :
           workspace' = [workspace EXCEPT !.policies[AuthoritativePolicy] = t]
    BY <1>8 DEF EditPolicy
  <2>. QED BY <1>6, <1>8, <2>1 DEF EditPolicy, Shapes, TypeOK
<1>9. CASE Commit
  BY <1>6, <1>9 DEF Commit, Shapes, TypeOK
<1>10. CASE EditEvidence
  <2>1. change /\ UNCHANGED <<workspace, origin>> /\ DOMAIN evidence' = DOMAIN evidence
    BY <1>10 DEF EditEvidence
  <2>2. UNCHANGED <<run, verification, started>>
    BY <2>1 DEF change
  <2>3. TypeOK'
    BY <2>1, <2>2, ChangeOK DEF TypeOK
  <2>. QED BY <2>1, <2>2, <2>3, SameRun DEF Shapes
<1>11. ASSUME merge, UNCHANGED <<workspace, evidence>> PROVE TypeInv'
  <2>1. change /\ origin'.commit \in Nat /\ DOMAIN origin'.policies = PolicyPaths
    BY <1>11 DEF merge, TypeOK
  <2>2. UNCHANGED <<run, verification, started>>
    BY <2>1 DEF change
  <2>3. TypeOK'
    BY <1>11, <2>1, <2>2, ChangeOK DEF TypeOK
  <2>. QED BY <1>11, <2>2, <2>3, SameRun DEF Shapes
<1>12. CASE MergeByPolicyDiff \/ MergeByEvidence \/ MergeByReview
  BY <1>11, <1>12 DEF MergeByPolicyDiff, MergeByEvidence, MergeByReview
<1>13. CASE UNCHANGED vars
  BY <1>13 DEF vars, TypeOK, Shapes
<1>. QED BY <1>1, <1>2, <1>3, <1>4, <1>5, <1>7, <1>8, <1>9, <1>10, <1>12, <1>13 DEF Next

\* Every part of the workflow keeps to the values it is documented to have:
\* no step of a check or a verification, and nothing that happens to the
\* repository in between, produces another word, number or time stamp.
THEOREM TypeCorrect == Spec => []TypeOK
<1>1. TypeInv => TypeOK
  BY DEF TypeInv
<1>. QED BY TypeInvInit, TypeInvNext, <1>1, PTL DEF Spec

-----------------------------------------------------------------------------
(* What the exit code tells *)

LEMMA NonEmptyEvidence ==
    ASSUME NEW r, RunOK(r), Kept(r), decided(r), ~policyFail(r.state)
    PROVE  r.sources # {} /\ r.arguments # <<>>
<1>1. AsAsked(r) /\ InScope(r)
  BY Reaching DEF Kept
<1>2. r.sources # {}
  BY <1>1 DEF AsAsked, isStrictGeneratedPolicy, InScope, scope
<1>3. r.arguments # <<>>
  <2>1. SUFFICES ASSUME r.arguments = <<>> PROVE FALSE
    OBVIOUS
  <2>2. "standard-absent" \in argumentErrors(r.arguments, "c11", r.inv)
    BY <2>1 DEF argumentErrors
  <2>. QED BY <1>1, <2>2 DEF InScope
<1>. QED BY <1>2, <1>3

\* What a cand1 run that found nothing still lacks for a pass.
LEMMA OnlyWithheld ==
    ASSUME NEW r, RunOK(r), Kept(r), decided(r), ~policyFail(r.state), ~reviewRequired(r.state),
           ~r.semantics.findings, ~r.semantics.unsupported, r.inv.level = "cand1",
           ~canEmitCand1Pass(r)
    PROVE  \/ r.state.policy.pointer_output_contracts = "true"
           \/ r.inv.verifier.source_commit = "unknown"
           \/ r.state.policy.safety_level # "cand1"
<1>1. AsAsked(r) /\ InScope(r) /\ Trusting(r)
      /\ r.state.unsafe_boundaries = {} /\ r.state.suppressions = {}
  BY Reaching DEF Kept
<1>2. r.sources # {} /\ r.arguments # <<>>
  BY NonEmptyEvidence
<1>3. r.state.toolchain_supported
  BY DEF RunOK, StateOK, policyFail
<1>4. r.state.policy.profile = "generated" /\ r.state.policy.scope_files # {}
  BY <1>1 DEF AsAsked, isStrictGeneratedPolicy
<1>. QED BY <1>1, <1>2, <1>3, <1>4 DEF canEmitCand1Pass, evidenceBound, rules, Trusting

LEMMA ExitCodeInv == TypeInv => ExitCodeTellsResult
<1>. SUFFICES ASSUME TypeInv, run.phase = "ended"
              PROVE  LET exit == run.outcome.exit
                         result == run.outcome.result
                     IN  /\ exit = 0 /\ result # "pass" => result = "incomplete" /\ passWithheld
                         /\ (exit = 1) <=> (result = "fail")
                         /\ exit = 3 => result = "incomplete"
                         /\ result = "pass" => exit = 0
    BY DEF ExitCodeTellsResult
<1>1. RunOK(run) /\ Kept(run)
  BY DEF TypeInv
<1>2. CASE run.outcome.exit = 2 /\ run.outcome.result \in Aborted
  BY <1>2 DEF Aborted
<1>3. CASE run.outcome = verdictOf(run)
  <2> DEFINE exit == run.outcome.exit
             result == run.outcome.result
  <2>1. exit = (IF policyFail(run.state) \/ reviewRequired(run.state) THEN 4
                ELSE exitCode(run.semantics))
        /\ result = finalResult(run)
    BY <1>3 DEF verdictOf
  <2>2. CASE policyFail(run.state) \/ reviewRequired(run.state)
    BY <2>1, <2>2 DEF finalResult
  <2>3. CASE ~policyFail(run.state) /\ ~reviewRequired(run.state)
    <3>1. exit = exitCode(run.semantics)
      BY <2>1, <2>3
    <3>2. CASE run.inv.level # "cand1"
      BY <2>1, <2>3, <3>1, <3>2 DEF finalResult, semanticResult, exitCode
    <3>3. CASE run.inv.level = "cand1" /\ canEmitCand1Pass(run)
      BY <2>1, <2>3, <3>1, <3>3 DEF finalResult, exitCode, canEmitCand1Pass
    <3>4. CASE run.inv.level = "cand1" /\ ~canEmitCand1Pass(run)
      <4>1. result = IF run.semantics.findings THEN "fail" ELSE "incomplete"
        BY <2>1, <2>3, <3>4 DEF finalResult
      <4>2. decided(run)
        <5>1. result \notin Aborted
          BY <4>1 DEF Aborted
        <5>. QED BY <5>1 DEF decided
      <4>3. ~run.semantics.findings /\ ~run.semantics.unsupported => passWithheld
        BY <1>1, <2>3, <3>4, <4>2, OnlyWithheld DEF passWithheld
      <4>. QED BY <3>1, <4>1, <4>3 DEF exitCode
    <3>. QED BY <3>2, <3>3, <3>4
  <2>. QED BY <2>2, <2>3
<1>. QED BY <1>1, <1>2, <1>3 DEF RunOK

\* The exit code and the reported result of every run, computed from different
\* predicates in main, never mislead: success reported as incomplete is a cand1
\* pass withheld for one of three reasons, a finding is told by both or neither,
\* and a pass always exits 0.
THEOREM ExitCodeHonest == Spec => []ExitCodeTellsResult
BY TypeInvInit, TypeInvNext, ExitCodeInv, PTL DEF Spec

-----------------------------------------------------------------------------
(* What success rests on *)

LEMMA RunInvInit == Init => RunInv
BY StartOK DEF Init, RunInv

LEMMA RunInvNext == TypeInv /\ RunInv /\ [Next]_vars => RunInv'
<1>. SUFFICES ASSUME TypeInv, RunInv, [Next]_vars PROVE RunInv'
  OBVIOUS
<1>1. ASSUME UNCHANGED <<workspace, origin, run, changes>>, UNCHANGED started.run
      PROVE  RunInv'
  BY <1>1, SameRepository DEF RunInv, quiet
<1>2. CASE Check
  <2>1. PICK inv \in Invocations : StartCheck(inv)
    BY <1>2 DEF Check
  <2>2. UpToDate(run') /\ UNCHANGED <<workspace, origin>>
    BY <2>1, StartCheckOK DEF StartCheck
  <2>. QED BY <2>2, SameRepository DEF RunInv
<1>3. CASE Checking
  <2>1. UNCHANGED <<workspace, origin, changes, started>>
    BY <1>3 DEF Checking, CheckStep, LoadPolicy, CompareTrustedBase, CompareWithBase,
        CollectSources, ValidateTrustedInputs, Analyse, Report
  <2>2. UpToDate(run) => UpToDate(run')
    BY <1>3, CheckStepOK DEF Checking, TypeInv
  <2>. QED BY <2>1, <2>2, SameRepository DEF RunInv, quiet
<1>4. CASE Verify
  <2>1. run' = idle /\ UNCHANGED <<workspace, origin>>
    BY <1>4 DEF Verify
  <2>. QED BY <2>1, StartOK, SameRepository DEF RunInv
<1>5. CASE CompareInputs
  <2>1. UNCHANGED <<workspace, origin, changes>>
    BY <1>5 DEF CompareInputs
  <2>2. CASE UNCHANGED <<run, started>>
    BY <1>1, <2>1, <2>2
  <2>3. CASE run' = start(replayInvocation(verification.payload, verification.session))
    BY <2>1, <2>3, StartOK, SameRepository DEF RunInv
  <2>. QED BY <1>5, <2>2, <2>3 DEF CompareInputs
<1>6. CASE CompareReplay
  BY <1>1, <1>6 DEF CompareReplay, history
<1>7. CASE EditFile \/ EditPolicy \/ Commit \/ EditEvidence
           \/ MergeByPolicyDiff \/ MergeByEvidence \/ MergeByReview
  <2>1. change
    BY <1>7 DEF EditFile, EditPolicy, Commit, EditEvidence, MergeByPolicyDiff,
        MergeByEvidence, MergeByReview, merge
  <2>. QED BY <2>1, ChangeOK DEF RunInv
<1>8. CASE UNCHANGED vars
  BY <1>1, <1>8 DEF vars
<1>. QED BY <1>2, <1>3, <1>4, <1>5, <1>6, <1>7, <1>8 DEF Next

\* A run that ended with nothing to say upholds what success means.
Clean(r) ==
    /\ decided(r) /\ ~policyFail(r.state) /\ ~reviewRequired(r.state)
    /\ ~r.semantics.findings /\ ~r.semantics.unsupported

LEMMA CleanAgrees ==
    ASSUME NEW r, RunOK(r), Kept(r), UpToDate(r), Clean(r)
    PROVE  /\ r.state.policy = policyNow
           /\ readsAsPolicy(baseNow)
           /\ AtLeastAsStrict(loadPolicyText(baseNow), policyNow)
<1>1. r.state.policy = policyNow /\ AgreesWithBase(r)
  BY Reaching DEF Clean, UpToDate
<1>2. ~deltaNow.review_required /\ ~deltaNow.weakened
  BY <1>1 DEF Clean, policyFail, reviewRequired, AgreesWithBase
<1>3. baseNow # Absent
  BY <1>2 DEF deltaNow, initialPolicy
<1>4. deltaNow = comparePolicies(loadPolicyText(baseNow), policyNow) /\ readsAsPolicy(baseNow)
  BY <1>1, <1>3 DEF deltaNow, AgreesWithBase
<1>. QED BY <1>1, <1>2, <1>4, ComparedStricter DEF policyNow

LEMMA CleanUpholds ==
    ASSUME NEW r, RunOK(r), Kept(r), UpToDate(r), Clean(r)
    PROVE  Upheld(given(r), rules(r), r.arguments, r.contract, r.review)
<1> DEFINE trusted == loadPolicyText(origin.policies[AuthoritativePolicy])
           policy == loadPolicyText(workspace.policies[AuthoritativePolicy])
           files == hashed(dependencies(given(r)))
           semantics == Analysis(rules(r), files, r.arguments,
                                 manifest(r.contract), manifest(r.review))
           pinned(option) == option # NotGiven =>
               contractIsPinned(trusted, normalizedRelativePath(option), manifest(option))
<1>1. r.state.policy = policyNow /\ AtLeastAsStrict(loadPolicyText(baseNow), policyNow)
  BY CleanAgrees
<1>2. policy = policyNow /\ trusted = loadPolicyText(baseNow)
  BY DEF policyNow, baseNow
<1>3. AsAsked(r) /\ InScope(r) /\ HoldsInputs(r) /\ HoldsAnalysis(r) /\ HoldsNoMarkers(r)
  BY Reaching DEF Clean, Kept, UpToDate
<1>4. isStrictGeneratedPolicy(policy)
  BY <1>1, <1>2, <1>3 DEF AsAsked
<1>5. AtLeastAsStrict(trusted, policy)
  BY <1>1, <1>2
<1>6. trusted.scope_files \subseteq given(r)
  BY <1>1, <1>2, <1>3, <1>5 DEF InScope, scope, AtLeastAsStrict
<1>7. /\ policy["frontend_arguments"] = trusted["frontend_arguments"]
      /\ policy["trusted_contracts"] = trusted["trusted_contracts"]
  BY <1>5 DEF AtLeastAsStrict, ReviewedSettings
<1>8. withoutStandard(r.arguments) = trusted.frontend_arguments
  BY <1>1, <1>2, <1>3, <1>7 DEF InScope
<1>9. ASSUME NEW option, option # NotGiven => isTrusted(r.state, option)
      PROVE  pinned(option)
  <2>1. SUFFICES ASSUME option # NotGiven
                 PROVE  contractIsPinned(trusted, normalizedRelativePath(option), manifest(option))
    OBVIOUS
  <2> DEFINE path == normalizedRelativePath(option)
  <2>2. path \in Paths /\ contractIsPinned(r.state.policy, path, content(path))
    BY <1>9, <2>1 DEF isTrusted, readable
  <2>3. manifest(option) = content(path)
    BY <2>1, <2>2 DEF manifest
  <2>4. contractIsPinned(trusted, path, content(path))
    BY <1>1, <1>2, <1>7, <2>2 DEF contractIsPinned, pinnedAs
  <2>. QED BY <2>3, <2>4
<1>10. pinned(r.contract) /\ pinned(r.review)
  BY <1>3, <1>9 DEF HoldsInputs
<1>11. given(r) = scope(r)
  BY <1>3 DEF InScope
<1>12. \A f \in files : f.path # PublicHeader =>
          ~IsUnsafe(f.sha256) /\ ~IsSuppressed(f.sha256)
  BY <1>3, <1>11 DEF HoldsNoMarkers, hashed
<1>13. ~semantics.error /\ ~semantics.findings /\ ~semantics.unsupported
  BY <1>3, <1>11 DEF HoldsAnalysis, Clean
<1>14. QED
  BY <1>4, <1>5, <1>6, <1>8, <1>10, <1>12, <1>13 DEF Upheld

LEMMA PassInv == TypeInv /\ RunInv => PassRestsOnBase
<1>. SUFFICES ASSUME TypeInv, RunInv, run.phase = "ended", quiet, run.outcome.exit = 0
              PROVE  Upheld(given(run), rules(run), run.arguments, run.contract, run.review)
  BY DEF PassRestsOnBase, given
<1>1. RunOK(run) /\ Kept(run) /\ UpToDate(run)
  BY DEF TypeInv, RunInv
<1>2. run.outcome = verdictOf(run)
  BY <1>1 DEF RunOK
<1>3. /\ ~policyFail(run.state) /\ ~reviewRequired(run.state)
      /\ ~run.semantics.findings /\ ~run.semantics.unsupported
  BY <1>2 DEF verdictOf, exitCode
<1>4. decided(run)
  BY <1>2 DEF decided, verdictOf, finalResult, semanticResult, Aborted
<1>. QED BY <1>1, <1>3, <1>4, CleanUpholds DEF Clean

\* Exit code 0 of a run that nothing interfered with rests on origin/main alone:
\* whatever the workspace's policy, command line, contract or sources are, and
\* however the run's steps read them, its policy is no weaker than origin/main's,
\* the whole of origin/main's scope was analysed, under arguments and manifests
\* origin/main pins, without a marker or a finding (loadAgentPolicy to the exit).
THEOREM ExitZeroRestsOnBase == Spec => []PassRestsOnBase
BY TypeInvInit, TypeInvNext, RunInvInit, RunInvNext, PassInv, PTL DEF Spec

-----------------------------------------------------------------------------
(* What a verified pass rests on *)

\* The replay of a verification: it is run with what the evidence says, and the
\* evidence it writes is that of a run that reached its verdict.
VerificationInv ==
    /\ checking /\ run.inv.emit = Replay => verification.phase = "replay"
    /\ verification.phase = "replay" =>
          /\ run.inv = replayInvocation(verification.payload, verification.session)
          /\ started.verification <= started.run
    /\ evidence[Replay] # None =>
          /\ verification.phase = "replay"
          /\ run.phase = "ended"
          /\ run.outcome = verdictOf(run)
          /\ quiet => evidence[Replay].payload = buildEvidence(run)
    /\ verification.phase = "verdict" /\ verification.status = "valid" =>
          /\ run.inv = replayInvocation(verification.payload, verification.session)
          /\ started.verification <= started.run
          /\ run.phase = "ended"
          /\ run.outcome = verdictOf(run)
          /\ quiet => verification.payload = buildEvidence(run)

LEMMA AfterPolicyKeeps ==
    ASSUME NEW r, r = [f \in RunFields |-> r[f]]
    PROVE  afterPolicy(r).inv = r.inv /\ afterPolicy(r).phase # "idle"
BY DEF afterPolicy, RunFields

\* The evidence a run writes is that of the run as it ends.
LEMMA ReportWrites ==
    ASSUME RunOK(run), Report
    PROVE  /\ run'.inv = run.inv /\ run'.phase = "ended" /\ run'.outcome = verdictOf(run')
           /\ \/ run.inv.emit = NotGiven /\ evidence' = evidence
              \/ evidence' = [evidence EXCEPT ![run.inv.emit] =
                    [payload |-> buildEvidence(run'), integrity_sha256 |-> buildEvidence(run')]]
<1> DEFINE bound == addIncludedFiles(run)
           final == [bound EXCEPT !.state = addDetectedPolicyViolations(@)]
           outcome == verdictOf(final)
<1>1. run' = [final EXCEPT !.phase = "ended", !.outcome = outcome]
  BY DEF Report, verdictOf, buildEvidence
<1>2. /\ bound = [f \in RunFields |-> bound[f]]
      /\ \A f \in RunFields \ {"state", "sources"} : bound[f] = run[f]
  BY IncludedOK DEF RunOK
<1>4. \/ run.inv.emit = NotGiven /\ evidence' = evidence
      \/ evidence' = [evidence EXCEPT ![run.inv.emit] =
            [payload |-> buildEvidence(final), integrity_sha256 |-> buildEvidence(final)]]
  BY DEF Report
<1> HIDE DEF bound
<1>3. /\ final = [f \in RunFields |-> final[f]]
      /\ \A f \in RunFields \ {"state", "sources"} : final[f] = run[f]
  BY <1>2 DEF RunFields
<1> HIDE DEF final
<1>5. /\ run'.phase = "ended" /\ run'.outcome = outcome
      /\ \A f \in RunFields \ {"phase", "outcome"} : run'[f] = final[f]
  <2> HIDE DEF outcome
  <2>. QED BY <1>1, <1>3 DEF RunFields
<1>6. final.state = run'.state /\ final.inv = run'.inv /\ final.semantics = run'.semantics
      /\ final.sources = run'.sources /\ final.arguments = run'.arguments
      /\ run'.inv = run.inv
  BY <1>3, <1>5 DEF RunFields
<1>7. finalResult(final) = finalResult(run')
  BY <1>6, VerdictDepends
<1>8. verdictOf(final) = verdictOf(run')
  BY <1>6, <1>7 DEF verdictOf
<1>9. buildEvidence(final) = buildEvidence(run')
  BY <1>6, <1>7 DEF buildEvidence, rules
<1>. QED BY <1>4, <1>5, <1>6, <1>8, <1>9

\* A step of a check keeps to its command line, and only the last one writes.
LEMMA CheckStepKeeps ==
    ASSUME RunOK(run), CheckStep
    PROVE  /\ run'.inv = run.inv /\ run'.phase # "idle" /\ checking
           /\ UNCHANGED <<workspace, origin>>
           /\ Report \/ evidence' = evidence
<1>1. run = [f \in RunFields |-> run[f]]
  BY DEF RunOK
<1>2. ASSUME NEW st PROVE LET r == [run EXCEPT !.state = st]
                          IN  r = [f \in RunFields |-> r[f]] /\ r.inv = run.inv
  BY <1>1 DEF RunFields
<1>3. ASSUME NEW st PROVE afterPolicy([run EXCEPT !.state = st]).inv = run.inv
                          /\ afterPolicy([run EXCEPT !.state = st]).phase # "idle"
  BY <1>2, AfterPolicyKeeps
<1>4. CASE LoadPolicy
  BY <1>1, <1>3, <1>4 DEF LoadPolicy, RunFields, checking
<1>5. CASE CompareTrustedBase
  BY <1>1, <1>3, <1>5 DEF CompareTrustedBase, RunFields, checking
<1>6. CASE CompareWithBase
  BY <1>1, <1>3, <1>6 DEF CompareWithBase, RunFields, checking
<1>7. CASE CollectSources
  BY <1>1, <1>7 DEF CollectSources, RunFields, checking
<1>8. CASE ValidateTrustedInputs
  BY <1>1, <1>8 DEF ValidateTrustedInputs, RunFields, checking
<1>9. CASE Analyse
  BY <1>1, <1>9 DEF Analyse, ended, RunFields, checking
<1>10. CASE Report
  BY <1>10, ReportWrites DEF Report, checking
<1>. QED BY <1>4, <1>5, <1>6, <1>7, <1>8, <1>9, <1>10 DEF CheckStep

LEMMA VerificationInvInit == Init => VerificationInv
BY DEF Init, VerificationInv, idle, start, checking, notVerifying

LEMMA VerificationInvNext == TypeInv /\ VerificationInv /\ [Next]_vars => VerificationInv'
<1>. SUFFICES ASSUME TypeInv, VerificationInv, [Next]_vars PROVE VerificationInv'
  OBVIOUS
<1>1. CASE Check
  <2>1. PICK inv \in Invocations : StartCheck(inv)
    BY <1>1 DEF Check
  <2>2. run'.inv = inv /\ evidence' = evidence
    BY <2>1 DEF StartCheck, start
  <2>3. verification' = notVerifying /\ verification.phase # "replay"
    BY <1>1 DEF Check, busy
  <2>. QED BY <2>2, <2>3, InvocationAssumption DEF VerificationInv, notVerifying
<1>2. CASE Checking
  <2>1. UNCHANGED <<verification, changes, started>> /\ CheckStep
    BY <1>2 DEF Checking
  <2>2. run'.inv = run.inv /\ run'.phase # "idle" /\ checking /\ UNCHANGED <<workspace, origin>>
        /\ (Report \/ evidence' = evidence)
    BY <2>1, CheckStepKeeps DEF TypeInv
  <2>3. evidence[Replay] = None
        /\ ~(verification.phase = "verdict" /\ verification.status = "valid")
    BY <2>2 DEF VerificationInv, checking
  <2>4. CASE evidence' = evidence
    BY <2>1, <2>2, <2>3, <2>4 DEF VerificationInv
  <2>5. CASE Report /\ run.inv.emit = Replay /\ run.inv.emit # NotGiven
    <3>1. run'.phase = "ended" /\ run'.outcome = verdictOf(run')
          /\ evidence' = [evidence EXCEPT ![Replay] =
                [payload |-> buildEvidence(run'), integrity_sha256 |-> buildEvidence(run')]]
      BY <2>5, ReportWrites DEF TypeInv, Report
    <3>2. evidence'[Replay].payload = buildEvidence(run')
      <4>1. Replay \in DOMAIN evidence
        BY DEF TypeInv, TypeOK
      <4>. QED BY <3>1, <4>1
    <3>3. buildEvidence(run)' = buildEvidence(run')
      BY <2>2 DEF buildEvidence
    <3>4. verification.phase = "replay"
      BY <2>2, <2>5 DEF VerificationInv
    <3>. QED BY <2>1, <2>2, <2>3, <3>1, <3>2, <3>3, <3>4 DEF VerificationInv
  <2>6. CASE Report /\ run.inv.emit # Replay
    <3>1. evidence'[Replay] = evidence[Replay]
      <4>1. PICK f : evidence' = evidence \/ evidence' = [evidence EXCEPT ![run.inv.emit] = f]
        BY <2>6, ReportWrites DEF TypeInv
      <4>2. Replay \in DOMAIN evidence
        BY DEF TypeInv, TypeOK
      <4>. QED BY <2>6, <4>1, <4>2
    <3>. QED BY <2>1, <2>2, <2>3, <3>1 DEF VerificationInv
  <2>7. CASE Report /\ run.inv.emit = NotGiven
    BY <2>4, <2>7 DEF Report
  <2>. QED BY <2>2, <2>4, <2>5, <2>6, <2>7
<1>3. CASE Verify
  <2>1. run' = idle /\ evidence' = evidence /\ verification.phase # "replay"
    BY <1>3 DEF Verify, busy
  <2>2. /\ verification'.phase \in {"inputs", "verdict"}
        /\ verification'.status \in {"tampered", "stale", "bound"}
    BY <1>3, StatusOK DEF Verify
  <2>3. ~checking'
    BY <2>1 DEF checking, idle
  <2>. QED BY <2>1, <2>2, <2>3 DEF VerificationInv
<1>4. CASE CompareInputs
  <2> DEFINE status == inputStatus(verification.payload)
  <2>1. evidence' = evidence /\ verification.phase = "inputs" /\ changes' = changes
    BY <1>4 DEF CompareInputs
  <2>2. CASE status # "bound"
    <3>1. verification' = [verification EXCEPT !.phase = "verdict", !.status = status]
          /\ UNCHANGED <<run, started>>
      BY <1>4, <2>2 DEF CompareInputs, verdict
    <3>2. status # "valid"
      BY StatusOK
    <3> HIDE DEF status
    <3>3. verification'.phase = "verdict" /\ verification'.status # "valid"
      BY <3>1, <3>2 DEF TypeInv, Shapes
    <3>4. checking' = checking
      BY <3>1 DEF checking
    <3>. QED BY <2>1, <3>1, <3>3, <3>4 DEF VerificationInv
  <2>3. CASE status = "bound"
    <3>1. verification' = [verification EXCEPT !.phase = "replay"]
          /\ run' = start(replayInvocation(verification.payload, verification.session))
          /\ started' = [started EXCEPT !.run = changes]
      BY <1>4, <2>3 DEF CompareInputs
    <3>2. verification'.phase = "replay" /\ verification'.payload = verification.payload
          /\ verification'.session = verification.session
          /\ started'.run = changes /\ started'.verification = started.verification
      BY <3>1 DEF TypeInv, Shapes
    <3>3. run'.inv = replayInvocation(verification.payload, verification.session)
      BY <3>1 DEF start
    <3>4. started'.verification <= started'.run
      BY <3>2, ChangesAssumption DEF TypeInv, TypeOK
    <3>5. evidence'[Replay] = None
      BY <2>1 DEF VerificationInv
    <3>. QED BY <3>2, <3>3, <3>4, <3>5 DEF VerificationInv
  <2>. QED BY <2>2, <2>3
<1>5. CASE CompareReplay
  <2> DEFINE again == reproduced(verification.payload, evidence[Replay])
  <2>1. verification' = [verification EXCEPT !.phase = "verdict",
                                             !.status = IF again THEN "valid" ELSE "stale"]
        /\ evidence' = [evidence EXCEPT ![Replay] = None]
        /\ UNCHANGED <<workspace, run, changes, started>>
        /\ verification.phase = "replay" /\ run.phase = "ended"
    BY <1>5 DEF CompareReplay, verdict, history
  <2> HIDE DEF again
  <2>2. verification'.phase = "verdict" /\ verification'.payload = verification.payload
        /\ verification'.session = verification.session
        /\ (verification'.status = "valid" => again)
    BY <2>1 DEF TypeInv, Shapes
  <2>3. evidence'[Replay] = None
    BY <2>1 DEF TypeInv, TypeOK
  <2>4. ~checking'
    BY <2>1 DEF checking
  <2>5. again => evidence[Replay] # None /\ evidence[Replay].payload = verification.payload
    BY DEF again, reproduced
  <2>6. buildEvidence(run)' = buildEvidence(run)
    BY <2>1 DEF buildEvidence
  <2>7. run.inv = replayInvocation(verification.payload, verification.session)
        /\ started.verification <= started.run
    BY <2>1 DEF VerificationInv
  <2>. QED BY <2>1, <2>2, <2>3, <2>4, <2>5, <2>6, <2>7 DEF VerificationInv, quiet
<1>6. ASSUME change, evidence'[Replay] = evidence[Replay] PROVE VerificationInv'
  <2>1. UNCHANGED <<run, verification, started>> /\ ~quiet'
    BY <1>6, ChangeOK DEF change
  <2>. QED BY <1>6, <2>1 DEF VerificationInv, checking
<1>7. CASE EditEvidence
  <2>1. evidence'[Replay] = evidence[Replay]
    <3>1. PICK f : evidence' = [evidence EXCEPT ![Evidence] = f]
      BY <1>7 DEF EditEvidence
    <3>2. Replay \in DOMAIN evidence /\ Replay # Evidence
      BY DEF TypeInv, TypeOK, Evidence, Replay
    <3>. QED BY <3>1, <3>2
  <2>. QED BY <1>6, <1>7, <2>1 DEF EditEvidence
<1>8. CASE EditFile \/ EditPolicy \/ Commit
           \/ MergeByPolicyDiff \/ MergeByEvidence \/ MergeByReview
  BY <1>6, <1>8 DEF EditFile, EditPolicy, Commit, MergeByPolicyDiff,
        MergeByEvidence, MergeByReview, merge
<1>9. CASE UNCHANGED vars
  BY <1>9 DEF vars, VerificationInv, checking, quiet, buildEvidence
<1>. QED BY <1>1, <1>2, <1>3, <1>4, <1>5, <1>7, <1>8, <1>9 DEF Next

\* A run that reports a pass has nothing to say.
LEMMA PassIsClean ==
    ASSUME NEW r, r.phase = "ended", r.outcome = verdictOf(r), finalResult(r) = "pass"
    PROVE  /\ Clean(r)
           /\ r.inv.level = "cand1" => rules(r) # "cand1/v1.1-draft"
<1>1. ~policyFail(r.state) /\ ~reviewRequired(r.state)
      /\ ~r.semantics.findings /\ ~r.semantics.unsupported
      /\ (r.inv.level = "cand1" => rules(r) # "cand1/v1.1-draft")
  BY DEF finalResult, semanticResult, canEmitCand1Pass
<1>2. decided(r)
  BY DEF decided, verdictOf, Aborted
<1>. QED BY <1>1, <1>2 DEF Clean

LEMMA PassVerifiedRun ==
    ASSUME TypeInv, RunInv, VerificationInv, passVerified
    PROVE  /\ RunOK(run) /\ Kept(run) /\ UpToDate(run) /\ Clean(run)
           /\ verification.payload = buildEvidence(run)
           /\ run.inv = replayInvocation(verification.payload, verification.session)
           /\ run.inv.level = "cand1" => rules(run) # "cand1/v1.1-draft"
<1>1. /\ run.inv = replayInvocation(verification.payload, verification.session)
      /\ started.verification <= started.run
      /\ run.phase = "ended" /\ run.outcome = verdictOf(run)
      /\ quiet => verification.payload = buildEvidence(run)
  BY DEF passVerified, VerificationInv
<1>2. quiet
  BY <1>1, ChangesAssumption DEF passVerified, TypeInv, TypeOK, quiet
<1>3. finalResult(run) = "pass"
  BY <1>1, <1>2 DEF passVerified, buildEvidence
<1>. QED BY <1>1, <1>2, <1>3, PassIsClean DEF TypeInv, RunInv

LEMMA ValidPassInv == TypeInv /\ RunInv /\ VerificationInv => ValidPassHoldsNow
<1> DEFINE payload == verification.payload
           pin == IF payload.contracts = {} THEN NotGiven
                  ELSE (CHOOSE c \in payload.contracts : TRUE).path
<1>. SUFFICES ASSUME TypeInv, RunInv, VerificationInv, passVerified
              PROVE  /\ Upheld(payload.checked_scope, payload.rules, payload.arguments, pin, NotGiven)
                     /\ payload.rules = IF payload.safety_level = "cand1" THEN "cand1/v1"
                                        ELSE "p0-semantic-core"
                     /\ payload.files = hashed(dependencies(payload.checked_scope))
  BY DEF ValidPassHoldsNow
<1>1. /\ RunOK(run) /\ Kept(run) /\ UpToDate(run) /\ Clean(run)
      /\ payload = buildEvidence(run)
      /\ run.inv = replayInvocation(payload, verification.session)
      /\ run.inv.level = "cand1" => rules(run) # "cand1/v1.1-draft"
  BY PassVerifiedRun
<1> HIDE DEF payload
<1>2. payload.rules = rules(run) /\ payload.arguments = run.arguments
      /\ payload.files = run.sources /\ payload.checked_scope = scope(run)
  BY <1>1 DEF buildEvidence, scope
<1>3. InScope(run) /\ Trusting(run) /\ HoldsNoMarkers(run)
  BY <1>1, Reaching DEF Clean, Kept, UpToDate
<1>4. run.contract = pin /\ run.review = NotGiven
  BY <1>1, <1>3 DEF Trusting, replayInvocation
<1>5. given(run) = payload.checked_scope
  BY <1>2, <1>3 DEF InScope
<1>6. Upheld(payload.checked_scope, payload.rules, payload.arguments, pin, NotGiven)
  <2> HIDE DEF pin
  <2>. QED BY <1>1, <1>2, <1>4, <1>5, CleanUpholds
<1>7. run.inv.level = payload.safety_level
  BY <1>1 DEF replayInvocation
<1>8. payload.rules = IF payload.safety_level = "cand1" THEN "cand1/v1" ELSE "p0-semantic-core"
  BY <1>1, <1>2, <1>7 DEF rules
<1>9. payload.files = hashed(dependencies(payload.checked_scope))
  BY <1>2, <1>3 DEF HoldsNoMarkers
<1>. QED BY <1>6, <1>8, <1>9

\* Evidence that verifies and says pass is true of the repository as it is when
\* it verifies, however it came about: made while files changed, edited by hand
\* with its digest brought up to date, left over from another commit, or written
\* by a replay that raced with an edit (verifyEvidenceFile).
THEOREM ValidPassIsTrue == Spec => []ValidPassHoldsNow
<1> DEFINE Inv == TypeInv /\ RunInv /\ VerificationInv
<1>1. Init => Inv
  BY TypeInvInit, RunInvInit, VerificationInvInit
<1>2. Inv /\ [Next]_vars => Inv'
  BY TypeInvNext, RunInvNext, VerificationInvNext
<1>3. Inv => ValidPassHoldsNow
  BY ValidPassInv
<1>. QED BY <1>1, <1>2, <1>3, PTL DEF Spec

-----------------------------------------------------------------------------
(* The policy gate as a whole *)

LEMMA PassMergesAPolicy ==
    ASSUME TypeInv, RunInv, VerificationInv, passVerified
    PROVE  /\ readsAsPolicy(workspace.policies[AuthoritativePolicy])
           /\ AtLeastAsStrict(loadPolicyText(origin.policies[AuthoritativePolicy]),
                              loadPolicyText(workspace.policies[AuthoritativePolicy]))
<1>1. RunOK(run) /\ Kept(run) /\ UpToDate(run) /\ Clean(run)
  BY PassVerifiedRun
<1>2. run.state.policy = policyNow /\ AtLeastAsStrict(loadPolicyText(baseNow), policyNow)
  BY <1>1, CleanAgrees
<1>3. isStrictGeneratedPolicy(policyNow)
  BY <1>1, <1>2, Reaching DEF Clean, Kept, AsAsked
<1>4. readsAsPolicy(workspace.policies[AuthoritativePolicy])
  BY <1>3 DEF policyNow, loadPolicyText, unread, isStrictGeneratedPolicy
<1>. QED BY <1>2, <1>4 DEF policyNow, baseNow

\* What origin/main enforces, however many changes passed the gate since, admits
\* nothing that the policy reviewed last refuses.
StillAsStrict ==
    AtLeastAsStrict(loadPolicyText(reviewed), loadPolicyText(origin.policies[AuthoritativePolicy]))

LEMMA AsStrictAsItself ==
    ASSUME NEW text
    PROVE  AtLeastAsStrict(loadPolicyText(text), loadPolicyText(text))
<1>1. \A b \in BudgetKinds : loadPolicyText(text).budgets[b] <= loadPolicyText(text).budgets[b]
  BY BudgetsAreNatural
<1>. QED BY <1>1 DEF AtLeastAsStrict

\* The ratchet's specification reads and compares policies as the workflow does.
LEMMA RatchetReads ==
    ASSUME NEW text
    PROVE  Ratchet!readsAsPolicy(text) <=> readsAsPolicy(text)
BY DEF readsAsPolicy, Ratchet!readsAsPolicy, BudgetKinds, Ratchet!BudgetKinds, TrustClasses,
   Ratchet!TrustClasses, isNormalized, Ratchet!isNormalized, normalizedRelativePath,
   Ratchet!normalizedRelativePath, unique, Ratchet!unique

LEMMA RatchetLoads ==
    ASSUME NEW text
    PROVE  Ratchet!loadPolicyText(text) = loadPolicyText(text)
BY RatchetReads DEF loadPolicyText, Ratchet!loadPolicyText, unread, Ratchet!unread,
   BudgetKinds, Ratchet!BudgetKinds, elements, Ratchet!elements

LEMMA RatchetCompares ==
    ASSUME NEW before, NEW after
    PROVE  Ratchet!AtLeastAsStrict(before, after) <=> AtLeastAsStrict(before, after)
BY DEF AtLeastAsStrict, Ratchet!AtLeastAsStrict, BudgetKinds, Ratchet!BudgetKinds,
   ReviewedSettings, Ratchet!ReviewedSettings

LEMMA RatchetStep ==
    ASSUME TypeInv, RunInv, VerificationInv, StillAsStrict, [Next]_vars
    PROVE  StillAsStrict' /\ [Ratchet!Next]_<<origin.policies[AuthoritativePolicy], reviewed>>
<1> DEFINE inForce == origin.policies[AuthoritativePolicy]
           offered == workspace.policies[AuthoritativePolicy]
<1>1. ASSUME inForce' = inForce, reviewed' = reviewed
      PROVE  StillAsStrict' /\ [Ratchet!Next]_<<inForce, reviewed>>
  BY <1>1 DEF StillAsStrict
<1>2. ASSUME inForce' = offered, reviewed' = reviewed, readsAsPolicy(offered),
             AtLeastAsStrict(loadPolicyText(inForce), loadPolicyText(offered))
      PROVE  StillAsStrict' /\ [Ratchet!Next]_<<inForce, reviewed>>
  <2>1. AtLeastAsStrict(loadPolicyText(reviewed), loadPolicyText(offered))
    BY <1>2, TighteningsAddUp DEF StillAsStrict
  <2>2. StillAsStrict'
    BY <1>2, <2>1 DEF StillAsStrict
  <2>3. Ratchet!readsAsPolicy(inForce')
    BY <1>2, RatchetReads
  <2>4. Ratchet!AtLeastAsStrict(Ratchet!loadPolicyText(reviewed), Ratchet!loadPolicyText(inForce'))
    <3> HIDE DEF inForce, offered
    <3>. QED BY <1>2, <2>1, RatchetLoads, RatchetCompares
  <2>5. Ratchet!Tighten
    BY <1>2, <2>3, <2>4 DEF Ratchet!Tighten
  <2>. QED BY <2>2, <2>5 DEF Ratchet!Next
<1>3. CASE MergeByPolicyDiff
  BY <1>2, <1>3, PolicyDiffOnlyTightens DEF MergeByPolicyDiff, merge
<1>4. CASE MergeByEvidence
  BY <1>2, <1>4, PassMergesAPolicy DEF MergeByEvidence, merge
<1>5. CASE MergeByReview
  <2>1. reviewed' = offered /\ inForce' = offered
    BY <1>5 DEF MergeByReview, merge
  <2>. QED BY <2>1, AsStrictAsItself DEF StillAsStrict, Ratchet!Next, Ratchet!HumanReview
<1>6. CASE Check \/ Verify \/ CompareInputs \/ CompareReplay
           \/ EditFile \/ EditPolicy \/ Commit \/ EditEvidence
  BY <1>1, <1>6 DEF Check, StartCheck, Verify, CompareInputs, CompareReplay, history,
     EditFile, EditPolicy, Commit, EditEvidence
<1>7. CASE Checking
  BY <1>1, <1>7, CheckStepKeeps DEF Checking, TypeInv
<1>8. CASE UNCHANGED vars
  BY <1>1, <1>8 DEF vars
<1>. QED BY <1>3, <1>4, <1>5, <1>6, <1>7, <1>8 DEF Next

\* The workflow implements the policy ratchet: of whatever edits, runs, forged
\* evidence and merges it is made of, without a human every step of origin/main's
\* policy is a tightening of the one a human reviewed last.
THEOREM WorkflowRatchets == Spec => RefinesPolicyRatchet
<1> DEFINE Inv == TypeInv /\ RunInv /\ VerificationInv /\ StillAsStrict
<1>1. Init => Inv
  BY TypeInvInit, RunInvInit, VerificationInvInit, AsStrictAsItself DEF Init, StillAsStrict
<1>2. Inv /\ [Next]_vars => Inv'
  BY TypeInvNext, RunInvNext, VerificationInvNext, RatchetStep
<1>3. Inv /\ [Next]_vars => [Ratchet!Next]_<<origin.policies[AuthoritativePolicy], reviewed>>
  BY RatchetStep
<1>4. Init => Ratchet!Init
  BY DEF Init, Ratchet!Init
<1>. QED BY <1>1, <1>2, <1>3, <1>4, PTL DEF Spec, RefinesPolicyRatchet, Ratchet!Spec

-----------------------------------------------------------------------------
(* What a run does is determined by its command line *)

\* A run that the policy lets through to its verdict, from its command line and
\* the repository as it is.
cleanState(inv) ==
    LET loaded == [newState EXCEPT !.policy = policyNow, !.delta = deltaNow,
                                   !.review_required = deltaNow.review_required]
    IN  [loaded EXCEPT !.contract_inputs = inputNow(loaded, inv.contract),
                       !.annotation_review_inputs = inputNow(loaded, inv.review)]

cleanRun(inv) ==
    LET st == cleanState(inv)
        arguments == repeated(inv.arguments, Len(inv.sources))
        files == hashed(dependencies(st.policy.scope_files))
    IN  [start(inv) EXCEPT
            !.phase = "ended", !.state = st, !.sources = files, !.arguments = arguments,
            !.contract = inv.contract, !.review = inv.review, !.analysed = files,
            !.semantics = Analysis(rules([inv |-> inv, state |-> st]), files, arguments,
                                   manifest(inv.contract), manifest(inv.review))]

\* ... and what it takes for the policy to let it through.
Accepts(inv) ==
    LET r == cleanRun(inv)
        files == dependencies(policyNow.scope_files)
    IN  /\ AsAsked(r) /\ Reconciled(r) /\ InScope(r)
        /\ readsAsPolicy(workspace.policies[AuthoritativePolicy])
        /\ inv.trusted_base = origin.commit
        /\ baseNow = Absent \/ readsAsPolicy(baseNow)
        /\ ~deltaNow.weakened
        /\ inv.contract # NotGiven => isTrusted(r.state, inv.contract)
        /\ inv.review # NotGiven => isTrusted(r.state, inv.review)
        /\ \A p \in files : readable(p)
        /\ ~r.semantics.error
        /\ \A p \in policyNow.scope_files \cup (files \ {PublicHeader}) :
              ~IsUnsafe(content(p)) /\ ~IsSuppressed(content(p))

LEMMA CleanStateIs ==
    ASSUME NEW inv
    PROVE  LET st == cleanState(inv)
           IN  /\ st = [f \in StateFields |-> st[f]]
               /\ st.policy = policyNow /\ st.delta = deltaNow
               /\ st.review_required = deltaNow.review_required /\ ~st.policy_failed
               /\ st.policy_errors = {} /\ st.unsafe_boundaries = {} /\ st.suppressions = {}
               /\ st.toolchain_supported = TRUE
               /\ st.contract_inputs = inputNow(st, inv.contract)
               /\ st.annotation_review_inputs = inputNow(st, inv.review)
<1> DEFINE loaded == [newState EXCEPT !.policy = policyNow, !.delta = deltaNow,
                                      !.review_required = deltaNow.review_required]
           st == cleanState(inv)
<1>1. st = [loaded EXCEPT !.contract_inputs = inputNow(loaded, inv.contract),
                          !.annotation_review_inputs = inputNow(loaded, inv.review)]
  BY DEF cleanState
<1>2. /\ loaded = [f \in StateFields |-> loaded[f]]
      /\ loaded.policy = policyNow /\ loaded.delta = deltaNow
      /\ loaded.review_required = deltaNow.review_required /\ ~loaded.policy_failed
      /\ loaded.policy_errors = {} /\ loaded.unsafe_boundaries = {} /\ loaded.suppressions = {}
      /\ loaded.toolchain_supported = TRUE
  BY DEF newState, StateFields
<1> HIDE DEF loaded
<1>3. /\ st = [f \in StateFields |-> st[f]]
      /\ \A f \in StateFields \ {"contract_inputs", "annotation_review_inputs"} : st[f] = loaded[f]
      /\ st.contract_inputs = inputNow(loaded, inv.contract)
      /\ st.annotation_review_inputs = inputNow(loaded, inv.review)
  BY <1>1, <1>2 DEF StateFields
<1>4. st.policy = loaded.policy
  BY <1>3 DEF StateFields
<1>5. ASSUME NEW option PROVE inputNow(st, option) = inputNow(loaded, option)
  BY <1>4, SamePolicySameTrust DEF inputNow
<1>. QED BY <1>2, <1>3, <1>5 DEF StateFields, st

LEMMA CleanRunIs ==
    ASSUME NEW inv
    PROVE  LET r == cleanRun(inv)
               files == hashed(dependencies(policyNow.scope_files))
           IN  /\ r.inv = inv /\ r.state = cleanState(inv) /\ r.sources = files
               /\ r.arguments = repeated(inv.arguments, Len(inv.sources))
               /\ r.contract = inv.contract /\ r.review = inv.review
               /\ r.analysed = files
               /\ r.semantics = Analysis(rules(r), files, r.arguments,
                                         manifest(inv.contract), manifest(inv.review))
<1> DEFINE files == hashed(dependencies(policyNow.scope_files))
           r == cleanRun(inv)
           pair == [inv |-> inv, state |-> cleanState(inv)]
           arguments == repeated(inv.arguments, Len(inv.sources))
<1>1. hashed(dependencies(cleanState(inv).policy.scope_files)) = files
  BY CleanStateIs
<1>2. r = [start(inv) EXCEPT
            !.phase = "ended", !.state = cleanState(inv), !.sources = files,
            !.arguments = arguments,
            !.contract = inv.contract, !.review = inv.review, !.analysed = files,
            !.semantics = Analysis(rules(pair), files, arguments,
                                   manifest(inv.contract), manifest(inv.review))]
  BY <1>1 DEF cleanRun
<1> HIDE DEF files, r, arguments
<1>3. /\ r.inv = inv /\ r.state = cleanState(inv) /\ r.sources = files
      /\ r.arguments = arguments
      /\ r.contract = inv.contract /\ r.review = inv.review
      /\ r.analysed = files
      /\ r.semantics = Analysis(rules(pair), files, arguments,
                                manifest(inv.contract), manifest(inv.review))
  BY <1>2 DEF start
<1>4. rules(pair) = rules(r)
  BY <1>3 DEF rules
<1>. QED BY <1>3, <1>4 DEF files, r, arguments

LEMMA CleanRunState ==
    ASSUME NEW inv
    PROVE  LET st == cleanRun(inv).state
           IN  /\ st.policy = policyNow /\ st.delta = deltaNow
               /\ st.review_required = deltaNow.review_required /\ ~st.policy_failed
               /\ st.policy_errors = {} /\ st.unsafe_boundaries = {} /\ st.suppressions = {}
               /\ st.toolchain_supported = TRUE
               /\ st.contract_inputs = inputNow(st, inv.contract)
               /\ st.annotation_review_inputs = inputNow(st, inv.review)
<1> DEFINE st == cleanRun(inv).state
           clean == cleanState(inv)
<1>1. st = clean
  BY CleanRunIs
<1>2. /\ clean.policy = policyNow /\ clean.delta = deltaNow
      /\ clean.review_required = deltaNow.review_required /\ ~clean.policy_failed
      /\ clean.policy_errors = {} /\ clean.unsafe_boundaries = {} /\ clean.suppressions = {}
      /\ clean.toolchain_supported = TRUE
      /\ clean.contract_inputs = inputNow(clean, inv.contract)
      /\ clean.annotation_review_inputs = inputNow(clean, inv.review)
  BY CleanStateIs
<1> HIDE DEF st, clean
<1>3. /\ st.policy = policyNow /\ st.delta = deltaNow
      /\ st.review_required = deltaNow.review_required /\ ~st.policy_failed
      /\ st.policy_errors = {} /\ st.unsafe_boundaries = {} /\ st.suppressions = {}
      /\ st.toolchain_supported = TRUE
      /\ st.contract_inputs = inputNow(st, inv.contract)
      /\ st.annotation_review_inputs = inputNow(st, inv.review)
  BY <1>1, <1>2
<1>. QED BY <1>3 DEF st

LEMMA RepeatedOnce ==
    ASSUME NEW s, s \in Seq(elements(s))
    PROVE  repeated(s, 1) = s
<1>1. Len(s) \in Nat /\ DOMAIN s = 1 .. Len(s)
  OBVIOUS
<1>2. ASSUME NEW i \in 1 .. Len(s) PROVE ((i - 1) % Len(s)) + 1 = i
  BY <1>1
<1>3. s = [i \in 1 .. Len(s) |-> s[i]]
  BY <1>1
<1>4. \A n \in Nat : 1 * n = n
  OBVIOUS
<1>5. 1 * Len(s) = Len(s)
  BY <1>1, <1>4
<1>. QED BY <1>2, <1>3, <1>5 DEF repeated

LEMMA OneInOrder ==
    ASSUME NEW p
    PROVE  inSomeOrder({p}) = <<p>>
<1>1. Cardinality({p}) = 1
  BY FS_Singleton
<1>2. <<p>> \in [1 .. 1 -> {p}] /\ elements(<<p>>) = {p}
  BY DEF elements
<1>3. \A s \in [1 .. 1 -> {p}] : s = <<p>>
  OBVIOUS
<1>4. inSomeOrder({p}) = CHOOSE s \in [1 .. 1 -> {p}] : elements(s) = {p}
  BY <1>1 DEF inSomeOrder
<1>5. inSomeOrder({p}) \in [1 .. 1 -> {p}]
  BY <1>2, <1>4
<1>. QED BY <1>3, <1>5

\* Evidence says the same of two runs that know the same.
LEMMA EvidenceDepends ==
    ASSUME NEW r, NEW other,
           other.inv.level = r.inv.level, other.inv.verifier = r.inv.verifier,
           other.inv.policy_path = r.inv.policy_path,
           other.inv.trusted_base = r.inv.trusted_base,
           other.semantics = r.semantics, other.sources = r.sources,
           other.arguments = r.arguments,
           other.state.policy = r.state.policy, other.state.delta = r.state.delta,
           other.state.policy_failed <=> r.state.policy_failed,
           other.state.review_required = r.state.review_required,
           other.state.policy_errors = r.state.policy_errors,
           other.state.contract_inputs = r.state.contract_inputs,
           other.state.annotation_review_inputs = r.state.annotation_review_inputs,
           other.state.unsafe_boundaries = r.state.unsafe_boundaries,
           other.state.suppressions = r.state.suppressions,
           other.state.toolchain_supported <=> r.state.toolchain_supported
    PROVE  buildEvidence(other) = buildEvidence(r)
<1>1. policyFail(other.state) = policyFail(r.state)
      /\ reviewRequired(other.state) = reviewRequired(r.state)
  BY DEF policyFail, reviewRequired
<1>2. rules(other) = rules(r) /\ evidenceBound(other) = evidenceBound(r)
  BY DEF rules, evidenceBound
<1>3. canEmitCand1Pass(other) = canEmitCand1Pass(r)
  BY <1>1, <1>2 DEF canEmitCand1Pass
<1>4. finalResult(other) = finalResult(r) /\ policyResult(other.state) = policyResult(r.state)
  BY <1>1, <1>3 DEF finalResult, policyResult
<1>. QED BY <1>1, <1>2, <1>4 DEF buildEvidence

\* A run nothing interfered with, which did not fail the policy, is the one its
\* command line determines.
LEMMA DecidedRun ==
    ASSUME NEW r, RunOK(r), Kept(r), UpToDate(r), decided(r), ~policyFail(r.state)
    PROVE  /\ Accepts(r.inv)
           /\ buildEvidence(r) = buildEvidence(cleanRun(r.inv))
<1> DEFINE inv == r.inv
           clean == cleanRun(inv)
           files == dependencies(policyNow.scope_files)
<1>1. /\ AsAsked(r) /\ Reconciled(r) /\ InScope(r) /\ Trusting(r)
      /\ r.state.unsafe_boundaries = {} /\ r.state.suppressions = {}
      /\ r.state.policy = policyNow /\ inv.trusted_base = origin.commit
      /\ AgreesWithBase(r) /\ HoldsInputs(r) /\ HoldsAnalysis(r) /\ HoldsNoMarkers(r)
  BY Reaching DEF Kept, UpToDate
<1>2. /\ clean.inv = inv /\ clean.state = cleanState(inv) /\ clean.sources = hashed(files)
      /\ clean.arguments = repeated(inv.arguments, Len(inv.sources))
      /\ clean.semantics = Analysis(rules(clean), hashed(files), clean.arguments,
                                    manifest(inv.contract), manifest(inv.review))
  BY CleanRunIs
<1>3. /\ clean.state.policy = policyNow /\ clean.state.delta = deltaNow
      /\ clean.state.review_required = deltaNow.review_required
      /\ ~clean.state.policy_failed /\ clean.state.policy_errors = {}
      /\ clean.state.unsafe_boundaries = {} /\ clean.state.suppressions = {}
      /\ clean.state.toolchain_supported = TRUE
      /\ clean.state.contract_inputs = inputNow(clean.state, inv.contract)
      /\ clean.state.annotation_review_inputs = inputNow(clean.state, inv.review)
  BY CleanRunState
<1> HIDE DEF clean
<1>4. ~r.state.policy_failed /\ ~deltaNow.weakened /\ r.state.policy_errors = {}
      /\ r.state.toolchain_supported
  BY <1>1 DEF policyFail, RunOK, StateOK, AgreesWithBase
<1>5. scope(r) = policyNow.scope_files /\ scope(clean) = policyNow.scope_files
      /\ given(clean) = given(r)
  BY <1>1, <1>2, <1>3 DEF scope, given
<1>6. clean.arguments = r.arguments /\ rules(clean) = rules(r)
  BY <1>1, <1>2, <1>3 DEF InScope, rules
<1>7. clean.sources = r.sources
  BY <1>1, <1>2, <1>5 DEF HoldsNoMarkers
<1>8. clean.semantics = r.semantics
  BY <1>1, <1>2, <1>5, <1>6 DEF HoldsAnalysis, Trusting
<1>9. /\ clean.state.contract_inputs = r.state.contract_inputs
      /\ clean.state.annotation_review_inputs = r.state.annotation_review_inputs
      /\ inv.contract # NotGiven => isTrusted(clean.state, inv.contract)
      /\ inv.review # NotGiven => isTrusted(clean.state, inv.review)
  BY <1>1, <1>3, SamePolicySameTrust DEF HoldsInputs, Trusting
<1>10. buildEvidence(r) = buildEvidence(clean)
  BY <1>1, <1>2, <1>3, <1>4, <1>6, <1>7, <1>8, <1>9, EvidenceDepends DEF AgreesWithBase
<1>11. AsAsked(clean) /\ Reconciled(clean)
  BY <1>1, <1>2, <1>3 DEF AsAsked, Reconciled
<1>12. InScope(clean)
  BY <1>1, <1>2, <1>3, <1>5, <1>6, <1>7 DEF InScope
<1>13. readsAsPolicy(workspace.policies[AuthoritativePolicy])
  <2>1. isStrictGeneratedPolicy(policyNow)
    BY <1>1 DEF AsAsked
  <2>. QED BY <2>1 DEF policyNow, loadPolicyText, unread, isStrictGeneratedPolicy
<1>14. /\ \A p \in files : readable(p)
       /\ ~clean.semantics.error
       /\ \A p \in policyNow.scope_files \cup (files \ {PublicHeader}) :
             ~IsUnsafe(content(p)) /\ ~IsSuppressed(content(p))
  BY <1>1, <1>5, <1>8 DEF HoldsAnalysis, HoldsNoMarkers
<1>15. baseNow = Absent \/ readsAsPolicy(baseNow)
  BY <1>1 DEF AgreesWithBase
<1>16. Accepts(inv)
  BY <1>1, <1>4, <1>9, <1>11, <1>12, <1>13, <1>14, <1>15 DEF Accepts, clean
<1>. QED BY <1>10, <1>16 DEF clean

\* A path under which a policy pins something is normalized.
LEMMA PinnedIsNormalized ==
    ASSUME NEW policy, readsAsPolicy(policy.sha256), policy = loadPolicyText(policy.sha256),
           NEW path, NEW digest, contractIsPinned(policy, path, digest)
    PROVE  normalizedRelativePath(path) = path
<1> DEFINE pins == Json(policy.sha256).trusted_contracts
<1>1. policy.trusted_contracts = elements(pins)
  BY DEF loadPolicyText
<1>2. \A p \in policy.trusted_contracts : normalizedRelativePath(p.path) = p.path
  BY <1>1 DEF elements, readsAsPolicy
<1>3. PICK p \in policy.trusted_contracts : p.path = path
  BY DEF contractIsPinned, pinnedAs
<1>. QED BY <1>2, <1>3

\* What a replay gives of a run: the pinned path names the same manifest.
LEMMA PinnedPathNamesIt ==
    ASSUME NEW st, readsAsPolicy(st.policy.sha256), st.policy = loadPolicyText(st.policy.sha256),
           NEW option, option # NotGiven, isTrusted(st, option)
    PROVE  LET path == normalizedRelativePath(option)
           IN  /\ path # NotGiven /\ isTrusted(st, path)
               /\ trustedInput(st, path) = trustedInput(st, option)
               /\ manifest(path) = manifest(option)
               /\ trustedInput(st, option).path = path
<1> DEFINE path == normalizedRelativePath(option)
<1>1. path \in Paths /\ readable(path) /\ contractIsPinned(st.policy, path, content(path))
  BY DEF isTrusted, readable
<1>2. normalizedRelativePath(path) = path
  BY <1>1, PinnedIsNormalized
<1>3. path # NotGiven
  BY <1>1, NotGivenAssumption
<1>4. trustedInput(st, path) = trustedInput(st, option)
  BY <1>2 DEF trustedInput
<1>5. manifest(path) = manifest(option)
  BY <1>2, <1>3 DEF manifest
<1>6. isTrusted(st, path)
  BY <1>1, <1>2 DEF isTrusted
<1>7. trustedInput(st, option).path = path
  BY DEF trustedInput
<1>. QED BY <1>3, <1>4, <1>5, <1>6, <1>7

\* A run of one file at the policy's level, without a review manifest, can be
\* repeated from what its evidence says.
LEMMA ReplayRepeatsIt ==
    ASSUME NEW inv, inv.sources \in Seq(elements(inv.sources)), Len(inv.sources) = 1,
           inv.arguments \in Seq(elements(inv.arguments)),
           Accepts(inv), inv.review = NotGiven, inv.level = policyNow.safety_level,
           NEW session,
           session = [verifier |-> inv.verifier, trusted_base |-> inv.trusted_base,
                      environment |-> inv.environment]
    PROVE  LET payload == buildEvidence(cleanRun(inv))
               again == replayInvocation(payload, session)
           IN  /\ Accepts(again) /\ DOMAIN again.sources = {1}
               /\ buildEvidence(cleanRun(again)) = payload
<1> DEFINE r == cleanRun(inv)
           payload == buildEvidence(r)
           again == replayInvocation(payload, session)
           other == cleanRun(again)
           files == dependencies(policyNow.scope_files)
<1>1. /\ r.inv = inv /\ r.state = cleanState(inv) /\ r.sources = hashed(files)
      /\ r.arguments = repeated(inv.arguments, Len(inv.sources))
      /\ r.contract = inv.contract /\ r.review = inv.review
      /\ r.semantics = Analysis(rules(r), hashed(files), r.arguments,
                                manifest(inv.contract), manifest(inv.review))
  BY CleanRunIs
<1>2. /\ r.state.policy = policyNow /\ r.state.delta = deltaNow
      /\ r.state.review_required = deltaNow.review_required
      /\ ~r.state.policy_failed /\ r.state.policy_errors = {}
      /\ r.state.unsafe_boundaries = {} /\ r.state.suppressions = {}
      /\ r.state.toolchain_supported = TRUE
      /\ r.state.contract_inputs = inputNow(r.state, inv.contract)
      /\ r.state.annotation_review_inputs = inputNow(r.state, inv.review)
  BY CleanRunState
<1>3. /\ other.inv = again /\ other.state = cleanState(again) /\ other.sources = hashed(files)
      /\ other.arguments = repeated(again.arguments, Len(again.sources))
      /\ other.contract = again.contract /\ other.review = again.review
      /\ other.semantics = Analysis(rules(other), hashed(files), other.arguments,
                                    manifest(again.contract), manifest(again.review))
  BY CleanRunIs
<1>4. /\ other.state.policy = policyNow /\ other.state.delta = deltaNow
      /\ other.state.review_required = deltaNow.review_required
      /\ ~other.state.policy_failed /\ other.state.policy_errors = {}
      /\ other.state.unsafe_boundaries = {} /\ other.state.suppressions = {}
      /\ other.state.toolchain_supported = TRUE
      /\ other.state.contract_inputs = inputNow(other.state, again.contract)
      /\ other.state.annotation_review_inputs = inputNow(other.state, again.review)
  BY CleanRunState
<1> HIDE DEF r, other
<1>5. /\ AsAsked(r) /\ Reconciled(r) /\ InScope(r)
      /\ readsAsPolicy(workspace.policies[AuthoritativePolicy])
      /\ inv.trusted_base = origin.commit
      /\ baseNow = Absent \/ readsAsPolicy(baseNow)
      /\ ~deltaNow.weakened
      /\ inv.contract # NotGiven => isTrusted(r.state, inv.contract)
      /\ \A p \in files : readable(p)
      /\ ~r.semantics.error
      /\ \A p \in policyNow.scope_files \cup (files \ {PublicHeader}) :
            ~IsUnsafe(content(p)) /\ ~IsSuppressed(content(p))
  BY DEF Accepts, r
<1>6. /\ payload.checked_scope = policyNow.scope_files /\ payload.arguments = r.arguments
      /\ payload.safety_level = policyNow.safety_level
      /\ payload.policy_path = AuthoritativePolicy
      /\ payload.contracts = r.state.contract_inputs
  BY <1>1, <1>2, <1>5 DEF buildEvidence, AsAsked
<1> HIDE DEF payload
<1>7. /\ again.sources = inSomeOrder(payload.checked_scope)
      /\ again.level = inv.level /\ again.pointer_output_contracts = FALSE
      /\ again.weaker_profile = FALSE /\ again.policy_path = AuthoritativePolicy
      /\ again.base_ref = "origin/main" /\ again.base_policy = FALSE
      /\ again.contract = IF payload.contracts = {} THEN NotGiven
                          ELSE (CHOOSE c \in payload.contracts : TRUE).path
      /\ again.review = NotGiven /\ again.arguments = payload.arguments
      /\ again.environment = inv.environment /\ again.trusted_base = inv.trusted_base
      /\ again.verifier = inv.verifier
  BY <1>6 DEF replayInvocation
<1> HIDE DEF again
<1>8. PICK p : policyNow.scope_files = {p} /\ isNormalized(p)
  <2>1. DOMAIN inv.sources = {1}
    OBVIOUS
  <2>2. policyNow.scope_files = {normalizedRelativePath(inv.sources[1])}
    BY <1>1, <1>2, <1>5, <2>1 DEF InScope, given, scope
  <2>3. \A p \in policyNow.scope_files : isNormalized(p)
    BY <1>2, <1>5, ScopeIsNormalized DEF AsAsked
  <2>. QED BY <2>2, <2>3
<1>9. again.sources = <<p>>
  BY <1>6, <1>7, <1>8, OneInOrder
<1>10. DOMAIN again.sources = {1} /\ Len(again.sources) = 1 /\ again.sources[1] = p
  BY <1>9
<1>11. given(other) = policyNow.scope_files
  BY <1>3, <1>8, <1>10 DEF given, isNormalized
<1>12. r.arguments = inv.arguments /\ other.arguments = r.arguments
  BY <1>1, <1>3, <1>6, <1>7, <1>10, RepeatedOnce
<1>13. /\ isTrusted(other.state, again.contract) \/ again.contract = NotGiven
       /\ inputNow(other.state, again.contract) = inputNow(r.state, inv.contract)
       /\ manifest(again.contract) = manifest(inv.contract)
  <2>1. CASE inv.contract = NotGiven
    BY <1>2, <1>6, <1>7, <2>1 DEF inputNow
  <2>2. CASE inv.contract # NotGiven
    <3> DEFINE path == normalizedRelativePath(inv.contract)
    <3>1. payload.contracts = {trustedInput(r.state, inv.contract)}
      BY <1>2, <1>6, <2>2 DEF inputNow
    <3>2. again.contract = trustedInput(r.state, inv.contract).path
      BY <1>7, <3>1
    <3>3. /\ path # NotGiven /\ isTrusted(r.state, path)
          /\ trustedInput(r.state, path) = trustedInput(r.state, inv.contract)
          /\ manifest(path) = manifest(inv.contract)
          /\ trustedInput(r.state, inv.contract).path = path
      BY <1>2, <1>5, <2>2, PinnedPathNamesIt DEF AsAsked
    <3>4. isTrusted(other.state, path) /\ inputNow(other.state, path) = inputNow(r.state, path)
      BY <1>2, <1>4, <3>3, SamePolicySameTrust
    <3>5. inputNow(r.state, path) = inputNow(r.state, inv.contract)
      BY <2>2, <3>3 DEF inputNow
    <3>. QED BY <3>2, <3>3, <3>4, <3>5
  <2>. QED BY <2>1, <2>2
<1>14. rules(other) = rules(r)
  BY <1>1, <1>2, <1>3, <1>4, <1>7 DEF rules
<1>15. other.semantics = r.semantics
  BY <1>1, <1>3, <1>7, <1>12, <1>13, <1>14
<1>16. other.state.annotation_review_inputs = r.state.annotation_review_inputs
  BY <1>2, <1>4, <1>7 DEF inputNow
<1>17. buildEvidence(other) = buildEvidence(r)
  <2>1. inv.policy_path = AuthoritativePolicy
    BY <1>1, <1>5 DEF AsAsked
  <2>2. /\ other.inv.level = r.inv.level /\ other.inv.verifier = r.inv.verifier
        /\ other.inv.policy_path = r.inv.policy_path
        /\ other.inv.trusted_base = r.inv.trusted_base
    BY <1>1, <1>3, <1>7, <2>1
  <2>3. other.sources = r.sources /\ other.arguments = r.arguments
    BY <1>1, <1>3, <1>12
  <2>4. other.state.contract_inputs = r.state.contract_inputs
    BY <1>2, <1>4, <1>13
  <2>. QED BY <1>2, <1>4, <1>15, <1>16, <2>2, <2>3, <2>4, EvidenceDepends
<1>18. AsAsked(other)
  BY <1>2, <1>3, <1>4, <1>5, <1>7 DEF AsAsked
<1>19. Reconciled(other)
  BY <1>1, <1>2, <1>3, <1>4, <1>5, <1>7 DEF Reconciled
<1>20. InScope(other)
  <2>1. scope(other) = policyNow.scope_files /\ scope(r) = policyNow.scope_files
    BY <1>2, <1>4 DEF scope
  <2>2. argumentErrors(other.arguments, "c11", other.inv)
           = argumentErrors(r.arguments, "c11", r.inv)
    BY <1>1, <1>3, <1>7, <1>12 DEF argumentErrors
  <2>3. other.sources = r.sources
    BY <1>1, <1>3
  <2>. QED BY <1>2, <1>3, <1>4, <1>5, <1>11, <1>12, <2>1, <2>2, <2>3 DEF InScope
<1>21. Accepts(again)
  BY <1>3, <1>5, <1>7, <1>13, <1>15, <1>18, <1>19, <1>20 DEF Accepts, other
<1>. QED BY <1>10, <1>17, <1>21 DEF r, payload, again, other

\* What acceptance means for the steps of a run.
LEMMA AcceptedMeans ==
    ASSUME NEW inv, Accepts(inv)
    PROVE  LET scopeNow == policyNow.scope_files
               files == dependencies(scopeNow)
               arguments == repeated(inv.arguments, Len(inv.sources))
           IN  /\ inv.base_ref = "origin/main" /\ ~inv.base_policy
               /\ inv.policy_path = AuthoritativePolicy /\ inv.trusted_base = origin.commit
               /\ isStrictGeneratedPolicy(policyNow) /\ policyNow.schema # ""
               /\ \A p \in scopeNow : isNormalized(p)
               /\ baseNow = Absent \/ loadPolicyText(baseNow).schema # ""
               /\ ~deltaNow.weakened
               /\ ~inv.weaker_profile
               /\ ~(inv.level = "cand1" /\ ~inv.verifier.supported)
               /\ ~(/\ inv.level = "cand1" /\ inv.pointer_output_contracts
                    /\ policyNow.pointer_output_contracts # "true")
               /\ {normalizedRelativePath(inv.sources[i]) : i \in DOMAIN inv.sources} = scopeNow
               /\ withoutStandard(arguments) = policyNow.frontend_arguments
               /\ argumentErrors(arguments, "c11", inv) = {}
               /\ \A st : st.policy = policyNow =>
                     /\ inv.contract # NotGiven => isTrusted(st, inv.contract)
                     /\ inv.review # NotGiven => isTrusted(st, inv.review)
               /\ \A p \in files : readable(p)
               /\ \A r : r.inv = inv /\ r.state.policy = policyNow =>
                     ~Analysis(rules(r), hashed(files), arguments,
                               manifest(inv.contract), manifest(inv.review)).error
               /\ \A p \in scopeNow \cup (files \ {PublicHeader}) :
                     ~IsUnsafe(content(p)) /\ ~IsSuppressed(content(p))
<1> DEFINE clean == cleanRun(inv)
           files == dependencies(policyNow.scope_files)
           arguments == repeated(inv.arguments, Len(inv.sources))
<1>1. /\ clean.inv = inv /\ clean.state = cleanState(inv) /\ clean.arguments = arguments
      /\ clean.semantics = Analysis(rules(clean), hashed(files), clean.arguments,
                                    manifest(inv.contract), manifest(inv.review))
      /\ clean.state.policy = policyNow
  <2>1. cleanState(inv).policy = policyNow
    BY CleanStateIs
  <2>2. /\ clean.inv = inv /\ clean.state = cleanState(inv) /\ clean.arguments = arguments
        /\ clean.semantics = Analysis(rules(clean), hashed(files), clean.arguments,
                                      manifest(inv.contract), manifest(inv.review))
    BY CleanRunIs
  <2>. QED BY <2>1, <2>2
<1> HIDE DEF clean
<1>2. /\ AsAsked(clean) /\ Reconciled(clean) /\ InScope(clean)
      /\ readsAsPolicy(workspace.policies[AuthoritativePolicy])
      /\ inv.trusted_base = origin.commit
      /\ baseNow = Absent \/ readsAsPolicy(baseNow)
      /\ ~deltaNow.weakened
      /\ inv.contract # NotGiven => isTrusted(clean.state, inv.contract)
      /\ inv.review # NotGiven => isTrusted(clean.state, inv.review)
      /\ \A p \in files : readable(p)
      /\ ~clean.semantics.error
      /\ \A p \in policyNow.scope_files \cup (files \ {PublicHeader}) :
            ~IsUnsafe(content(p)) /\ ~IsSuppressed(content(p))
  BY DEF Accepts, clean
<1>3. /\ inv.base_ref = "origin/main" /\ ~inv.base_policy
      /\ inv.policy_path = AuthoritativePolicy /\ isStrictGeneratedPolicy(policyNow)
      /\ \A p \in policyNow.scope_files : isNormalized(p)
  BY <1>1, <1>2, ScopeIsNormalized DEF AsAsked
<1>4. /\ policyNow.schema # ""
      /\ baseNow = Absent \/ loadPolicyText(baseNow).schema # ""
  BY <1>2 DEF policyNow, loadPolicyText
<1>5. /\ ~inv.weaker_profile
      /\ ~(inv.level = "cand1" /\ ~inv.verifier.supported)
      /\ ~(/\ inv.level = "cand1" /\ inv.pointer_output_contracts
           /\ policyNow.pointer_output_contracts # "true")
  BY <1>1, <1>2 DEF Reconciled
<1>6. /\ {normalizedRelativePath(inv.sources[i]) : i \in DOMAIN inv.sources}
            = policyNow.scope_files
      /\ withoutStandard(arguments) = policyNow.frontend_arguments
      /\ argumentErrors(arguments, "c11", inv) = {}
  BY <1>1, <1>2 DEF InScope, given, scope
<1>7. ASSUME NEW st, st.policy = policyNow
      PROVE  /\ inv.contract # NotGiven => isTrusted(st, inv.contract)
             /\ inv.review # NotGiven => isTrusted(st, inv.review)
  BY <1>1, <1>2, <1>7, SamePolicySameTrust
<1>8. ASSUME NEW r, r.inv = inv, r.state.policy = policyNow
      PROVE  ~Analysis(rules(r), hashed(files), arguments,
                       manifest(inv.contract), manifest(inv.review)).error
  <2>1. rules(r) = rules(clean)
    BY <1>1, <1>8 DEF rules
  <2>. QED BY <1>1, <1>2, <2>1
<1>. QED BY <1>2, <1>3, <1>4, <1>5, <1>6, <1>7, <1>8

\* The policy lets the run through so far, and it came to a verdict if it ended.
Unfailing(r) == ~policyFail(r.state) /\ (r.phase = "ended" => decided(r))

LEMMA NothingToReconcile ==
    ASSUME NEW st, NEW inv,
           ~inv.weaker_profile,
           ~(inv.level = "cand1" /\ ~inv.verifier.supported),
           ~(/\ inv.level = "cand1" /\ inv.pointer_output_contracts
             /\ st.policy.pointer_output_contracts # "true")
    PROVE  reconcile(st, inv) = st
BY DEF reconcile, rejectIf

LEMMA LoadPolicyGoesOn ==
    ASSUME RunOK(run), Accepts(run.inv), LoadPolicy
    PROVE  Unfailing(run')
<1> DEFINE inv == run.inv
           policy == loadPolicyText(workspace.policies[inv.policy_path])
           loaded == [run.state EXCEPT !.policy = policy]
           checked == rejectIf(inv.base_ref # "origin/main" \/ inv.base_policy, "base-authority",
                      rejectIf(inv.policy_path # AuthoritativePolicy, "policy-path",
                      rejectIf(~isStrictGeneratedPolicy(policy), "not-strict", loaded)))
<1>1. run = start(inv) /\ run.state = newState
  <2>1. run = start(run.inv)
    BY DEF RunOK, LoadPolicy
  <2>. QED BY <2>1 DEF start
<1>2. inv.base_ref = "origin/main" /\ ~inv.base_policy /\ inv.policy_path = AuthoritativePolicy
      /\ isStrictGeneratedPolicy(policyNow) /\ policyNow.schema # ""
  BY AcceptedMeans
<1>3. policy = policyNow
  BY <1>2 DEF policyNow
<1>4. checked = loaded
  <2> HIDE DEF policy, loaded
  <2>. QED BY <1>2, <1>3 DEF rejectIf
<1>5. run' = [run EXCEPT !.state = checked, !.phase = "trust"]
  <2>1. run' = IF policy.schema = ""
               THEN afterPolicy([run EXCEPT !.state = reject(@, "policy-unreadable")])
               ELSE IF inv.base_ref # "origin/main" \/ inv.base_policy
               THEN afterPolicy([run EXCEPT !.state = checked])
               ELSE [run EXCEPT !.state = checked, !.phase = "trust"]
    BY DEF LoadPolicy
  <2> HIDE DEF policy, checked
  <2>. QED BY <1>2, <1>3, <2>1
<1>6. ~policyFail(loaded)
  <2> HIDE DEF policy
  <2>. QED BY <1>1 DEF newState, noDelta, policyFail
<1> HIDE DEF loaded, checked
<1>7. run'.state = loaded /\ run'.phase = "trust"
  BY <1>1, <1>4, <1>5 DEF start
<1>. QED BY <1>6, <1>7 DEF Unfailing

LEMMA CompareTrustedBaseGoesOn ==
    ASSUME RunOK(run), UpToDate(run), Accepts(run.inv), Unfailing(run), CompareTrustedBase
    PROVE  Unfailing(run')
<1>1. run = [f \in RunFields |-> run[f]] /\ run.phase = "trust" /\ ~policyFail(run.state)
      /\ run.state.policy = policyNow
  BY Reaching DEF RunOK, UpToDate, Unfailing, CompareTrustedBase
<1>2. run.inv.trusted_base = origin.commit /\ run.inv.base_ref = run.state.policy.base_ref
  BY <1>1, AcceptedMeans DEF isStrictGeneratedPolicy
<1>3. run' = [run EXCEPT !.phase = "base", !.state = run.state]
  BY <1>2 DEF CompareTrustedBase, rejectIf
<1>4. run'.state = run.state /\ run'.phase = "base"
  BY <1>1, <1>3 DEF RunFields
<1>. QED BY <1>1, <1>4 DEF Unfailing

LEMMA CompareWithBaseGoesOn ==
    ASSUME RunOK(run), UpToDate(run), Accepts(run.inv), Unfailing(run), CompareWithBase
    PROVE  Unfailing(run')
<1> DEFINE baseText == origin.policies[run.inv.policy_path]
           before == loadPolicyText(baseText)
           compared ==
               IF baseText = Absent THEN [run.state EXCEPT !.delta = initialPolicy]
               ELSE IF before.schema = "" THEN reject(run.state, "base-policy-unreadable")
               ELSE [run.state EXCEPT !.delta = comparePolicies(before, run.state.policy)]
           counted == [compared EXCEPT !.policy_failed = @ \/ compared.delta.weakened,
                                       !.review_required = @ \/ compared.delta.review_required]
           r == [run EXCEPT !.state = counted]
<1>1. run = [f \in RunFields |-> run[f]] /\ run.phase = "base" /\ ~policyFail(run.state)
      /\ run.state.policy = policyNow /\ StateOK(run.state)
  BY Reaching DEF RunOK, UpToDate, Unfailing, CompareWithBase
<1>2. baseText = baseNow /\ (baseNow = Absent \/ before.schema # "") /\ ~deltaNow.weakened
      /\ policyNow.schema # ""
  BY AcceptedMeans DEF baseNow
<1>3. compared = [run.state EXCEPT !.delta = deltaNow]
  BY <1>1, <1>2 DEF deltaNow, initialPolicy
<1>4. run' = afterPolicy(r)
  BY DEF CompareWithBase
<1>5. /\ compared.delta = deltaNow /\ compared.policy_failed = run.state.policy_failed
      /\ compared.policy = policyNow /\ compared = [f \in StateFields |-> compared[f]]
  <2> HIDE DEF compared
  <2>. QED BY <1>1, <1>3 DEF StateOK, StateFields
<1> HIDE DEF compared
<1>6. counted.policy = policyNow /\ counted.delta = deltaNow
      /\ counted.policy_failed = (run.state.policy_failed \/ deltaNow.weakened)
  BY <1>5 DEF StateFields
<1>7. ~policyFail(counted)
  BY <1>1, <1>2, <1>6 DEF policyFail
<1> HIDE DEF counted
<1>8. r.state = counted /\ r.inv = run.inv /\ r = [f \in RunFields |-> r[f]]
  BY <1>1 DEF RunFields
<1> HIDE DEF r
<1>9. reconcile(r.state, r.inv) = r.state
  BY <1>6, <1>8, AcceptedMeans, NothingToReconcile
<1>10. run' = [r EXCEPT !.state = counted, !.phase = "sources"]
  BY <1>2, <1>4, <1>6, <1>8, <1>9 DEF afterPolicy
<1>11. run'.state = counted /\ run'.phase = "sources"
  BY <1>8, <1>10 DEF RunFields
<1>. QED BY <1>7, <1>11 DEF Unfailing

LEMMA CollectSourcesGoesOn ==
    ASSUME RunOK(run), UpToDate(run), Accepts(run.inv), Unfailing(run),
           DOMAIN run.inv.sources = {1}, CollectSources
    PROVE  Unfailing(run')
<1> DEFINE inv == run.inv
           norm == [i \in DOMAIN inv.sources |-> normalizedRelativePath(inv.sources[i])]
           read == {i \in DOMAIN norm : readable(norm[i])}
           inputs == {norm[i] : i \in read}
           inside == {i \in DOMAIN norm : norm[i] # <<>>}
           duplicate == \E i, j \in read : i # j /\ norm[i] = norm[j]
           outOfScope == duplicate \/ inputs # run.state.policy.scope_files
           arguments == repeated(inv.arguments, Len(inv.sources))
           counted == [run.state EXCEPT !.unsafe_boundaries = unsafeIn(inputs),
                                        !.suppressions = suppressedIn(inputs)]
           argument_errors == argumentErrors(arguments, run.state.policy.frontend_standard, inv)
           differ == withoutStandard(arguments) # run.state.policy.frontend_arguments
           errors ==
               (IF inside # DOMAIN norm THEN {"source-outside"} ELSE {})
               \cup (IF read # inside THEN {"source-unreadable"} ELSE {})
               \cup (IF duplicate THEN {"source-duplicate"} ELSE {})
               \cup (IF outOfScope THEN {"scope-differs"} ELSE {})
               \cup argument_errors
               \cup (IF differ THEN {"arguments-differ"} ELSE {})
           checked == rejectAll(errors, counted)
           st == IF outOfScope THEN weaken("invocation-scope-change", checked) ELSE checked
<1>1. run = [f \in RunFields |-> run[f]] /\ run.phase = "sources" /\ ~policyFail(run.state)
      /\ run.state.policy = policyNow /\ StateOK(run.state)
  BY Reaching DEF RunOK, UpToDate, Unfailing, CollectSources
<1>2. run' = [run EXCEPT !.phase = "trusted_inputs", !.sources = hashed(inputs),
                         !.arguments = arguments, !.state = st]
  BY DEF CollectSources
<1>3. /\ {norm[i] : i \in DOMAIN norm} = policyNow.scope_files
      /\ \A p \in policyNow.scope_files : isNormalized(p) /\ readable(p)
  <2>1. /\ {normalizedRelativePath(inv.sources[i]) : i \in DOMAIN inv.sources}
              = policyNow.scope_files
        /\ \A p \in policyNow.scope_files : isNormalized(p)
        /\ \A p \in dependencies(policyNow.scope_files) : readable(p)
    BY AcceptedMeans
  <2>. QED BY <2>1 DEF dependencies
<1>4. \A i \in DOMAIN norm : norm[i] # <<>> /\ readable(norm[i])
  <2> HIDE DEF norm
  <2>. QED BY <1>3 DEF isNormalized
<1>5. read = DOMAIN norm /\ inside = DOMAIN norm /\ DOMAIN norm = {1}
  BY <1>4
<1>6. ~duplicate /\ ~outOfScope
  BY <1>1, <1>3, <1>5
<1>7. argument_errors = {} /\ ~differ
  BY <1>1, AcceptedMeans DEF isStrictGeneratedPolicy
<1>8. errors = {}
  <2> HIDE DEF inside, norm, read, duplicate, outOfScope, argument_errors, differ
  <2>. QED BY <1>5, <1>6, <1>7
<1>9. counted.policy_failed = run.state.policy_failed /\ counted.delta = run.state.delta
      /\ counted = [f \in StateFields |-> counted[f]]
  <2> HIDE DEF inputs
  <2>. QED BY <1>1 DEF StateOK, StateFields
<1> HIDE DEF counted, errors, outOfScope, inputs, arguments
<1>10. st.policy_failed = counted.policy_failed /\ st.delta = counted.delta
  <2>1. st = [counted EXCEPT !.policy_failed = @ \/ errors # {},
                             !.policy_errors = @ \cup errors]
    BY <1>6 DEF rejectAll
  <2> HIDE DEF st
  <2>2. st.delta = counted.delta /\ st.policy_failed = (counted.policy_failed \/ errors # {})
    BY <1>9, <2>1 DEF StateFields
  <2>. QED BY <1>1, <1>8, <1>9, <2>2 DEF StateOK
<1> HIDE DEF st
<1>11. run'.state = st /\ run'.phase = "trusted_inputs"
  BY <1>1, <1>2 DEF RunFields
<1>. QED BY <1>1, <1>9, <1>10, <1>11 DEF Unfailing, policyFail

LEMMA ValidateTrustedInputsGoesOn ==
    ASSUME RunOK(run), UpToDate(run), Accepts(run.inv), Unfailing(run), ValidateTrustedInputs
    PROVE  Unfailing(run')
<1> DEFINE inv == run.inv
           kept(option) == IF option # NotGiven /\ isTrusted(run.state, option)
                           THEN option ELSE NotGiven
           first == validateAgentContract(run.state, inv.contract)
           st == validateAnnotationReview(first, inv.review)
<1>1. run = [f \in RunFields |-> run[f]] /\ run.phase = "trusted_inputs"
      /\ ~policyFail(run.state) /\ run.state.policy = policyNow /\ StateOK(run.state)
  BY Reaching DEF RunOK, UpToDate, Unfailing, ValidateTrustedInputs
<1>2. run' = [run EXCEPT !.phase = "analyse", !.state = st,
                         !.contract = kept(inv.contract), !.review = kept(inv.review)]
  BY DEF ValidateTrustedInputs
<1>3. inv.contract # NotGiven => isTrusted(run.state, inv.contract)
  BY <1>1, AcceptedMeans
<1>4. /\ first = [f \in StateFields |-> first[f]] /\ first.policy = policyNow
      /\ first.policy_failed = run.state.policy_failed /\ first.delta = run.state.delta
  BY <1>1, <1>3 DEF validateAgentContract, StateOK, StateFields
<1> HIDE DEF first
<1>5. inv.review # NotGiven => isTrusted(first, inv.review)
  BY <1>4, AcceptedMeans
<1>6. st.policy_failed = run.state.policy_failed /\ st.delta = run.state.delta
  BY <1>4, <1>5 DEF validateAnnotationReview, StateFields
<1> HIDE DEF st
<1>7. run'.state = st /\ run'.phase = "analyse"
  BY <1>1, <1>2 DEF RunFields
<1>. QED BY <1>1, <1>6, <1>7 DEF Unfailing, policyFail

LEMMA AnalyseGoesOn ==
    ASSUME RunOK(run), Kept(run), UpToDate(run), Accepts(run.inv), Unfailing(run), Analyse
    PROVE  Unfailing(run')
<1> DEFINE inv == run.inv
           sourcesGiven == {normalizedRelativePath(inv.sources[i]) : i \in DOMAIN inv.sources}
           sources == sourcesGiven \ {<<>>}
           files == hashed(dependencies(sources))
           semantics == Analysis(rules(run), files, run.arguments,
                                 manifest(run.contract), manifest(run.review))
           done == [run EXCEPT !.phase = "report", !.semantics = semantics, !.analysed = files]
<1>1. run = [f \in RunFields |-> run[f]] /\ run.phase = "analyse" /\ ~policyFail(run.state)
      /\ run.state.policy = policyNow
  BY Reaching DEF RunOK, UpToDate, Unfailing, Analyse
<1>2. InScope(run) /\ Trusting(run)
  BY <1>1, Reaching DEF Kept
<1>3. sourcesGiven = policyNow.scope_files /\ (\A p \in policyNow.scope_files : isNormalized(p))
      /\ \A p \in dependencies(policyNow.scope_files) : readable(p)
  BY AcceptedMeans
<1>4. sources = policyNow.scope_files /\ <<>> \notin sourcesGiven
  <2> HIDE DEF sourcesGiven
  <2>. QED BY <1>3 DEF isNormalized
<1>5. run.contract = inv.contract /\ run.review = inv.review
      /\ run.arguments = repeated(inv.arguments, Len(inv.sources))
  BY <1>2 DEF InScope, Trusting
<1>6. ~semantics.error
  <2>1. files = hashed(dependencies(policyNow.scope_files))
    BY <1>4
  <2>2. ~Analysis(rules(run), hashed(dependencies(policyNow.scope_files)),
                  repeated(inv.arguments, Len(inv.sources)),
                  manifest(inv.contract), manifest(inv.review)).error
    BY <1>1, AcceptedMeans
  <2>. QED BY <1>5, <2>1, <2>2
<1>7. (\A p \in sources : readable(p)) /\ (\A p \in dependencies(sources) : readable(p))
  BY <1>3, <1>4 DEF dependencies
<1>8. \/ run' = done
      \/ /\ \/ <<>> \in sourcesGiven
            \/ \E p \in sources : ~readable(p)
            \/ \E p \in dependencies(sources) : ~readable(p)
            \/ semantics.error
         /\ run' = ended(2, "error")
  BY DEF Analyse
<1> HIDE DEF sources, files, semantics, sourcesGiven
<1>9. run' = done
  BY <1>4, <1>6, <1>7, <1>8
<1>10. run'.state = run.state /\ run'.phase = "report"
  BY <1>1, <1>9 DEF RunFields
<1>. QED BY <1>1, <1>10 DEF Unfailing

LEMMA ReportGoesOn ==
    ASSUME RunOK(run), Kept(run), UpToDate(run), Accepts(run.inv), Unfailing(run), Report
    PROVE  Unfailing(run')
<1> DEFINE files == dependencies(scope(run))
           read == {p \in included(run) : readable(p)}
           marked == read \ {PublicHeader}
           bound == addIncludedFiles(run)
           counted == [run.state EXCEPT !.unsafe_boundaries = @ \cup unsafeIn(marked),
                                        !.suppressions = @ \cup suppressedIn(marked)]
           final == [bound EXCEPT !.state = addDetectedPolicyViolations(@)]
<1>1. run = [f \in RunFields |-> run[f]] /\ run.phase = "report" /\ ~policyFail(run.state)
      /\ run.state.policy = policyNow /\ StateOK(run.state)
      /\ HoldsSources(run) /\ HoldsAnalysis(run)
  BY Reaching DEF RunOK, UpToDate, Unfailing, Report
<1>2. scope(run) = policyNow.scope_files
  BY <1>1 DEF scope
<1>3. run.state.unsafe_boundaries = {} /\ run.state.suppressions = {}
  <2>1. \A p \in scope(run) : ~IsUnsafe(content(p)) /\ ~IsSuppressed(content(p))
    BY <1>2, AcceptedMeans
  <2>2. run.state.unsafe_boundaries = unsafeIn(scope(run))
        /\ run.state.suppressions = suppressedIn(scope(run))
    BY <1>1 DEF HoldsSources
  <2>. QED BY <2>1, <2>2 DEF unsafeIn, suppressedIn
<1>4. included(run) \subseteq files /\ \A p \in files : readable(p)
  <2>1. run.analysed = hashed(files) /\ \A p \in files : readable(p)
    BY <1>1 DEF HoldsAnalysis
  <2>2. {f.path : f \in hashed(files)} = files
    <3> HIDE DEF files
    <3>. QED BY HashedPaths
  <2>. QED BY <2>1, <2>2 DEF included
<1>5. read = included(run)
  BY <1>4
<1>6. unsafeIn(marked) = {} /\ suppressedIn(marked) = {}
  <2>1. \A p \in files \ {PublicHeader} : ~IsUnsafe(content(p)) /\ ~IsSuppressed(content(p))
    BY <1>2, AcceptedMeans
  <2>2. marked \subseteq files \ {PublicHeader}
    BY <1>4, <1>5
  <2>. QED BY <2>1, <2>2 DEF unsafeIn, suppressedIn
<1>7. bound = [run EXCEPT !.sources = @ \cup hashed(read), !.state = counted]
  BY <1>5 DEF addIncludedFiles, rejectIf
<1>8. /\ counted.unsafe_boundaries = {} /\ counted.suppressions = {}
      /\ counted.policy_failed = run.state.policy_failed /\ counted.delta = run.state.delta
  <2> HIDE DEF marked
  <2>. QED BY <1>1, <1>3, <1>6 DEF StateOK, StateFields
<1> HIDE DEF counted, read, bound
<1>9. bound.state = counted /\ bound = [f \in RunFields |-> bound[f]]
  BY <1>1, <1>7 DEF RunFields
<1>10. addDetectedPolicyViolations(counted) = counted
  BY <1>8 DEF addDetectedPolicyViolations, violation
<1>11. final.state = counted
  BY <1>9, <1>10 DEF RunFields
<1>12. run'.phase = "ended" /\ run'.outcome = verdictOf(run')
  BY ReportWrites
<1>13. run'.state = final.state
  <2>1. final = [f \in RunFields |-> final[f]]
    BY <1>9 DEF RunFields
  <2>2. PICK code, result : run' = [final EXCEPT !.phase = "ended",
                                          !.outcome = [exit |-> code, result |-> result]]
    BY DEF Report, bound
  <2> HIDE DEF final
  <2>. QED BY <2>1, <2>2 DEF RunFields
<1>14. decided(run')
  BY <1>12 DEF decided, verdictOf, finalResult, semanticResult, Aborted
<1>. QED BY <1>1, <1>8, <1>11, <1>13, <1>14 DEF Unfailing, policyFail

\* A run the repository accepts comes to its verdict, step by step.
LEMMA AcceptedGoesOn ==
    ASSUME RunOK(run), Kept(run), UpToDate(run), Accepts(run.inv), Unfailing(run),
           DOMAIN run.inv.sources = {1}, CheckStep
    PROVE  Unfailing(run')
BY LoadPolicyGoesOn, CompareTrustedBaseGoesOn, CompareWithBaseGoesOn, CollectSourcesGoesOn,
   ValidateTrustedInputsGoesOn, AnalyseGoesOn, ReportGoesOn DEF CheckStep

-----------------------------------------------------------------------------
(* Evidence as it was written *)

sealed(payload) == [payload |-> payload, integrity_sha256 |-> payload]

\* Only a command line of its own, or a replay, is ever running, and evidence
\* that was written before a verification began was made before it.
RunnerInv ==
    /\ checking => verification.phase \in {"idle", "replay"}
    /\ verification.phase = "idle" /\ run.phase # "idle" => run.inv \in Invocations
    /\ made # None =>
          /\ made.inv \in Invocations /\ made.at \in 0 .. changes
          /\ verification.phase # "idle" => made.at <= started.verification

\* The verification has what it takes to repeat the run that wrote the evidence.
Repeatable ==
    /\ verification.session = [verifier |-> made.inv.verifier,
                               trusted_base |-> made.inv.trusted_base,
                               environment |-> made.inv.environment]
    /\ verification.payload.result # "fail-policy"
    /\ Len(made.inv.sources) = 1
    /\ made.inv.level = verification.payload.safety_level
    /\ made.inv.review = NotGiven

\* The evidence file is what a run that is accepted now writes now.
AsWritten ==
    evidence[Evidence].payload.result # "fail-policy" =>
        /\ Accepts(made.inv)
        /\ evidence[Evidence] = sealed(buildEvidence(cleanRun(made.inv)))

\* The verification follows what the file says, and its replay does not fail.
Following ==
    /\ verification.phase # "idle" => verification.payload = evidence[Evidence].payload
    /\ Repeatable /\ verification.phase = "replay" =>
          /\ quiet /\ Unfailing(run)
          /\ run.phase = "ended" => evidence[Replay] = sealed(buildEvidence(cleanRun(run.inv)))
    /\ Repeatable /\ verification.phase = "verdict" => verification.status = "valid"

\* While nothing has changed since the run that wrote the evidence began.
HonestInv == made # None /\ made.at = changes => AsWritten /\ Following

\* What is accepted, and what is written then, depends on the repository alone.
LEMMA SameAcceptance ==
    ASSUME UNCHANGED <<workspace, origin>>
    PROVE  /\ Accepts(made'.inv) => Accepts(made.inv)'
           /\ buildEvidence(cleanRun(made'.inv)) = buildEvidence(cleanRun(made.inv))'
<1>1. cleanRun(made.inv)' = cleanRun(made'.inv)
  BY DEF cleanRun, cleanState, policyNow, baseNow, deltaNow, inputNow, trustedInput, manifest,
         hashed, dependencies, content
<1>2. buildEvidence(cleanRun(made.inv))' = buildEvidence(cleanRun(made'.inv))
  BY <1>1 DEF buildEvidence
<1>3. policyNow' = policyNow /\ baseNow' = baseNow /\ deltaNow' = deltaNow
  BY DEF policyNow, baseNow, deltaNow
<1>4. dependencies(policyNow.scope_files)' = dependencies(policyNow.scope_files)
  BY <1>3 DEF dependencies, content
<1>5. Accepts(made'.inv) => Accepts(made.inv)'
  BY <1>1, <1>3, <1>4 DEF Accepts, isTrusted, readable, content
<1>. QED BY <1>2, <1>5

LEMMA HonestInit == Init => RunnerInv /\ HonestInv
BY DEF Init, RunnerInv, HonestInv, checking, idle, start, notVerifying

\* Evidence as it was written is bound to the repository it was written in.
LEMMA WrittenIsBound ==
    ASSUME NEW inv, Accepts(inv), NEW session, session.verifier = inv.verifier,
           session.trusted_base = inv.trusted_base
    PROVE  LET payload == buildEvidence(cleanRun(inv))
           IN  /\ bindingStatus(sealed(payload), session) = "bound"
               /\ inputStatus(payload) = "bound"
<1> DEFINE r == cleanRun(inv)
           payload == buildEvidence(r)
           file == sealed(payload)
           files == dependencies(policyNow.scope_files)
           text == workspace.policies[AuthoritativePolicy]
<1>1. /\ r.inv = inv /\ r.state = cleanState(inv) /\ r.sources = hashed(files)
      /\ r.arguments = repeated(inv.arguments, Len(inv.sources))
  BY CleanRunIs
<1>2. /\ r.state.policy = policyNow
      /\ r.state.contract_inputs = inputNow(r.state, inv.contract)
      /\ r.state.annotation_review_inputs = inputNow(r.state, inv.review)
  BY CleanRunState
<1> HIDE DEF r
<1>3. /\ inv.policy_path = AuthoritativePolicy /\ inv.trusted_base = origin.commit
      /\ isStrictGeneratedPolicy(policyNow)
      /\ withoutStandard(r.arguments) = policyNow.frontend_arguments
      /\ inv.contract # NotGiven => isTrusted(r.state, inv.contract)
      /\ inv.review # NotGiven => isTrusted(r.state, inv.review)
      /\ \A p \in files : readable(p)
  BY <1>1, <1>2, AcceptedMeans
<1>4. readsAsPolicy(text) /\ policyNow = loadPolicyText(text)
  BY DEF Accepts, policyNow
<1>5. text # Absent /\ policyNow.sha256 = text
  BY <1>4 DEF readsAsPolicy, loadPolicyText
<1>6. /\ payload.verifier = inv.verifier /\ payload.commit = workspace.head
      /\ payload.files = hashed(files) /\ payload.trusted_base_sha = inv.trusted_base
      /\ payload.safety_level = policyNow.safety_level
      /\ payload.policy_path = AuthoritativePolicy /\ payload.effective_policy = text
      /\ payload.contracts = inputNow(r.state, inv.contract)
      /\ payload.annotation_reviews = inputNow(r.state, inv.review)
      /\ payload.checked_scope = policyNow.scope_files
      /\ payload.arguments = r.arguments
  BY <1>1, <1>2, <1>3, <1>5 DEF buildEvidence
<1>7. payload.result = "pass" =>
         payload.semantic_result = "pass" /\ payload.policy_result = "pass" /\ ~payload.weakened
  BY DEF buildEvidence, finalResult, semanticResult, policyResult, canEmitCand1Pass
<1> HIDE DEF payload
<1>8. \A f \in payload.files : readable(f.path) /\ content(f.path) = f.sha256
  BY <1>3, <1>6 DEF hashed
<1>9. payload.safety_level \in {"p0-temporal-lifecycle", "cand1"}
  BY <1>3, <1>6 DEF isStrictGeneratedPolicy
<1>10. file.payload = payload /\ file.integrity_sha256 = payload
  BY DEF sealed
<1> HIDE DEF file
<1>11. bindingStatus(file, session) = "bound"
  BY <1>3, <1>6, <1>7, <1>8, <1>9, <1>10 DEF bindingStatus
<1>12. ASSUME NEW option, option # NotGiven => isTrusted(r.state, option)
       PROVE  /\ \A i \in inputNow(r.state, option) : readable(i.path) /\ content(i.path) = i.sha256
              /\ Cardinality(inputNow(r.state, option)) <= 1
  <2>1. CASE option = NotGiven
    BY <2>1, FS_EmptySet DEF inputNow
  <2>2. CASE option # NotGiven
    <3> DEFINE i == trustedInput(r.state, option)
    <3>1. inputNow(r.state, option) = {i}
      BY <2>2 DEF inputNow
    <3>2. readable(i.path) /\ content(i.path) = i.sha256
      BY <1>12, <2>2 DEF trustedInput, isTrusted
    <3> HIDE DEF i
    <3>3. Cardinality({i}) = 1
      BY FS_Singleton
    <3>. QED BY <3>1, <3>2, <3>3
  <2>. QED BY <2>1, <2>2
<1>13. /\ \A i \in payload.contracts : readable(i.path) /\ content(i.path) = i.sha256
       /\ \A i \in payload.annotation_reviews : readable(i.path) /\ content(i.path) = i.sha256
       /\ ~(Cardinality(payload.contracts) > 1)
  <2>1. Cardinality(payload.contracts) \in Nat
    <3>1. payload.contracts = {} \/ payload.contracts = {trustedInput(r.state, inv.contract)}
      BY <1>6 DEF inputNow
    <3>2. Cardinality({trustedInput(r.state, inv.contract)}) = 1 /\ Cardinality({}) = 0
      BY FS_EmptySet, FS_Singleton
    <3>. QED BY <3>1, <3>2
  <2>. QED BY <1>3, <1>6, <1>12, <2>1
<1>14. payload.checked_scope # {}
  BY <1>3, <1>6 DEF isStrictGeneratedPolicy
<1>15. inputStatus(payload) = "bound"
  BY <1>3, <1>4, <1>5, <1>6, <1>13, <1>14 DEF inputStatus
<1>. QED BY <1>11, <1>15 DEF file, payload, r

\* Of the steps of a run, the last one alone decides.
LEMMA ReportDecides ==
    ASSUME RunOK(run), CheckStep, decided(run')
    PROVE  Report
<1>1. run = [f \in RunFields |-> run[f]] /\ StateOK(run.state) /\ (run.phase # "ended" => run.outcome = None)
  BY DEF RunOK
<1>2. ASSUME NEW st, run' = afterPolicy([run EXCEPT !.state = st]) PROVE FALSE
  <2> DEFINE r == [run EXCEPT !.state = st]
  <2>1. afterPolicy(r).phase = "sources" \/ afterPolicy(r).outcome.result = "policy-error"
    <3>1. r = [f \in RunFields |-> r[f]]
      BY <1>1 DEF RunFields
    <3> HIDE DEF r
    <3>. QED BY <3>1 DEF afterPolicy, RunFields
  <2>. QED BY <1>2, <2>1 DEF decided, Aborted
<1>3. CASE LoadPolicy
  BY <1>1, <1>2, <1>3 DEF LoadPolicy, RunFields, decided
<1>4. CASE CompareTrustedBase
  BY <1>1, <1>2, <1>4 DEF CompareTrustedBase, RunFields, decided
<1>5. CASE CompareWithBase
  BY <1>2, <1>5 DEF CompareWithBase
<1>6. CASE CollectSources
  BY <1>1, <1>6 DEF CollectSources, RunFields, decided
<1>7. CASE ValidateTrustedInputs
  BY <1>1, <1>7 DEF ValidateTrustedInputs, RunFields, decided
<1>8. CASE Analyse
  <2> DEFINE sources == {normalizedRelativePath(run.inv.sources[i]) : i \in DOMAIN run.inv.sources}
                        \ {<<>>}
             files == hashed(dependencies(sources))
             semantics == Analysis(rules(run), files, run.arguments,
                                   manifest(run.contract), manifest(run.review))
             done == [run EXCEPT !.phase = "report", !.semantics = semantics, !.analysed = files]
  <2>1. run' = done \/ run' = ended(2, "error")
    BY <1>8 DEF Analyse
  <2> HIDE DEF files, semantics
  <2>2. done.phase = "report"
    BY <1>1 DEF RunFields
  <2>3. ended(2, "error").outcome.result = "error"
    BY <1>1 DEF ended, RunFields
  <2> HIDE DEF done
  <2>. QED BY <2>1, <2>2, <2>3 DEF decided, Aborted
<1>. QED BY <1>3, <1>4, <1>5, <1>6, <1>7, <1>8 DEF CheckStep

\* The replay of evidence as it was written repeats it.
LEMMA ReplayOfWritten ==
    ASSUME RunnerInv, made # None, AsWritten, Repeatable,
           verification.payload = evidence[Evidence].payload
    PROVE  LET payload == verification.payload
               again == replayInvocation(payload, verification.session)
           IN  /\ bindingStatus(evidence[Evidence], verification.session) = "bound"
               /\ inputStatus(payload) = "bound"
               /\ Accepts(again) /\ DOMAIN again.sources = {1}
               /\ buildEvidence(cleanRun(again)) = payload
<1> DEFINE inv == made.inv
           session == verification.session
           payload == buildEvidence(cleanRun(inv))
<1>1. Accepts(inv) /\ evidence[Evidence] = sealed(payload)
  BY DEF AsWritten, Repeatable
<1>2. verification.payload = payload
  BY <1>1 DEF sealed
<1>3. /\ session = [verifier |-> inv.verifier, trusted_base |-> inv.trusted_base,
                    environment |-> inv.environment]
      /\ Len(inv.sources) = 1 /\ inv.review = NotGiven
      /\ inv.level = verification.payload.safety_level
  BY DEF Repeatable
<1>4. inv.sources \in Seq(elements(inv.sources)) /\ inv.arguments \in Seq(elements(inv.arguments))
  BY InvocationAssumption DEF RunnerInv
<1>5. payload.safety_level = policyNow.safety_level
  <2>1. cleanRun(inv).state.policy = policyNow
    <3>1. cleanRun(inv).state = cleanState(inv)
      BY CleanRunIs
    <3>. QED BY <3>1, CleanStateIs
  <2>. QED BY <2>1 DEF buildEvidence
<1> HIDE DEF payload, inv, session
<1>6. session.verifier = inv.verifier /\ session.trusted_base = inv.trusted_base
  BY <1>3
<1>7. bindingStatus(evidence[Evidence], session) = "bound" /\ inputStatus(payload) = "bound"
  BY <1>1, <1>6, WrittenIsBound DEF payload
<1>8. LET again == replayInvocation(payload, session)
      IN  /\ Accepts(again) /\ DOMAIN again.sources = {1}
          /\ buildEvidence(cleanRun(again)) = payload
  BY <1>1, <1>2, <1>3, <1>4, <1>5, ReplayRepeatsIt DEF payload
<1>. QED BY <1>2, <1>7, <1>8 DEF session

LEMMA RunnerNext == TypeInv /\ VerificationInv /\ RunnerInv /\ [Next]_vars => RunnerInv'
<1>. SUFFICES ASSUME TypeInv, VerificationInv, RunnerInv, [Next]_vars PROVE RunnerInv'
  OBVIOUS
<1>1. CASE Check
  <2>1. PICK inv \in Invocations : StartCheck(inv)
    BY <1>1 DEF Check
  <2>2. run'.inv = inv
    BY <2>1 DEF StartCheck, start
  <2>3. verification'.phase = "idle" /\ made' = made /\ changes' = changes
    BY <1>1 DEF Check, notVerifying
  <2>. QED BY <2>2, <2>3 DEF RunnerInv
<1>2. CASE Checking
  <2>1. UNCHANGED <<verification, changes, started>> /\ CheckStep
    BY <1>2 DEF Checking
  <2>2. run'.inv = run.inv /\ run'.phase # "idle" /\ checking
    BY <2>1, CheckStepKeeps DEF TypeInv
  <2>3. verification.phase = "idle" => run.inv \in Invocations
    BY <2>2 DEF RunnerInv, checking
  <2>4. CASE made' = made
    BY <2>1, <2>2, <2>3, <2>4 DEF RunnerInv, checking
  <2>5. CASE made' = [inv |-> run.inv, at |-> started.run] /\ run.inv.emit = Evidence
    <3>1. verification.phase = "idle"
      <4>1. verification.phase # "replay"
        BY <2>5 DEF VerificationInv, replayInvocation, Evidence, Replay
      <4>. QED BY <2>2, <4>1 DEF RunnerInv
    <3>2. started.run \in 0 .. changes
      BY DEF TypeInv, TypeOK
    <3>. QED BY <2>1, <2>2, <2>3, <2>5, <3>1, <3>2 DEF RunnerInv
  <2>. QED BY <1>2, <2>4, <2>5 DEF Checking
<1>3. CASE Verify
  <2>1. run' = idle /\ changes' = changes /\ made' = made
        /\ started' = [started EXCEPT !.verification = changes]
    BY <1>3 DEF Verify
  <2>2. started'.verification = changes
    BY <2>1 DEF TypeInv, Shapes
  <2>3. run'.phase = "idle" /\ ~checking'
    BY <2>1 DEF idle, checking
  <2>4. changes \in Nat
    BY ChangesAssumption DEF TypeInv, TypeOK
  <2>. QED BY <2>1, <2>2, <2>3, <2>4 DEF RunnerInv
<1>4. CASE CompareInputs
  <2> DEFINE status == inputStatus(verification.payload)
  <2>1. verification.phase = "inputs" /\ changes' = changes /\ made' = made
    BY <1>4 DEF CompareInputs
  <2>2. \/ /\ verification' = [verification EXCEPT !.phase = "verdict", !.status = status]
           /\ UNCHANGED <<run, started>>
        \/ /\ verification' = [verification EXCEPT !.phase = "replay"]
           /\ started' = [started EXCEPT !.run = changes]
    BY <1>4 DEF CompareInputs, verdict
  <2> HIDE DEF status
  <2>3. started'.verification = started.verification
    BY <2>2 DEF TypeInv, Shapes
  <2>4. "phase" \in DOMAIN verification
    BY DEF TypeInv, Shapes
  <2>6. verification'.phase = "replay" \/ run' = run
    BY <2>2, <2>4
  <2>7. verification'.phase \in {"replay", "verdict"}
    BY <2>2, <2>4
  <2>5. ~checking
    BY <2>1 DEF RunnerInv
  <2>. QED BY <2>1, <2>3, <2>5, <2>6, <2>7 DEF RunnerInv, checking
<1>5. CASE CompareReplay
  <2>1. /\ verification.phase = "replay" /\ run.phase = "ended"
        /\ UNCHANGED <<run, changes, started, made>>
    BY <1>5 DEF CompareReplay, history
  <2>2. verification'.phase = "verdict"
    BY <1>5 DEF CompareReplay, verdict, TypeInv, Shapes
  <2>. QED BY <2>1, <2>2 DEF RunnerInv, checking
<1>6. ASSUME change PROVE RunnerInv'
  <2>1. UNCHANGED <<run, verification, started, made>> /\ changes' = changes + 1
    BY <1>6 DEF change
  <2>2. changes \in Nat
    BY ChangesAssumption DEF TypeInv, TypeOK
  <2>. QED BY <2>1, <2>2 DEF RunnerInv, checking
<1>7. CASE EditFile \/ EditPolicy \/ Commit \/ EditEvidence
           \/ MergeByPolicyDiff \/ MergeByEvidence \/ MergeByReview
  BY <1>6, <1>7 DEF EditFile, EditPolicy, Commit, EditEvidence, MergeByPolicyDiff,
        MergeByEvidence, MergeByReview, merge
<1>8. CASE UNCHANGED vars
  BY <1>8 DEF vars, RunnerInv, checking
<1>. QED BY <1>1, <1>2, <1>3, <1>4, <1>5, <1>7, <1>8 DEF Next

\* What a run writes into the evidence file is evidence as it was written.
LEMMA ReportIsWritten ==
    ASSUME TypeInv, RunInv, quiet, Report, run.inv.emit = Evidence, made'.inv = run.inv
    PROVE  AsWritten'
<1>1. run'.inv = run.inv /\ run'.outcome = verdictOf(run') /\ run'.phase = "ended"
      /\ evidence' = [evidence EXCEPT ![Evidence] = sealed(buildEvidence(run'))]
  BY ReportWrites, InvocationAssumption DEF TypeInv, sealed
<1>2. evidence'[Evidence] = sealed(buildEvidence(run'))
  BY <1>1 DEF TypeInv, TypeOK
<1>3. RunOK(run') /\ Kept(run') /\ UpToDate(run')
  BY CheckStepOK DEF TypeInv, RunInv, CheckStep
<1>4. SUFFICES ASSUME evidence'[Evidence].payload.result # "fail-policy"
               PROVE  /\ Accepts(made.inv)'
                      /\ evidence'[Evidence] = sealed(buildEvidence(cleanRun(made.inv)))'
  BY DEF AsWritten
<1>5. ~policyFail(run'.state)
  BY <1>2, <1>4 DEF sealed, buildEvidence, finalResult
<1>6. decided(run')
  BY <1>1 DEF decided, verdictOf, finalResult, semanticResult, Aborted
<1>7. Accepts(made'.inv) /\ buildEvidence(run') = buildEvidence(cleanRun(made'.inv))
  BY <1>1, <1>3, <1>5, <1>6, DecidedRun
<1>8. UNCHANGED <<workspace, origin>>
  BY DEF Report
<1>. QED BY <1>2, <1>7, <1>8, SameAcceptance DEF sealed

\* A step that leaves the repository, the evidence and its run alone.
LEMMA StillAsWritten ==
    ASSUME AsWritten, UNCHANGED <<workspace, origin, made>>, evidence'[Evidence] = evidence[Evidence]
    PROVE  AsWritten'
<1>. SUFFICES ASSUME evidence[Evidence].payload.result # "fail-policy"
              PROVE  /\ Accepts(made.inv)'
                     /\ evidence'[Evidence] = sealed(buildEvidence(cleanRun(made.inv)))'
  BY DEF AsWritten
<1>1. Accepts(made.inv) /\ evidence[Evidence] = sealed(buildEvidence(cleanRun(made.inv)))
  BY DEF AsWritten
<1>2. made'.inv = made.inv
  OBVIOUS
<1>3. Accepts(made'.inv) /\ evidence'[Evidence] = sealed(buildEvidence(cleanRun(made'.inv)))
  BY <1>1, <1>2
<1>. QED BY <1>3, SameAcceptance DEF sealed

\* A step of the replay of evidence as it was written.
LEMMA ReplayStepFollows ==
    ASSUME TypeInv, RunInv, VerificationInv, RunnerInv, made # None, AsWritten, Following,
           Checking, verification.phase = "replay", Repeatable
    PROVE  /\ quiet' /\ Unfailing(run')
           /\ run'.phase = "ended" =>
                 evidence'[Replay] = sealed(buildEvidence(cleanRun(run'.inv)))
<1> DEFINE again == replayInvocation(verification.payload, verification.session)
<1>1. quiet /\ Unfailing(run) /\ verification.payload = evidence[Evidence].payload
  BY DEF Following
<1>2. CheckStep /\ UNCHANGED <<changes, started>>
  BY DEF Checking
<1>3. run.inv = again
  BY DEF VerificationInv
<1>4. Accepts(again) /\ DOMAIN again.sources = {1}
  BY <1>1, ReplayOfWritten
<1> HIDE DEF again
<1>5. RunOK(run) /\ Kept(run) /\ UpToDate(run)
  BY <1>1 DEF TypeInv, RunInv
<1>6. Unfailing(run')
  BY <1>1, <1>2, <1>3, <1>4, <1>5, AcceptedGoesOn
<1>7. RunOK(run') /\ Kept(run') /\ UpToDate(run')
  BY <1>2, <1>5, CheckStepOK
<1>8. ASSUME run'.phase = "ended"
      PROVE  evidence'[Replay] = sealed(buildEvidence(cleanRun(run'.inv)))
  <2>1. decided(run') /\ ~policyFail(run'.state)
    BY <1>6, <1>8 DEF Unfailing
  <2>2. Report
    BY <1>2, <1>5, <2>1, ReportDecides
  <2>3. run.inv.emit = Replay
    BY <1>3 DEF again, replayInvocation
  <2>4. evidence' = [evidence EXCEPT ![Replay] = sealed(buildEvidence(run'))]
    BY <1>5, <2>2, <2>3, ReportWrites, InvocationAssumption DEF sealed
  <2>5. evidence'[Replay] = sealed(buildEvidence(run'))
    BY <2>4 DEF TypeInv, TypeOK
  <2>6. buildEvidence(run') = buildEvidence(cleanRun(run'.inv))
    BY <1>7, <2>1, DecidedRun
  <2>. QED BY <2>5, <2>6
<1>9. quiet'
  BY <1>1, <1>2 DEF quiet
<1>. QED BY <1>6, <1>8, <1>9

LEMMA SameReplay ==
    ASSUME UNCHANGED <<workspace, origin>>
    PROVE  buildEvidence(cleanRun(run'.inv)) = buildEvidence(cleanRun(run.inv))'
<1>1. cleanRun(run.inv)' = cleanRun(run'.inv)
  BY DEF cleanRun, cleanState, policyNow, baseNow, deltaNow, inputNow, trustedInput, manifest,
         hashed, dependencies, content
<1>. QED BY <1>1 DEF buildEvidence

LEMMA HonestNext ==
    TypeInv /\ RunInv /\ VerificationInv /\ RunnerInv /\ HonestInv /\ [Next]_vars => HonestInv'
<1>. SUFFICES ASSUME TypeInv, RunInv, VerificationInv, RunnerInv, HonestInv, [Next]_vars,
                     made' # None, made'.at = changes'
              PROVE  AsWritten' /\ Following'
  BY DEF HonestInv
<1>1. CASE Check
  <2>1. UNCHANGED <<workspace, origin, evidence, made, changes>>
    BY <1>1 DEF Check, StartCheck
  <2>2. verification'.phase = "idle"
    BY <1>1 DEF Check, notVerifying
  <2>3. AsWritten'
    BY <2>1, StillAsWritten DEF HonestInv
  <2>. QED BY <2>2, <2>3 DEF Following
<1>2. CASE Checking
  <2> DEFINE writes == run.phase = "report" /\ run.inv.emit = Evidence
  <2>1. /\ UNCHANGED <<verification, changes, started>> /\ CheckStep
        /\ made' = IF writes THEN [inv |-> run.inv, at |-> started.run] ELSE made
    BY <1>2 DEF Checking
  <2>2. /\ run'.inv = run.inv /\ checking /\ UNCHANGED <<workspace, origin>>
        /\ Report \/ evidence' = evidence
    BY <2>1, CheckStepKeeps DEF TypeInv
  <2>3. verification.phase \in {"idle", "replay"}
    BY <2>2 DEF RunnerInv
  <2>4. CASE writes
    <3>1. made'.inv = run.inv /\ quiet
      BY <2>1, <2>4 DEF quiet
    <3>2. Report
      BY <2>1, <2>4 DEF CheckStep, LoadPolicy, CompareTrustedBase, CompareWithBase,
         CollectSources, ValidateTrustedInputs, Analyse
    <3>3. AsWritten'
      BY <2>4, <3>1, <3>2, ReportIsWritten
    <3>4. verification.phase # "replay"
      BY <2>4 DEF VerificationInv, replayInvocation, Evidence, Replay
    <3>5. verification'.phase = "idle"
      BY <2>1, <2>3, <3>4
    <3>. QED BY <3>3, <3>5 DEF Following
  <2>5. CASE ~writes
    <3>1. made' = made /\ made # None /\ made.at = changes
      BY <2>1, <2>5
    <3>2. AsWritten /\ Following
      BY <3>1 DEF HonestInv
    <3>3. evidence'[Evidence] = evidence[Evidence]
      <4>1. CASE Report
        <5>1. run.inv.emit # Evidence
          BY <2>5, <4>1 DEF Report
        <5>2. PICK f : evidence' = evidence \/ evidence' = [evidence EXCEPT ![run.inv.emit] = f]
          BY <4>1, ReportWrites DEF TypeInv
        <5>3. Evidence \in DOMAIN evidence
          BY DEF TypeInv, TypeOK
        <5>. QED BY <5>1, <5>2, <5>3
      <4>. QED BY <2>2, <4>1
    <3>4. AsWritten'
      BY <2>2, <3>1, <3>2, <3>3, StillAsWritten
    <3>5. Repeatable' <=> Repeatable
      BY <2>1, <3>1 DEF Repeatable
    <3>6. ASSUME Repeatable, verification.phase = "replay"
          PROVE  /\ quiet' /\ Unfailing(run)'
                 /\ run'.phase = "ended" =>
                       evidence'[Replay] = sealed(buildEvidence(cleanRun(run.inv)))'
      <4>1. /\ quiet' /\ Unfailing(run')
            /\ run'.phase = "ended" =>
                  evidence'[Replay] = sealed(buildEvidence(cleanRun(run'.inv)))
        BY <1>2, <3>1, <3>2, <3>6, ReplayStepFollows
      <4>2. buildEvidence(cleanRun(run'.inv)) = buildEvidence(cleanRun(run.inv))'
        BY <2>2, SameReplay
      <4>. QED BY <4>1, <4>2 DEF sealed
    <3>7. verification' = verification
      BY <2>1
    <3>8. verification'.phase # "idle" => verification'.payload = evidence'[Evidence].payload
      BY <3>2, <3>3, <3>7 DEF Following
    <3>9. verification'.phase # "verdict"
      BY <2>3, <3>7
    <3>. QED BY <3>4, <3>5, <3>6, <3>7, <3>8, <3>9 DEF Following
  <2>. QED BY <2>4, <2>5
<1>3. CASE Verify
  <2>1. UNCHANGED <<workspace, origin, evidence, made, changes>>
    BY <1>3 DEF Verify
  <2>2. AsWritten
    BY <2>1 DEF HonestInv
  <2>3. AsWritten'
    BY <2>1, <2>2, StillAsWritten
  <2>4. PICK session \in Sessions :
           LET file == evidence[Evidence]
               status == bindingStatus(file, session)
           IN  verification' = [phase |-> IF status = "bound" THEN "inputs" ELSE "verdict",
                                session |-> session, payload |-> file.payload, status |-> status]
    BY <1>3 DEF Verify
  <2>5. /\ verification'.payload = evidence[Evidence].payload /\ verification'.session = session
        /\ bindingStatus(evidence[Evidence], session) = "bound" => verification'.phase = "inputs"
        /\ verification'.phase \in {"inputs", "verdict"}
    BY <2>4
  <2>6. ASSUME Repeatable' PROVE verification'.phase = "inputs"
    <3>1. Accepts(made.inv) /\ evidence[Evidence] = sealed(buildEvidence(cleanRun(made.inv)))
      BY <2>1, <2>2, <2>5, <2>6 DEF AsWritten, Repeatable
    <3>2. session.verifier = made.inv.verifier /\ session.trusted_base = made.inv.trusted_base
      BY <2>1, <2>5, <2>6 DEF Repeatable
    <3>. QED BY <2>5, <3>1, <3>2, WrittenIsBound
  <2>. QED BY <2>1, <2>3, <2>5, <2>6 DEF Following
<1>4. CASE CompareInputs
  <2> DEFINE status == inputStatus(verification.payload)
             again == replayInvocation(verification.payload, verification.session)
  <2>1. /\ UNCHANGED <<workspace, origin, evidence, made, changes>>
        /\ verification.phase = "inputs" /\ "phase" \in DOMAIN verification
    BY <1>4 DEF CompareInputs, TypeInv, Shapes
  <2>2. AsWritten /\ Following
    BY <2>1 DEF HonestInv
  <2>3. AsWritten'
    BY <2>1, <2>2, StillAsWritten
  <2>4. \/ /\ status # "bound"
           /\ verification' = [verification EXCEPT !.phase = "verdict", !.status = status]
        \/ /\ status = "bound"
           /\ verification' = [verification EXCEPT !.phase = "replay"]
           /\ run' = start(again) /\ started' = [started EXCEPT !.run = changes]
    BY <1>4 DEF CompareInputs, verdict
  <2>5. verification.payload = evidence[Evidence].payload
    BY <2>1, <2>2 DEF Following
  <2>6. Repeatable => status = "bound"
    BY <2>1, <2>2, <2>5, ReplayOfWritten
  <2> HIDE DEF status, again
  <2>7. verification'.payload = verification.payload /\ verification'.session = verification.session
    BY <2>4 DEF TypeInv, Shapes
  <2>8. Repeatable' <=> Repeatable
    BY <2>1, <2>7 DEF Repeatable
  <2>9. ASSUME Repeatable
        PROVE  /\ verification'.phase = "replay" /\ run' = start(again)
               /\ started' = [started EXCEPT !.run = changes]
    BY <2>1, <2>4, <2>6, <2>9
  <2>10. ASSUME Repeatable PROVE quiet' /\ Unfailing(run)' /\ run'.phase # "ended"
    <3>1. started'.run = changes'
      BY <2>1, <2>9, <2>10 DEF TypeInv, Shapes
    <3>2. run'.phase = "policy" /\ run'.state = newState
      BY <2>9, <2>10 DEF start
    <3>. QED BY <3>1, <3>2, NewStateOK DEF quiet, Unfailing
  <2>11. verification'.payload = evidence'[Evidence].payload
    BY <2>1, <2>5, <2>7
  <2>. QED BY <2>3, <2>8, <2>9, <2>10, <2>11 DEF Following
<1>5. CASE CompareReplay
  <2> DEFINE again == replayInvocation(verification.payload, verification.session)
             same == reproduced(verification.payload, evidence[Replay])
  <2>1. /\ UNCHANGED <<workspace, origin, run, made, changes>>
        /\ verification.phase = "replay" /\ run.phase = "ended"
        /\ evidence' = [evidence EXCEPT ![Replay] = None]
        /\ verification' = [verification EXCEPT !.phase = "verdict",
                                                !.status = IF same THEN "valid" ELSE "stale"]
    BY <1>5 DEF CompareReplay, verdict, history
  <2>2. AsWritten /\ Following
    BY <2>1 DEF HonestInv
  <2>3. evidence'[Evidence] = evidence[Evidence]
    BY <2>1 DEF TypeInv, TypeOK, Evidence, Replay
  <2>4. AsWritten'
    BY <2>1, <2>2, <2>3, StillAsWritten
  <2>5. verification.payload = evidence[Evidence].payload
    BY <2>1, <2>2 DEF Following
  <2>6. ASSUME Repeatable PROVE same
    <3>1. evidence[Replay] = sealed(buildEvidence(cleanRun(run.inv)))
      BY <2>1, <2>2, <2>6 DEF Following
    <3>2. run.inv = again
      BY <2>1 DEF VerificationInv
    <3>3. buildEvidence(cleanRun(again)) = verification.payload
      BY <2>1, <2>2, <2>5, <2>6, ReplayOfWritten
    <3>4. evidence[Replay] = sealed(verification.payload)
      BY <3>1, <3>2, <3>3
    <3>. QED BY <3>4 DEF sealed, reproduced, None
  <2> HIDE DEF same
  <2>7. /\ verification'.phase = "verdict" /\ verification'.payload = verification.payload
        /\ verification'.session = verification.session
        /\ same => verification'.status = "valid"
    BY <2>1 DEF TypeInv, Shapes
  <2>8. Repeatable' <=> Repeatable
    BY <2>1, <2>7 DEF Repeatable
  <2>. QED BY <2>3, <2>4, <2>5, <2>6, <2>7, <2>8 DEF Following
<1>6. ASSUME change PROVE FALSE
  <2>1. made' = made /\ changes' = changes + 1 /\ changes \in Nat
    BY <1>6, ChangesAssumption DEF change, TypeInv, TypeOK
  <2>. QED BY <2>1 DEF RunnerInv
<1>7. CASE EditFile \/ EditPolicy \/ Commit \/ EditEvidence
           \/ MergeByPolicyDiff \/ MergeByEvidence \/ MergeByReview
  BY <1>6, <1>7 DEF EditFile, EditPolicy, Commit, EditEvidence, MergeByPolicyDiff,
        MergeByEvidence, MergeByReview, merge
<1>8. CASE UNCHANGED vars
  <2>1. UNCHANGED <<workspace, origin, evidence, run, verification, changes, started, made>>
    BY <1>8 DEF vars
  <2>2. AsWritten /\ Following
    BY <2>1 DEF HonestInv
  <2>3. buildEvidence(cleanRun(run.inv)) = buildEvidence(cleanRun(run.inv))'
    BY <2>1, SameReplay
  <2>4. AsWritten'
    BY <2>1, <2>2, StillAsWritten
  <2>5. Following'
    BY <2>1, <2>2, <2>3 DEF Following, Repeatable, quiet, Unfailing, sealed
  <2>. QED BY <2>4, <2>5
<1>. QED BY <1>1, <1>2, <1>3, <1>4, <1>5, <1>7, <1>8 DEF Next

\* Evidence a run wrote, and that does not fail the policy, verifies for as long
\* as nothing changes, whatever ran and failed before it: the replay recomputes
\* every field of it from the command line the evidence gives (verifyEvidenceFile,
\* buildEvidence), provided that the run checked one file, at the policy's level,
\* without a review manifest.
THEOREM HonestEvidenceIsValid == Spec => []HonestEvidenceVerifies
<1> DEFINE Inv == TypeInv /\ RunInv /\ VerificationInv /\ RunnerInv /\ HonestInv
<1>1. Init => Inv
  BY TypeInvInit, RunInvInit, VerificationInvInit, HonestInit
<1>2. Inv /\ [Next]_vars => Inv'
  BY TypeInvNext, RunInvNext, VerificationInvNext, RunnerNext, HonestNext
<1>3. Inv => HonestEvidenceVerifies
  BY DEF HonestInv, Following, Repeatable, HonestEvidenceVerifies, untouched
<1>. QED BY <1>1, <1>2, <1>3, PTL DEF Spec
=============================================================================
