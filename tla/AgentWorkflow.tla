---------------------------- MODULE AgentWorkflow ----------------------------
(***************************************************************************)
(* The agent workflow around one repository: `cand check --agent`, `cand   *)
(* evidence verify` (verifyEvidenceFile of src/src/cand.cpp, which runs    *)
(* the check again) and `cand policy diff`, with the edits, commits and    *)
(* merges that may come between any two steps of them.                     *)
(***************************************************************************)
EXTENDS AgentCheck

CONSTANTS
    Invocations,    \* command lines of `cand check --agent`
    Sessions,       \* environments `cand evidence verify` is run in
    Start,          \* the repositories to start from
    Edits,          \* the files an edit may change, with their new content
    Texts,          \* the texts it may put into the policy file
    Forgeries(_),   \* what an edit may make of an evidence file
    MaxChanges      \* how often the repository changes

ASSUME ChangesAssumption == MaxChanges \in Nat

ASSUME StartAssumption ==
    \A s \in Start :
        /\ DOMAIN s.workspace = {"files", "policies", "head"}
        /\ DOMAIN s.workspace.files = Paths
        /\ DOMAIN s.workspace.policies = PolicyPaths
        /\ DOMAIN s.origin.policies = PolicyPaths
        /\ s.workspace.head \in Nat /\ s.origin.commit \in Nat

VARIABLES
    verification,   \* the running verification, or the last one
    reviewed,       \* the policy text on origin/main a human reviewed last
    changes,        \* how often the repository changed
    started,        \* its value when the last run, or verification, began
    made            \* the run that wrote the evidence file, and started.run

Evidence == "evidence"
Replay == "replay"      \* a temporary file of the verification's own

ASSUME InvocationAssumption ==
    /\ NotGiven \notin {Evidence, Replay}
    /\ \A inv \in Invocations :
          /\ inv.emit # Replay
          /\ inv.sources \in Seq(elements(inv.sources))
          /\ inv.arguments \in Seq(elements(inv.arguments))

vars == <<workspace, origin, evidence, run, verification, reviewed, changes, started, made>>
history == <<reviewed, changes, started, made>>

notVerifying == [phase |-> "idle", session |-> None, payload |-> None, status |-> "none"]

Init ==
    /\ \E s \in Start : workspace = s.workspace /\ origin = s.origin
    /\ evidence = [f \in {Evidence, Replay} |-> None]
    /\ run = idle
    /\ verification = notVerifying
    /\ reviewed = origin.policies[AuthoritativePolicy]
    /\ changes = 0
    /\ started = [run |-> 0, verification |-> 0]
    /\ made = None

busy == checking \/ verification.phase \notin {"idle", "verdict"}

Check ==
    /\ ~busy
    /\ \E inv \in Invocations : StartCheck(inv)
    /\ verification' = notVerifying
    /\ started' = [run |-> changes, verification |-> changes]
    /\ UNCHANGED <<reviewed, changes, made>>

Checking ==
    /\ CheckStep
    /\ made' = IF run.phase = "report" /\ run.inv.emit = Evidence
               THEN [inv |-> run.inv, at |-> started.run] ELSE made
    /\ UNCHANGED <<verification, reviewed, changes, started>>

-----------------------------------------------------------------------------
(* verifyEvidenceFile *)

\* The bindings compared before anything is run, in the code's order.
bindingStatus(file, session) ==
    LET payload == file.payload
        verifier == session.verifier
    IN  IF payload # file.integrity_sha256 THEN "tampered"
        ELSE IF \/ payload.verifier.source_commit # verifier.source_commit
                \/ payload.commit # workspace.head
                \/ payload.verifier.toolchain # verifier.toolchain
        THEN "stale"
        ELSE IF /\ payload.result = "pass"
                /\ \/ payload.semantic_result # "pass"
                   \/ payload.policy_result # "pass"
                   \/ payload.weakened
        THEN "tampered"
        ELSE IF \/ payload.verifier.binary_sha256 # verifier.binary_sha256
                \/ \E f \in payload.files : ~readable(f.path) \/ content(f.path) # f.sha256
                \/ payload.trusted_base_sha # session.trusted_base
                \/ payload.trusted_base_sha # origin.commit
        THEN "stale"
        ELSE IF payload.safety_level \notin {"p0-temporal-lifecycle", "cand1"} THEN "tampered"
        ELSE "bound"

\* The trusted inputs, and whether the check can be run again.
inputStatus(payload) ==
    LET text == workspace.policies[payload.policy_path]
        changed(inputs) == \E i \in inputs : ~readable(i.path) \/ content(i.path) # i.sha256
    IN  IF \/ text = Absent \/ text # payload.effective_policy
           \/ changed(payload.contracts) \/ changed(payload.annotation_reviews)
        THEN "stale"
        ELSE IF payload.checked_scope = {} THEN "tampered"
        ELSE IF \/ ~readsAsPolicy(text)
                \/ withoutStandard(payload.arguments) # loadPolicyText(text).frontend_arguments
        THEN "stale"
        ELSE IF Cardinality(payload.contracts) > 1 THEN "tampered"
        ELSE "bound"

inSomeOrder(set) == CHOOSE s \in [1 .. Cardinality(set) -> set] : elements(s) = set

\* Fault: the contract manifest is left out of the command line, as the review
\* manifest is.
replayWithoutContract(payload, session) ==
    [sources |-> inSomeOrder(payload.checked_scope), level |-> payload.safety_level,
     pointer_output_contracts |-> FALSE, weaker_profile |-> FALSE,
     policy_path |-> payload.policy_path, base_ref |-> "origin/main", base_policy |-> FALSE,
     contract |-> NotGiven, review |-> NotGiven, arguments |-> payload.arguments,
     environment |-> session.environment, trusted_base |-> session.trusted_base,
     verifier |-> session.verifier, emit |-> Replay]

\* The command line of the replay.
replayInvocation(payload, session) ==
    [sources |-> inSomeOrder(payload.checked_scope), level |-> payload.safety_level,
     pointer_output_contracts |-> FALSE, weaker_profile |-> FALSE,
     policy_path |-> payload.policy_path, base_ref |-> "origin/main", base_policy |-> FALSE,
     contract |-> IF payload.contracts = {} THEN NotGiven
                  ELSE (CHOOSE c \in payload.contracts : TRUE).path,
     review |-> NotGiven, arguments |-> payload.arguments,
     environment |-> session.environment, trusted_base |-> session.trusted_base,
     verifier |-> session.verifier, emit |-> Replay]

verdict(status) ==
    verification' = [verification EXCEPT !.phase = "verdict", !.status = status]

Verify ==
    /\ ~busy
    /\ evidence[Evidence] # None
    /\ \E session \in Sessions :
          LET file == evidence[Evidence]
              status == bindingStatus(file, session)
          IN  verification' = [phase |-> IF status = "bound" THEN "inputs" ELSE "verdict",
                               session |-> session, payload |-> file.payload, status |-> status]
    /\ started' = [started EXCEPT !.verification = changes]
    /\ run' = idle
    /\ UNCHANGED <<workspace, origin, evidence, reviewed, changes, made>>

CompareInputs ==
    /\ verification.phase = "inputs"
    /\ LET payload == verification.payload
           status == inputStatus(payload)
       IN  IF status # "bound"
           THEN verdict(status) /\ UNCHANGED <<run, started>>
           ELSE /\ verification' = [verification EXCEPT !.phase = "replay"]
                /\ run' = start(replayInvocation(payload, verification.session))
                /\ started' = [started EXCEPT !.run = changes]
    /\ UNCHANGED <<workspace, origin, evidence, reviewed, changes, made>>

\* Fault: that the check runs again is enough.
reproducedAtAll(payload, file) == file # None

\* The replay must write the same evidence; without a verdict it writes none.
reproduced(payload, file) == file # None /\ file.payload = payload

CompareReplay ==
    /\ verification.phase = "replay"
    /\ run.phase = "ended"
    /\ verdict(IF reproduced(verification.payload, evidence[Replay]) THEN "valid" ELSE "stale")
    /\ evidence' = [evidence EXCEPT ![Replay] = None]
    /\ UNCHANGED <<workspace, origin, run, history>>

-----------------------------------------------------------------------------
(* What else happens to the repository, at any time *)

change ==
    /\ changes < MaxChanges
    /\ changes' = changes + 1
    /\ UNCHANGED <<run, verification, started, made>>

EditFile ==
    /\ change
    /\ \E e \in Edits : workspace' = [workspace EXCEPT !.files[e[1]] = e[2]]
    /\ UNCHANGED <<origin, evidence, reviewed>>

EditPolicy ==
    /\ change
    /\ \E t \in Texts : workspace' = [workspace EXCEPT !.policies[AuthoritativePolicy] = t]
    /\ UNCHANGED <<origin, evidence, reviewed>>

Commit ==
    /\ change
    /\ workspace' = [workspace EXCEPT !.head = @ + 1]
    /\ UNCHANGED <<origin, evidence, reviewed>>

EditEvidence ==
    /\ change
    /\ evidence[Evidence] # None
    /\ \E f \in Forgeries(evidence[Evidence]) : evidence' = [evidence EXCEPT ![Evidence] = f]
    /\ UNCHANGED <<workspace, origin, reviewed>>

merge == change /\ origin' = [commit |-> origin.commit + 1, policies |-> workspace.policies]

\* origin/main takes over the workspace's policy: when policy diff says that
\* the change needs no human, ...
MergeByPolicyDiff ==
    /\ policyDiffExit(origin.policies[AuthoritativePolicy],
                      workspace.policies[AuthoritativePolicy]) = 0
    /\ merge
    /\ UNCHANGED <<workspace, evidence, reviewed>>

\* ... when passing evidence has just been verified, ...
passVerified ==
    /\ verification.phase = "verdict"
    /\ verification.status = "valid"
    /\ verification.payload.result = "pass"
    /\ changes = started.verification
MergeByEvidence ==
    /\ passVerified
    /\ merge
    /\ UNCHANGED <<workspace, evidence, reviewed>>

\* ... or when a human agrees.
MergeByReview ==
    /\ merge
    /\ reviewed' = workspace.policies[AuthoritativePolicy]
    /\ UNCHANGED <<workspace, evidence>>

Next ==
    \/ Check \/ Checking
    \/ Verify \/ CompareInputs \/ CompareReplay
    \/ EditFile \/ EditPolicy \/ Commit \/ EditEvidence
    \/ MergeByPolicyDiff \/ MergeByEvidence \/ MergeByReview

Spec == Init /\ [][Next]_vars

-----------------------------------------------------------------------------
(* What the workflow is for *)

\* Every part of the workflow has a value of its kind: a verdict is one of the
\* documented words, an exit code one of the documented numbers, and no time
\* stamp is ahead of the repository.
TypeOK ==
    /\ DOMAIN workspace.files = Paths
    /\ DOMAIN workspace.policies = PolicyPaths
    /\ DOMAIN origin.policies = PolicyPaths
    /\ workspace.head \in Nat /\ origin.commit \in Nat
    /\ DOMAIN evidence = {Evidence, Replay}
    /\ run.phase \in {"idle", "policy", "trust", "base", "sources", "trusted_inputs",
                     "analyse", "report", "ended"}
    /\ verification.phase \in {"idle", "inputs", "replay", "verdict"}
    /\ run.outcome # None =>
          /\ run.outcome.exit \in 0 .. 4
          /\ run.outcome.result \in {"pass", "fail", "incomplete", "fail-policy", "review-required",
                                    "policy-error", "error", "usage"}
    /\ verification.status \in {"none", "bound", "tampered", "stale", "valid"}
    /\ changes \in 0 .. MaxChanges
    /\ started.run \in 0 .. changes /\ started.verification \in 0 .. changes

\* Nothing changed since the run began.
quiet == changes = started.run

\* The exit code and the reported result are computed from different predicates
\* (main): a caller who reads one must not be misled about the other.  Success
\* may be reported as incomplete, but only where a cand1 pass is withheld: under
\* the pointer-output rules, by an unreleased verifier, or at a level that is
\* not the policy's.
passWithheld ==
    /\ run.inv.level = "cand1"
    /\ \/ run.state.policy.pointer_output_contracts = "true"
       \/ run.inv.verifier.source_commit = "unknown"
       \/ run.state.policy.safety_level # "cand1"
ExitCodeTellsResult ==
    run.phase = "ended" =>
        LET exit == run.outcome.exit
            result == run.outcome.result
        IN  /\ exit = 0 /\ result # "pass" => result = "incomplete" /\ passWithheld
            /\ (exit = 1) <=> (result = "fail")
            /\ exit = 3 => result = "incomplete"
            /\ result = "pass" => exit = 0

\* What success means of the repository as it is now: the policy refuses what
\* origin/main's refuses, the whole of origin/main's scope was analysed, with
\* the arguments, contract and review origin/main pins, and no marker and no
\* finding is in anything the frontend reads.
Upheld(sources, ruleSet, arguments, contract, review) ==
    LET trusted == loadPolicyText(origin.policies[AuthoritativePolicy])
        policy == loadPolicyText(workspace.policies[AuthoritativePolicy])
        files == hashed(dependencies(sources))
        semantics == Analysis(ruleSet, files, arguments, manifest(contract), manifest(review))
        pinned(option) == option # NotGiven =>
            contractIsPinned(trusted, normalizedRelativePath(option), manifest(option))
    IN  /\ isStrictGeneratedPolicy(policy)
        /\ AtLeastAsStrict(trusted, policy)
        /\ trusted.scope_files \subseteq sources
        /\ withoutStandard(arguments) = trusted.frontend_arguments
        /\ pinned(contract) /\ pinned(review)
        /\ \A f \in files : f.path # PublicHeader =>
              ~IsUnsafe(f.sha256) /\ ~IsSuppressed(f.sha256)
        /\ ~semantics.error /\ ~semantics.findings /\ ~semantics.unsupported

\* Exit code 0 of a run nothing interfered with rests on the policy on
\* origin/main, not on the workspace's: the workspace cannot loosen its own gate
\* (loadAgentPolicy to the exit).  The level of the command line chooses the
\* rules; it is not compared with the policy's.
PassRestsOnBase ==
    run.phase = "ended" /\ quiet /\ run.outcome.exit = 0 =>
        Upheld({normalizedRelativePath(run.inv.sources[i]) : i \in DOMAIN run.inv.sources},
               rules(run), run.arguments, run.contract, run.review)

\* Evidence that verifies and says pass is true of the repository now, however
\* it came about: made while files changed, edited by hand, or left over from
\* before (verifyEvidenceFile); and it names the rules that were applied.  Of a
\* verification during which something changes nothing is said (passVerified).
ValidPassHoldsNow ==
    passVerified =>
        LET payload == verification.payload
            contract == IF payload.contracts = {} THEN NotGiven
                        ELSE (CHOOSE c \in payload.contracts : TRUE).path
        IN  /\ Upheld(payload.checked_scope, payload.rules, payload.arguments, contract, NotGiven)
            /\ payload.rules = IF payload.safety_level = "cand1" THEN "cand1/v1"
                               ELSE "p0-semantic-core"
            /\ payload.files = hashed(dependencies(payload.checked_scope))

\* Evidence a run wrote, verified where it was made with nothing changed since.
untouched ==
    /\ verification.phase = "verdict"
    /\ made # None
    /\ made.at = changes
    /\ verification.session = [verifier |-> made.inv.verifier, trusted_base |-> made.inv.trusted_base,
                               environment |-> made.inv.environment]
    /\ verification.payload.result # "fail-policy"

\* It verifies, provided that the run checked one file, at the policy's level,
\* without a review manifest, and was not refused by policy: what a replay cannot
\* repeat (see ReplayRepeats).  A manifest the policy does not pin, or an option
\* that is refused, is not in the evidence, and the replay runs without it.
HonestEvidenceVerifies ==
    /\ untouched
    /\ Len(made.inv.sources) = 1
    /\ made.inv.level = verification.payload.safety_level
    /\ made.inv.review = NotGiven
    => verification.status = "valid"

\* origin/main's policy never drifts from the reviewed one, in steps each of
\* which passed policy diff or a verified check (comparePolicies, and all that
\* stands behind a valid pass).
Ratchet == INSTANCE PolicyRatchet WITH inForce <- origin.policies[AuthoritativePolicy]
RefinesPolicyRatchet == Ratchet!Spec

-----------------------------------------------------------------------------
(* What the documentation says, and the code does not do *)

\* SPEC-0004: evidence verify reruns the exact analysis; so evidence of a run
\* at the policy's level verifies, however many files it checked.
ReplayRepeats ==
    untouched /\ made.inv.level = verification.payload.safety_level
        => verification.status = "valid"
=============================================================================
