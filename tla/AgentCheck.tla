------------------------------ MODULE AgentCheck ------------------------------
(***************************************************************************)
(* One run of `cand check --agent` (main, AgentPolicyState and its         *)
(* functions in src/src/cand.cpp), step by step as it reads the workspace: *)
(* the policy, the trusted base, the base's policy, the sources, the       *)
(* trusted inputs, the sources again to analyse them, and the included     *)
(* files and HEAD for the report.  Whatever is read in a later step may    *)
(* have changed since an earlier one.                                      *)
(*                                                                         *)
(* The frontend and the analysis are the constant Analysis.  What one step *)
(* reads it reads at one instant.                                          *)
(***************************************************************************)
EXTENDS GeneratedPolicy

CONSTANTS
    Paths,                  \* the workspace's sources, headers and manifests
    PolicyPaths,            \* the policy files, "cand-policy.json" among them
    Missing,                \* the content of a file that cannot be read
    Includes(_),            \* the paths a source of this content includes
    IsUnsafe(_),            \* whether a content holds CAND_UNSAFE
    IsSuppressed(_),        \* ... CAND_SUPPRESS, CAND_BASELINE or cand: ignore
    Analysis(_, _, _, _, _),    \* rules, files, arguments, contract, review
    NotGiven                \* an option that is not on the command line

ASSUME NotGivenAssumption == NotGiven \notin Paths

VARIABLES
    workspace,   \* files, policy files and the commit HEAD is at
    origin,      \* origin/main: its commit and the policy files there
    evidence,    \* the evidence file and the one a replay writes
    run          \* the running check, or the last one

PublicHeader == <<"include", "cand", "cand.h">>
AuthoritativePolicy == "cand-policy.json"
None == [none |-> TRUE]

\* Of the markers, counted in the code, the model keeps the files that hold one.
noDelta ==
    [changes |-> {}, weakened |-> FALSE, review_required |-> FALSE,
     classification |-> "NO_CHANGE"]
newState ==
    [policy |-> unread, delta |-> noDelta,
     policy_failed |-> FALSE, review_required |-> FALSE, policy_errors |-> {},
     contract_inputs |-> {}, annotation_review_inputs |-> {},
     unsafe_boundaries |-> {}, suppressions |-> {}, toolchain_supported |-> TRUE]

reject(st, error) == [st EXCEPT !.policy_failed = TRUE, !.policy_errors = @ \cup {error}]
rejectIf(condition, error, st) == IF condition THEN reject(st, error) ELSE st
rejectAll(errors, st) ==
    [st EXCEPT !.policy_failed = @ \/ errors # {}, !.policy_errors = @ \cup errors]

\* A change that weakens, whatever was found before.
weaken(kind, st) ==
    [st EXCEPT !.delta.changes = @ \cup {Weakening(kind)},
               !.delta.weakened = TRUE, !.delta.classification = "PROOF_WEAKENING"]

start(inv) ==
    [phase |-> "policy", inv |-> inv, state |-> newState,
     sources |-> {}, arguments |-> <<>>, contract |-> NotGiven, review |-> NotGiven,
     outcome |-> None, analysed |-> {}, semantics |-> None]
idle == [start(None) EXCEPT !.phase = "idle"]

ended(code, result) == [run EXCEPT !.phase = "ended", !.outcome = [exit |-> code, result |-> result]]

-----------------------------------------------------------------------------
(* loadAgentPolicy *)

\* What the invocation asks of the policy, reconciled before anything is read
\* on its behalf; a policy that did not load ends the run.
reconcile(st, inv) ==
    LET toolchain == IF inv.level = "cand1" /\ ~inv.verifier.supported
                     THEN [reject(st, "toolchain") EXCEPT !.toolchain_supported = FALSE]
                     ELSE st
        pointer == rejectIf(/\ inv.level = "cand1"
                            /\ inv.pointer_output_contracts
                            /\ st.policy.pointer_output_contracts # "true",
                            "pointer-output", toolchain)
    IN  IF inv.weaker_profile THEN weaken("profile-override", reject(pointer, "profile"))
        ELSE pointer

afterPolicy(r) ==
    LET st == reconcile(r.state, r.inv)
    IN  IF st.policy.schema = ""
        THEN [r EXCEPT !.state = st, !.phase = "ended",
                       !.outcome = [exit |-> 2, result |-> "policy-error"]]
        ELSE [r EXCEPT !.state = st, !.phase = "sources"]

LoadPolicy ==
    /\ run.phase = "policy"
    /\ LET inv == run.inv
           policy == loadPolicyText(workspace.policies[inv.policy_path])
           loaded == [run.state EXCEPT !.policy = policy]
           checked == rejectIf(inv.base_ref # "origin/main" \/ inv.base_policy, "base-authority",
                      rejectIf(inv.policy_path # AuthoritativePolicy, "policy-path",
                      rejectIf(~isStrictGeneratedPolicy(policy), "not-strict", loaded)))
       IN  run' = IF policy.schema = ""
                  THEN afterPolicy([run EXCEPT !.state = reject(@, "policy-unreadable")])
                  ELSE IF inv.base_ref # "origin/main" \/ inv.base_policy
                  THEN afterPolicy([run EXCEPT !.state = checked])
                  ELSE [run EXCEPT !.state = checked, !.phase = "trust"]
    /\ UNCHANGED <<workspace, origin, evidence>>

CompareTrustedBase ==
    /\ run.phase = "trust"
    /\ run' = IF run.inv.trusted_base # origin.commit
              THEN afterPolicy([run EXCEPT !.state = reject(@, "trusted-base")])
              ELSE [run EXCEPT !.phase = "base",
                               !.state = rejectIf(run.inv.base_ref # @.policy.base_ref,
                                                  "base-ref", @)]
    /\ UNCHANGED <<workspace, origin, evidence>>

\* The delta of a policy that origin/main does not have yet.
initialPolicy ==
    [changes |-> {Review("initial-policy")}, weakened |-> FALSE, review_required |-> TRUE,
     classification |-> "REVIEW_REQUIRED"]

CompareWithBase ==
    /\ run.phase = "base"
    /\ LET baseText == origin.policies[run.inv.policy_path]
           before == loadPolicyText(baseText)
           compared ==
               IF baseText = Absent THEN [run.state EXCEPT !.delta = initialPolicy]
               ELSE IF before.schema = "" THEN reject(run.state, "base-policy-unreadable")
               ELSE [run.state EXCEPT !.delta = comparePolicies(before, run.state.policy)]
       IN  run' = afterPolicy([run EXCEPT !.state =
                     [compared EXCEPT !.policy_failed = @ \/ compared.delta.weakened,
                                      !.review_required = @ \/ compared.delta.review_required]])
    /\ UNCHANGED <<workspace, origin, evidence>>

-----------------------------------------------------------------------------
(* collectSourceInputs and the frontend's arguments *)

\* n copies of s, one after the other.
repeated(s, n) == [i \in 1 .. n * Len(s) |-> s[((i - 1) % Len(s)) + 1]]

\* An argument is text with what the checks ask of it: a language standard, a
\* flag that takes a path ("path_flag", or joined to it "joined_path"), one
\* that is refused, with its operand or alone ("forbidden_flag", "forbidden"),
\* or another; and whether, as a path, it leaves the workspace.
isOperand(arguments) ==
    LET operand[i \in 0 .. Len(arguments)] ==
            /\ i > 1
            /\ arguments[i - 1].kind \in {"path_flag", "forbidden_flag"}
            /\ ~operand[i - 1]
    IN  operand

argumentErrors(arguments, standard, inv) ==
    LET operand == isOperand(arguments)
        at(kinds) == {i \in DOMAIN arguments : ~operand[i] /\ arguments[i].kind \in kinds}
        standards == {i \in DOMAIN arguments : arguments[i].kind = "standard"}
        pinnedStandard == {i \in standards : arguments[i].text = "-std=c11" /\ standard = "c11"}
    IN  (IF standards # pinnedStandard THEN {"standard-differs"} ELSE {})
        \cup (IF pinnedStandard = {} THEN {"standard-absent"} ELSE {})
        \cup (IF inv.environment THEN {"environment"} ELSE {})
        \cup (IF at({"forbidden", "forbidden_flag"}) # {} THEN {"argument"} ELSE {})
        \cup (IF \/ \E i \in at({"joined_path"}) : arguments[i].escapes
                 \/ \E i \in DOMAIN arguments :
                       operand[i] /\ arguments[i - 1].kind = "path_flag" /\ arguments[i].escapes
              THEN {"path-escapes"} ELSE {})
        \cup (IF arguments # <<>> /\ Len(arguments) \in at({"path_flag", "forbidden_flag"})
              THEN {"path-missing"} ELSE {})

withoutStandard(arguments) == SelectSeq(arguments, LAMBDA a : a.text # "-std=c11")

content(path) == workspace.files[path]
readable(path) == path \in Paths /\ content(path) # Missing

unsafeIn(paths) == {p \in paths : IsUnsafe(content(p))}
suppressedIn(paths) == {p \in paths : IsSuppressed(content(p))}
hashed(paths) == {[path |-> p, sha256 |-> content(p)] : p \in paths}

CollectSources ==
    /\ run.phase = "sources"
    /\ LET inv == run.inv
           given == [i \in DOMAIN inv.sources |-> normalizedRelativePath(inv.sources[i])]
           read == {i \in DOMAIN given : readable(given[i])}
           inputs == {given[i] : i \in read}
           inside == {i \in DOMAIN given : given[i] # <<>>}
           duplicate == \E i, j \in read : i # j /\ given[i] = given[j]
           outOfScope == duplicate \/ inputs # run.state.policy.scope_files
           arguments == repeated(inv.arguments, Len(inv.sources))
           counted == [run.state EXCEPT !.unsafe_boundaries = unsafeIn(inputs),
                                        !.suppressions = suppressedIn(inputs)]
           errors ==
               (IF inside # DOMAIN given THEN {"source-outside"} ELSE {})
               \cup (IF read # inside THEN {"source-unreadable"} ELSE {})
               \cup (IF duplicate THEN {"source-duplicate"} ELSE {})
               \cup (IF outOfScope THEN {"scope-differs"} ELSE {})
               \cup argumentErrors(arguments, run.state.policy.frontend_standard, inv)
               \cup (IF withoutStandard(arguments) # run.state.policy.frontend_arguments
                     THEN {"arguments-differ"} ELSE {})
           checked == rejectAll(errors, counted)
       IN  run' = [run EXCEPT !.phase = "trusted_inputs", !.sources = hashed(inputs),
                              !.arguments = arguments,
                              !.state = IF outOfScope
                                        THEN weaken("invocation-scope-change", checked)
                                        ELSE checked]
    /\ UNCHANGED <<workspace, origin, evidence>>

-----------------------------------------------------------------------------
(* validateAgentContract and validateAnnotationReview *)

\* A manifest the policy does not pin with this content is dropped.
isTrusted(st, option) ==
    LET path == normalizedRelativePath(option)
    IN  readable(path) /\ contractIsPinned(st.policy, path, content(path))

trustedInput(st, option) ==
    LET path == normalizedRelativePath(option)
    IN  [path |-> path, sha256 |-> content(path),
         trust_class |-> CHOOSE t \in pinnedAs(st.policy, path, content(path)) : TRUE]

substituted(kind, st) ==
    [reject(st, kind) EXCEPT
        !.review_required = TRUE, !.delta.review_required = TRUE,
        !.delta.classification = IF st.delta.weakened THEN "PROOF_WEAKENING" ELSE "REVIEW_REQUIRED",
        !.delta.changes = @ \cup {Review(kind)}]

validateAgentContract(st, option) ==
    IF option = NotGiven THEN st
    ELSE IF isTrusted(st, option)
    THEN [st EXCEPT !.contract_inputs = @ \cup {trustedInput(st, option)}]
    ELSE substituted("contract-set-substitution", st)

validateAnnotationReview(st, option) ==
    IF option = NotGiven THEN st
    ELSE IF isTrusted(st, option)
    THEN [st EXCEPT !.annotation_review_inputs = @ \cup {trustedInput(st, option)}]
    ELSE substituted("annotation-review-set-substitution", st)

ValidateTrustedInputs ==
    /\ run.phase = "trusted_inputs"
    /\ LET inv == run.inv
           kept(option) == IF option # NotGiven /\ isTrusted(run.state, option)
                           THEN option ELSE NotGiven
       IN  run' = [run EXCEPT !.phase = "analyse",
                      !.state = validateAnnotationReview(validateAgentContract(@, inv.contract),
                                                         inv.review),
                      !.contract = kept(inv.contract), !.review = kept(inv.review)]
    /\ UNCHANGED <<workspace, origin, evidence>>

-----------------------------------------------------------------------------
(* the analysis, and what becomes of its result *)

rules(r) ==
    IF r.inv.level # "cand1" THEN "p0-semantic-core"
    ELSE IF r.state.policy.pointer_output_contracts = "true" THEN "cand1/v1.1-draft"
    ELSE "cand1/v1"

dependencies(sources) ==
    sources \cup UNION {Includes(content(p)) : p \in sources}

manifest(option) ==
    IF option = NotGiven THEN NotGiven
    ELSE LET path == normalizedRelativePath(option)
         IN  IF path \in Paths THEN content(path) ELSE Missing

\* The frontend reads every source and include again.  A source outside the
\* workspace may or may not be there; any error ends the run without verdict.
Analyse ==
    /\ run.phase = "analyse"
    /\ LET given == {normalizedRelativePath(run.inv.sources[i]) : i \in DOMAIN run.inv.sources}
           sources == given \ {<<>>}
           files == hashed(dependencies(sources))
           semantics == Analysis(rules(run), files, run.arguments,
                                 manifest(run.contract), manifest(run.review))
       IN  \/ /\ \A p \in sources : readable(p)
              /\ \A p \in dependencies(sources) : readable(p)
              /\ ~semantics.error
              /\ run' = [run EXCEPT !.phase = "report", !.semantics = semantics,
                                    !.analysed = files]
           \/ /\ \/ <<>> \in given
                 \/ \E p \in sources : ~readable(p)
                 \/ \E p \in dependencies(sources) : ~readable(p)
                 \/ semantics.error
              /\ run' = ended(2, "error")
    /\ UNCHANGED <<workspace, origin, evidence>>

\* Fault: a verdict word of its own for what is not supported.
semanticResultUnsupported(semantics) ==
    IF semantics.findings THEN "fail" ELSE IF semantics.unsupported THEN "unsupported" ELSE "pass"

semanticResult(semantics) ==
    IF semantics.findings THEN "fail" ELSE IF semantics.unsupported THEN "incomplete" ELSE "pass"

\* Fault: obligations do not count.
exitCodeOfFindings(semantics) == IF semantics.findings THEN 1 ELSE 0

exitCode(semantics) ==
    IF semantics.findings THEN 1 ELSE IF semantics.unsupported THEN 3 ELSE 0

\* addIncludedFiles: what the analysis read beyond the sources, as it is now.
included(r) == {f.path : f \in r.analysed} \ {f.path : f \in r.sources}

\* Fault: included files are bound but not searched for markers.
addIncludedFilesUnsearched(r) ==
    LET read == {p \in included(r) : readable(p)}
    IN  [r EXCEPT !.sources = @ \cup hashed(read),
                  !.state = rejectIf(read # included(r), "dependency-unreadable", @)]

addIncludedFiles(r) ==
    LET read == {p \in included(r) : readable(p)}
        marked == read \ {PublicHeader}
        st == r.state
        counted ==
            [st EXCEPT !.unsafe_boundaries = @ \cup unsafeIn(marked),
                       !.suppressions = @ \cup suppressedIn(marked)]
    IN  [r EXCEPT !.sources = @ \cup hashed(read),
                  !.state = rejectIf(read # included(r), "dependency-unreadable", counted)]

violation(kind, marked, st) == IF marked = {} THEN st ELSE weaken(kind, reject(st, kind))
addDetectedPolicyViolations(st) ==
    violation("new-suppressions", st.suppressions,
              violation("new-unsafe-boundaries", st.unsafe_boundaries, st))

policyFail(st) == st.policy_failed \/ st.delta.weakened
reviewRequired(st) == st.review_required \/ st.delta.review_required
trustedClass(inputs) == \A i \in inputs : i.trust_class \in {"builtin", "verified", "reviewed"}

evidenceBound(r) ==
    /\ r.sources # {}
    /\ r.arguments # <<>>
    /\ r.inv.verifier.source_commit # "unknown"

canEmitCand1Pass(r) ==
    LET st == r.state
    IN  /\ ~r.semantics.findings /\ ~r.semantics.unsupported
        /\ rules(r) # "cand1/v1.1-draft"
        /\ evidenceBound(r)
        /\ ~policyFail(st) /\ ~reviewRequired(st)
        /\ st.toolchain_supported
        /\ st.policy.profile = "generated" /\ st.policy.safety_level = "cand1"
        /\ st.policy.scope_files # {}
        /\ trustedClass(st.contract_inputs) /\ trustedClass(st.annotation_review_inputs)
        /\ st.unsafe_boundaries = {} /\ st.suppressions = {}

finalResult(r) ==
    IF policyFail(r.state) THEN "fail-policy"
    ELSE IF reviewRequired(r.state) THEN "review-required"
    ELSE IF r.inv.level # "cand1" THEN semanticResult(r.semantics)
    ELSE IF canEmitCand1Pass(r) THEN "pass"
    ELSE IF r.semantics.findings THEN "fail" ELSE "incomplete"

policyResult(st) ==
    IF policyFail(st) THEN "fail" ELSE IF reviewRequired(st) THEN "review_required" ELSE "pass"

buildEvidence(r) ==
    [result |-> finalResult(r), semantic_result |-> semanticResult(r.semantics),
     policy_result |-> policyResult(r.state), verifier |-> r.inv.verifier,
     commit |-> workspace.head, files |-> r.sources, arguments |-> r.arguments,
     safety_level |-> r.state.policy.safety_level, policy_path |-> r.inv.policy_path,
     trusted_base_sha |-> r.inv.trusted_base,
     effective_policy |-> r.state.policy.sha256, checked_scope |-> r.state.policy.scope_files,
     cand1_profile |-> r.inv.level = "cand1", analysis |-> r.semantics, rules |-> rules(r),
     unsafe_boundaries |-> r.state.unsafe_boundaries, suppressions |-> r.state.suppressions,
     contracts |-> r.state.contract_inputs,
     annotation_reviews |-> r.state.annotation_review_inputs,
     weakened |-> policyFail(r.state), review_required |-> reviewRequired(r.state),
     changes |-> r.state.delta.changes, policy_errors |-> r.state.policy_errors]

\* The evidence holds a digest of its payload; it is written over whatever
\* file was there, and only by a run that reaches its verdict.
Report ==
    /\ run.phase = "report"
    /\ LET bound == addIncludedFiles(run)
           final == [bound EXCEPT !.state = addDetectedPolicyViolations(@)]
           payload == buildEvidence(final)
           code == IF policyFail(final.state) \/ reviewRequired(final.state) THEN 4
                   ELSE exitCode(final.semantics)
       IN  /\ run' = [final EXCEPT !.phase = "ended",
                                   !.outcome = [exit |-> code, result |-> payload.result]]
           /\ evidence' = IF run.inv.emit = NotGiven THEN evidence
                          ELSE [evidence EXCEPT ![run.inv.emit] =
                                  [payload |-> payload, integrity_sha256 |-> payload]]
    /\ UNCHANGED <<workspace, origin>>

\* main: option errors are reported before anything is read.
StartCheck(inv) ==
    /\ run' = IF inv.pointer_output_contracts /\ inv.level # "cand1"
              THEN [start(inv) EXCEPT !.phase = "ended",
                                      !.outcome = [exit |-> 2, result |-> "usage"]]
              ELSE start(inv)
    /\ UNCHANGED <<workspace, origin, evidence>>

CheckStep ==
    \/ LoadPolicy \/ CompareTrustedBase \/ CompareWithBase \/ CollectSources
    \/ ValidateTrustedInputs \/ Analyse \/ Report

checking == run.phase \notin {"idle", "ended"}
=============================================================================
