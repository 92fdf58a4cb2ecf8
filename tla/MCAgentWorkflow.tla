--------------------------- MODULE MCAgentWorkflow ---------------------------
(***************************************************************************)
(* Small repositories for AgentWorkflow: one or two sources, a header, a   *)
(* contract and a review manifest.                                         *)
(***************************************************************************)
EXTENDS AgentWorkflow

A == <<"a.c">>
B == <<"b.c">>
H == <<"h.h">>
Vendor == <<"vendor.yaml">>
Manifest == <<"review.json">>

SmallPaths == {A, B, H, PublicHeader, Vendor, Manifest}
SmallPolicyPaths == {AuthoritativePolicy, "policy.json"}
NoFile == "missing"

\* clean: nothing to find.  leaks: a finding, unless compiled out.  calls: the
\* contract decides.  annotated: the review decides.  widens: not supported at
\* cand1.  uses, api: include a header.  marked, ignored: clean, with a marker.
IncludesOf(c) == IF c = "uses" THEN {H} ELSE IF c = "api" THEN {PublicHeader} ELSE {}
UnsafeIn(c) == c = "marked"
SuppressedIn(c) == c = "ignored"

Std == [text |-> "-std=c11", kind |-> "standard", escapes |-> FALSE]
OldStd == [text |-> "-std=c99", kind |-> "standard", escapes |-> FALSE]
NoLeak == [text |-> "-DNO_LEAK", kind |-> "other", escapes |-> FALSE]
IncludeFlag == [text |-> "-I", kind |-> "path_flag", escapes |-> FALSE]
Up == [text |-> "../include", kind |-> "other", escapes |-> TRUE]

AnalysisOf(ruleSet, files, arguments, contract, review) ==
    LET has(c) == \E f \in files : f.sha256 = c
        error == has("broken") \/ contract \in {NoFile, "broken"} \/ review \in {NoFile, "broken"}
    IN  [error |-> error,
         findings |-> \/ has("leaks") /\ \A i \in DOMAIN arguments : arguments[i] # NoLeak
                      \/ has("calls") /\ contract = "consumes",
         unsupported |-> \/ has("calls") /\ contract = NotGiven
                         \/ has("annotated") /\ review = NotGiven
                         \/ has("widens") /\ ruleSet # "p0-semantic-core"]

-----------------------------------------------------------------------------
(* Policies *)

Strict ==
    [exact_fields |-> TRUE, profile |-> "generated", safety_level |-> "cand1",
     base_ref |-> "origin/main", budgets |-> [b \in BudgetKinds |-> 0],
     allow_unsupported |-> FALSE, contracts_review_required |-> TRUE,
     frontend_standard |-> "c11", frontend_arguments |-> <<>>, scope_files |-> <<A>>,
     trusted_contracts |-> <<[path |-> Vendor, sha256 |-> "borrows", trust_class |-> "reviewed"],
                             [path |-> Manifest, sha256 |-> "manifest", trust_class |-> "verified"]>>,
     pointer_output_contracts |-> "absent"]

Pins(digest, trust) ==
    [Strict EXCEPT !.trusted_contracts =
        <<[path |-> Vendor, sha256 |-> digest, trust_class |-> trust]>>]

SmallJson ==
    [strict     |-> Strict,
     both       |-> [Strict EXCEPT !.scope_files = <<A, B>>],
     p0         |-> [Strict EXCEPT !.safety_level = "p0-temporal-lifecycle"],
     draft      |-> [Strict EXCEPT !.pointer_output_contracts = "true"],
     compiled   |-> [Strict EXCEPT !.frontend_arguments = <<NoLeak>>],
     loose      |-> [Strict EXCEPT !.budgets["new_unsafe_boundaries"] = 1],
     looser     |-> [Strict EXCEPT !.budgets["new_unsafe_boundaries"] = 2],
     permissive |-> [Strict EXCEPT !.allow_unsupported = TRUE],
     selftrust  |-> Pins("frees", "reviewed"),
     candidate  |-> Pins("borrows", "candidate"),
     absent     |-> [Strict EXCEPT !.exact_fields = FALSE]]
JsonOf(text) == SmallJson[text]

-----------------------------------------------------------------------------
(* Command lines, environments, repositories and what may happen to them *)

Release == [source_commit |-> "c0", binary_sha256 |-> "b0", toolchain |-> "t0", supported |-> TRUE]
Local == [Release EXCEPT !.source_commit = "unknown"]
Rebuilt == [Release EXCEPT !.binary_sha256 = "b1"]
Foreign == [Release EXCEPT !.toolchain = "t1", !.supported = FALSE]

Cand1 ==
    [sources |-> <<A>>, level |-> "cand1", pointer_output_contracts |-> FALSE,
     weaker_profile |-> FALSE, policy_path |-> AuthoritativePolicy, base_ref |-> "origin/main",
     base_policy |-> FALSE, contract |-> NotGiven, review |-> NotGiven, arguments |-> <<Std>>,
     environment |-> FALSE, trusted_base |-> 1, verifier |-> Release, emit |-> Evidence]
Core0 == [Cand1 EXCEPT !.level = "p0-temporal-lifecycle"]

\* Runs that write evidence, ...
Recorded ==
    {Cand1, [Cand1 EXCEPT !.contract = Vendor], [Cand1 EXCEPT !.review = Manifest],
     [Core0 EXCEPT !.trusted_base = 2, !.sources = <<<<".", "a.c">>>>],
     [Cand1 EXCEPT !.trusted_base = 2, !.sources = <<A, B>>]}
\* ... and runs that only say no, each for a reason of its own.
Refused ==
    {[i EXCEPT !.emit = NotGiven] : i \in
        {[Cand1 EXCEPT !.weaker_profile = TRUE], [Cand1 EXCEPT !.environment = TRUE],
         [Cand1 EXCEPT !.base_ref = "HEAD"], [Cand1 EXCEPT !.base_policy = TRUE],
         [Cand1 EXCEPT !.pointer_output_contracts = TRUE],
         [Core0 EXCEPT !.pointer_output_contracts = TRUE],
         [Cand1 EXCEPT !.policy_path = "policy.json"],
         [Cand1 EXCEPT !.arguments = <<Std, NoLeak>>], [Cand1 EXCEPT !.arguments = <<OldStd>>],
         [Cand1 EXCEPT !.arguments = <<Std, IncludeFlag, Up>>],
         [Cand1 EXCEPT !.sources = <<A, A>>], [Cand1 EXCEPT !.sources = <<<<"..", "a.c">>>>],
         [Cand1 EXCEPT !.verifier = Foreign], [Cand1 EXCEPT !.verifier = Local]}}

Repo(base, text, sources) ==
    [workspace |-> [files |-> [p \in SmallPaths |->
                                 CASE p = A -> sources[1] [] p = B -> sources[2] [] p = H -> "clean"
                                   [] p = PublicHeader -> "marked"
                                   [] p = Vendor -> "borrows" [] p = Manifest -> "manifest"],
                    policies |-> [p \in SmallPolicyPaths |-> text], head |-> 1],
     origin |-> [commit |-> 1, policies |-> [p \in SmallPolicyPaths |-> base]]]

SmallStart ==
    {Repo("strict", "strict", <<"uses", "clean">>), Repo("strict", "strict", <<"calls", "clean">>),
     Repo("loose", "strict", <<"api", "annotated">>),
     Repo("draft", "draft", <<"clean", "leaks">>), Repo("p0", "p0", <<"clean", "leaks">>)}
AllInvocations == Recorded \cup Refused
SmallEdits == {<<A, "leaks">>, <<H, "marked">>, <<A, NoFile>>, <<Vendor, "frees">>}
Rare == {"compiled", "permissive", "candidate"}
SmallTexts == {"both", "looser", "selftrust", "absent"} \cup Rare

\* Evidence edited to pass, with its digest brought up to date or not.
Passing(payload) ==
    [payload EXCEPT !.result = "pass", !.semantic_result = "pass", !.policy_result = "pass",
        !.weakened = FALSE, !.review_required = FALSE, !.changes = {}, !.policy_errors = {},
        !.analysis = [error |-> FALSE, findings |-> FALSE, unsupported |-> FALSE]]
SmallForgeries(file) ==
    {[payload |-> Passing(file.payload), integrity_sha256 |-> d] :
        d \in {Passing(file.payload), file.integrity_sha256}} \ {file}
SmallSessions ==
    {[verifier |-> Release, trusted_base |-> b, environment |-> FALSE] : b \in {1, 2}}
    \cup {[verifier |-> Rebuilt, trusted_base |-> 1, environment |-> FALSE]}
TwoChanges == 2

\* A policy of two files, checked as they are.
BothStart == {Repo("both", "both", <<"clean", "clean">>)}
AtBase(inv) == [inv EXCEPT !.trusted_base = 1]
BothLevels == {Cand1, AtBase(Core0), [Cand1 EXCEPT !.sources = <<A, B>>]}
NoChanges == 0

\* What is not followed further: a refused run once the repository changed, a
\* policy that is rare once a second change was made to it, and a second change
\* but in the first two repositories.
Bounded ==
    /\ run.phase # "idle" /\ run.inv \in Refused => changes = 0
    /\ workspace.policies[AuthoritativePolicy] \in Rare => changes = 1
    /\ changes = 2 => workspace.files[B] = "clean"

=============================================================================
