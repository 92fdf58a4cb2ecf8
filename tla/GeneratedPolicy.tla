--------------------------- MODULE GeneratedPolicy ---------------------------
(***************************************************************************)
(* The generated-code policy of src/src/agent_policy.cpp: how a policy     *)
(* text is read, when it is strict, which contract it pins, and how two    *)
(* policies differ.                                                        *)
(*                                                                         *)
(* A text is a name; the constant Json gives the value it parses to, its   *)
(* shape abstracted to one flag.  The digest of a text is the text itself  *)
(* (SHA-256 taken as injective), and so is that of every other file.       *)
(* Scope files and pins are unique and sorted once loaded, hence sets;     *)
(* compiler arguments keep their order.                                    *)
(***************************************************************************)
EXTENDS Integers, Sequences, FiniteSets

CONSTANTS
    MaxUnsigned,    \* std::numeric_limits<unsigned>::max()
    Json(_),        \* what a policy text parses to
    Absent          \* the text of a policy file that is not there

ASSUME MaxUnsignedAssumption == MaxUnsigned \in Nat

BudgetKinds ==
    {"new_unsafe_boundaries", "new_suppressions", "safety_level_reductions",
     "checked_scope_decrease", "unsupported_scope_increase"}

TrustClasses == {"builtin", "verified", "reviewed", "candidate"}
Flags == {"absent", "false", "true"}      \* std::optional<bool>

\* A path is the sequence of its segments; an absolute path starts with "".
normalizedRelativePath(path) ==
    IF path = <<>> \/ path[1] = "" \/ \E i \in DOMAIN path : path[i] = ".."
    THEN <<>>
    ELSE SelectSeq(path, LAMBDA segment : segment \notin {"", "."})

isNormalized(path) == path # <<>> /\ normalizedRelativePath(path) = path

unique(s) == \A i, j \in DOMAIN s : s[i] = s[j] => i = j
elements(s) == {s[i] : i \in DOMAIN s}

\* loadPolicyText: a text is refused whole or read whole.
readsAsPolicy(text) ==
    LET json == Json(text)
        pins == json.trusted_contracts
    IN  /\ text # Absent
        /\ json.exact_fields
        /\ \A b \in BudgetKinds : json.budgets[b] \in 0 .. MaxUnsigned
        /\ json.allow_unsupported \in BOOLEAN
        /\ \A i \in DOMAIN json.frontend_arguments : json.frontend_arguments[i].kind # "standard"
        /\ \A i \in DOMAIN json.scope_files : isNormalized(json.scope_files[i])
        /\ unique(json.scope_files)
        /\ \A i \in DOMAIN pins :
              /\ normalizedRelativePath(pins[i].path) = pins[i].path
              /\ pins[i].trust_class \in TrustClasses
        /\ \A i, j \in DOMAIN pins : pins[i].path = pins[j].path => i = j

unread ==
    [schema |-> "", sha256 |-> Absent, profile |-> "", safety_level |-> "", base_ref |-> "",
     budgets |-> [b \in BudgetKinds |-> 0], allow_unsupported |-> FALSE,
     contracts_review_required |-> TRUE, frontend_standard |-> "", frontend_arguments |-> <<>>,
     scope_files |-> {}, trusted_contracts |-> {}, pointer_output_contracts |-> "absent"]

\* The policy read from a text; a refused text leaves the schema empty.
loadPolicyText(text) ==
    LET json == Json(text)
    IN  IF ~readsAsPolicy(text) THEN unread
        ELSE [schema |-> "cand.policy/v1", sha256 |-> text, profile |-> json.profile,
              safety_level |-> json.safety_level, base_ref |-> json.base_ref,
              budgets |-> json.budgets, allow_unsupported |-> json.allow_unsupported,
              contracts_review_required |-> json.contracts_review_required,
              frontend_standard |-> json.frontend_standard,
              frontend_arguments |-> json.frontend_arguments,
              scope_files |-> elements(json.scope_files),
              trusted_contracts |-> elements(json.trusted_contracts),
              pointer_output_contracts |-> json.pointer_output_contracts]

isStrictGeneratedPolicy(policy) ==
    /\ policy.profile = "generated"
    /\ policy.safety_level \in {"p0-temporal-lifecycle", "cand1"}
    /\ policy.base_ref = "origin/main"
    /\ \A b \in BudgetKinds : policy.budgets[b] = 0
    /\ ~policy.allow_unsupported
    /\ policy.frontend_standard = "c11"
    /\ policy.scope_files # {}

\* The trust classes under which a policy pins this content at this path.
pinnedAs(policy, path, digest) ==
    {pin.trust_class : pin \in
        {p \in policy.trusted_contracts :
            p.path = path /\ p.sha256 = digest /\ p.trust_class # "candidate"}}
contractIsPinned(policy, path, digest) == pinnedAs(policy, path, digest) # {}

-----------------------------------------------------------------------------
(* comparePolicies *)

Change(kind, classification) == [kind |-> kind, classification |-> classification]
Weakening(kind) == Change(kind, "PROOF_WEAKENING")
Strengthening(kind) == Change(kind, "PROOF_STRENGTHENING")
Review(kind) == Change(kind, "REVIEW_REQUIRED")

budgetChanges(before, after) ==
    {Weakening(b) : b \in {k \in BudgetKinds : after.budgets[k] > before.budgets[k]}}
    \cup {Strengthening(b) : b \in {k \in BudgetKinds : after.budgets[k] < before.budgets[k]}}

unsupportedChange(before, after) ==
    IF before.allow_unsupported = after.allow_unsupported THEN {}
    ELSE IF after.allow_unsupported THEN {Weakening("unsupported-policy-change")}
    ELSE {Strengthening("unsupported-policy-change")}

scopeChange(before, after) ==
    IF before.scope_files = after.scope_files THEN {}
    ELSE IF before.scope_files \subseteq after.scope_files
    THEN {Strengthening("checked-scope-change")}
    ELSE {Weakening("checked-scope-change")}

\* Files both left and joined the scope.
scopeReplaced(before, after) ==
    /\ before.scope_files \ after.scope_files # {}
    /\ after.scope_files \ before.scope_files # {}

\* The settings whose every change is reviewed.
ReviewedSettings ==
    {"safety_level", "base_ref", "profile", "frontend_standard", "frontend_arguments",
     "contracts_review_required", "pointer_output_contracts", "trusted_contracts"}

\* Fault: the pinned trust set is left out.
settingChangesUnpinned(before, after) ==
    {Review(s) : s \in {k \in ReviewedSettings \ {"trusted_contracts"} : before[k] # after[k]}}

settingChanges(before, after) ==
    {Review(s) : s \in {k \in ReviewedSettings : before[k] # after[k]}}

classify(changes, weakened, review_required) ==
    IF weakened THEN "PROOF_WEAKENING"
    ELSE IF review_required THEN "REVIEW_REQUIRED"
    ELSE IF changes # {} THEN "PROOF_STRENGTHENING"
    ELSE "NO_CHANGE"

comparePolicies(before, after) ==
    LET changes == budgetChanges(before, after) \cup unsupportedChange(before, after)
                   \cup scopeChange(before, after) \cup settingChanges(before, after)
        weakened == \E c \in changes : c.classification = "PROOF_WEAKENING"
        review == \/ \E c \in changes : c.classification = "REVIEW_REQUIRED"
                  \/ scopeReplaced(before, after)
    IN  [changes |-> changes, weakened |-> weakened, review_required |-> review,
         classification |-> classify(changes, weakened, review)]

\* cand policy diff: 0 says that the change needs no human.  A first policy
\* always does.
policyDiffExit(baseText, headText) ==
    IF ~readsAsPolicy(headText) THEN 2
    ELSE IF baseText = Absent THEN 4
    ELSE IF ~readsAsPolicy(baseText) THEN 2
    ELSE LET diff == comparePolicies(loadPolicyText(baseText), loadPolicyText(headText))
         IN  IF diff.weakened \/ diff.review_required THEN 4 ELSE 0

-----------------------------------------------------------------------------
(* The yardstick the comparison is measured against. *)

\* after admits nothing that before refuses: no budget is larger, nothing
\* unsupported is newly allowed, no file leaves the checked scope, and what a
\* human has to read is what it was.
AtLeastAsStrict(before, after) ==
    /\ \A b \in BudgetKinds : after.budgets[b] <= before.budgets[b]
    /\ after.allow_unsupported => before.allow_unsupported
    /\ before.scope_files \subseteq after.scope_files
    /\ \A s \in ReviewedSettings : after[s] = before[s]
=============================================================================
