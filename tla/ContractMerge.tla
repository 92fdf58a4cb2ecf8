---------------------------- MODULE ContractMerge ----------------------------
(***************************************************************************)
(* What the reviewed facts about external functions do to the summaries:   *)
(* seedReviewedAnnotations and applyContractSymbol of src/src/cand.cpp.    *)
(*                                                                         *)
(* Facts are what a declaration's annotations, a review manifest or a      *)
(* contract bundle say of one symbol; "unstated" is an absent fact.  Every *)
(* symbol has a declaration: a contract for another one reaches no call.   *)
(* Out-owner facts belong to the pointer-output profile and are left out.  *)
(***************************************************************************)
EXTENDS FunctionSummaries

Facts ==
    [ret : ReturnEffect \cup {"unstated"}, borrow : Nat,
     params : Seq(ParamEffect \cup {"unstated"})]

\* The declaration of a function: its parameters, and whether it returns a
\* pointer.
IsDeclaration(d) == d.arity \in Nat /\ d.pointer \in BOOLEAN

\* Facts about parameters the function does not have.
Malformed(facts, d) ==
    Len(facts.params) > d.arity \/ facts.borrow > d.arity

Silent == {"unstated", "Unknown"}

\* Fault: a result nobody described stays undescribed.
ReturnAsStated(ret, d) == ret

ReturnOr(ret, d) ==
    IF ret # "unstated" THEN ret ELSE IF d.pointer THEN "Unknown" ELSE "None"

-----------------------------------------------------------------------------
(* Reviewed annotations *)

\* The facts gathered from the body-less declarations of one symbol; conflicting
\* and eligible are the verdicts of gatherAnnotatedDeclarations.  Annotated
\* parameters are effects, None without annotation.
IsAnnotated(a) ==
    /\ a.symbol \in STRING
    /\ a.facts \in Facts
    /\ a.facts.params \in Seq(ParamEffect)
    /\ a.conflicting \in BOOLEAN /\ a.eligible \in BOOLEAN

\* The manifest lists exactly the annotated facts.
annotationFactsMatch(facts, reviewed) ==
    /\ facts.ret = reviewed.ret
    /\ facts.ret = "BorrowFromArg" => facts.borrow = reviewed.borrow
    /\ \A i \in DOMAIN facts.params :
          LET listed == IF i \in DOMAIN reviewed.params THEN reviewed.params[i]
                                                        ELSE "unstated"
          IN  facts.params[i] = IF listed = "unstated" THEN "None" ELSE listed

\* Nobody with authority has confirmed the facts of a.
Unreviewed(a, manifest) ==
    \/ a.symbol \notin DOMAIN manifest
    \/ ~annotationFactsMatch(a.facts, manifest[a.symbol])

annotationSummary(a, d) ==
    [params |-> a.facts.params, return_effect |-> ReturnOr(a.facts.ret, d),
     return_borrow_arg |-> a.facts.borrow, origin |-> "AnnotationTrusted",
     conflict |-> FALSE]

-----------------------------------------------------------------------------
(* Contracts *)

\* realloc's two outcomes are outside the vocabulary.
externalSummary(symbol, contract, d) ==
    LET stated(i) == IF i \in DOMAIN contract.params /\ contract.params[i] # "unstated"
                     THEN contract.params[i] ELSE "Unknown"
        realloc == symbol = "realloc"
    IN  [params |-> IF realloc THEN AllUnknown(d.arity)
                    ELSE [i \in 1 .. d.arity |-> stated(i)],
         return_effect |-> IF realloc THEN "Unknown" ELSE ReturnOr(contract.ret, d),
         return_borrow_arg |-> IF realloc THEN 0 ELSE contract.borrow,
         origin |-> "ExternalTrusted", conflict |-> FALSE]

ParamOr(params, i) == IF i \in DOMAIN params THEN params[i] ELSE "Unknown"

\* A stated fact is confirmed by exactly that fact; silence by anything.
Confirms(summary, contract) ==
    /\ contract.ret \notin Silent =>
          /\ summary.return_effect = contract.ret
          /\ contract.ret = "BorrowFromArg" =>
                summary.return_borrow_arg = contract.borrow
    /\ \A i \in DOMAIN contract.params :
          contract.params[i] \notin Silent =>
              ParamOr(summary.params, i) = contract.params[i]

\* The summary two trusted sources leave behind when they contradict each other.
contradictedSummary(d) ==
    [params |-> AllUnknown(d.arity), return_effect |-> "Unknown",
     return_borrow_arg |-> 0, origin |-> "ExternalTrusted", conflict |-> TRUE]

\* Fault: a contract is taken at its word, whatever the body does.
ContractWins(old, symbol, contract, d) ==
    externalSummary(symbol, contract, d)

\* What a contract makes of the summary old its symbol has.  It never replaces
\* one of a body: it can only contradict it.
contracted(old, symbol, contract, d) ==
    CASE old.origin = "BodyVerified" ->
            IF Confirms(old, contract) THEN old ELSE [old EXCEPT !.conflict = TRUE]
      [] old.origin = "AnnotationTrusted" ->
            IF Confirms(old, contract) THEN externalSummary(symbol, contract, d)
                                       ELSE contradictedSummary(d)
      [] old.origin = "Unknown" -> externalSummary(symbol, contract, d)
      [] OTHER -> old
=============================================================================
