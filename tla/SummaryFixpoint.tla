--------------------------- MODULE SummaryFixpoint ---------------------------
(***************************************************************************)
(* TranslationUnitVisitor::prepare of src/src/cand.cpp: the summaries of   *)
(* all functions of a translation unit, before any of them is analysed.    *)
(*                                                                         *)
(* Every body starts as Unknown.  A round builds all bodies anew from the  *)
(* summaries of the round before; it is the last one when it changed       *)
(* nothing, or when there have been as many rounds as declarations and one *)
(* more.  Reviewed annotations and contracts then add summaries of         *)
(* external functions, and the rounds start over with those in reach.      *)
(***************************************************************************)
EXTENDS SummaryBuilder, ContractMerge

CONSTANT Units     \* the translation units to analyse

\* bodies: the functions with a body, by name.  functions: their declarations,
\* in order, each the definition or not.  externals: the declarations of the
\* others.  annotated and contracts: in the order of their symbols.
IsUnit(u) ==
    /\ DOMAIN u.bodies \subseteq STRING
    /\ \A f \in DOMAIN u.bodies : IsFunction(u.bodies[f])
    /\ u.functions \in Seq([name : DOMAIN u.bodies, definition : BOOLEAN])
    /\ \A f \in DOMAIN u.bodies : \E i \in DOMAIN u.functions : u.functions[i].name = f
    /\ \A x \in DOMAIN u.externals : IsDeclaration(u.externals[x])
    /\ DOMAIN u.externals \cap DOMAIN u.bodies = {}
    /\ Len(u.annotated) \in Nat
    /\ \A i \in 1 .. Len(u.annotated) :
          /\ IsAnnotated(u.annotated[i])
          /\ u.annotated[i].symbol \in DOMAIN u.externals
    /\ \A x \in DOMAIN u.manifest : u.manifest[x] \in Facts
    /\ Len(u.contracts) \in Nat /\ DOMAIN u.contracts = 1 .. Len(u.contracts)
    /\ \A i \in 1 .. Len(u.contracts) :
          /\ u.contracts[i].symbol \in DOMAIN u.externals \cup DOMAIN u.bodies
          /\ u.contracts[i].facts \in Facts

ASSUME UnitAssumption == \A u \in Units : IsUnit(u)

VARIABLES
    unit,        \* the translation unit
    phase,       \* "infer", "annotations", "contracts", "reinfer" or "done"
    round,       \* the number of the round
    position,    \* how far this round, or list, has come
    store,       \* summaries_: name -> FunctionSummary
    next,        \* the store this round builds
    unreviewed,      \* annotated symbols without a matching review
    conflicting,     \* annotated symbols that contradict themselves
    contract_error   \* whether a trusted input was malformed

vars == <<unit, phase, round, position, store, next,
          unreviewed, conflicting, contract_error>>
reviewVars == <<unreviewed, conflicting, contract_error>>

Bodies == DOMAIN unit.bodies
Declaration(x) == IF x \in Bodies THEN unit.bodies[x] ELSE unit.externals[x]

unknownSummary(arity) ==
    [params |-> AllUnknown(arity), return_effect |-> "Unknown",
     return_borrow_arg |-> 0, origin |-> "Unknown", conflict |-> FALSE]

With(m, k, v) == [x \in DOMAIN m \cup {k} |-> IF x = k THEN v ELSE m[x]]

NoSummaries == [x \in {} |-> unknownSummary(0)]

-----------------------------------------------------------------------------

Init ==
    /\ unit \in Units
    /\ phase = "infer"
    /\ round = 0
    /\ position = 0
    /\ store = [f \in Bodies |-> unknownSummary(unit.bodies[f].arity)]
    /\ next = NoSummaries
    /\ unreviewed = {}
    /\ conflicting = {}
    /\ contract_error = FALSE

Rounds == phase \in {"infer", "reinfer"}

\* Fault: a conflict is rebuilt like everything else.
PinnedNever(f) == FALSE

\* The second time, an explicit conflict is preserved.
Pinned(f) == phase = "reinfer" /\ f \in DOMAIN store /\ store[f].conflict

\* One declaration of a round.
Build ==
    /\ Rounds
    /\ position < Len(unit.functions)
    /\ LET declared == unit.functions[position + 1]
           f == declared.name
       IN  next' = IF Pinned(f) THEN next
                   ELSE With(next, f, build(unit.bodies[f], declared.definition, store))
    /\ position' = position + 1
    /\ UNCHANGED <<unit, phase, round, store, reviewVars>>

\* Fault: the comparison comes after next has become the store.
StableAlways == TRUE

Stable == next = store

LastRound == round = Len(unit.functions)

Following(p) == IF p = "infer" THEN "annotations" ELSE "done"

EndRound ==
    /\ Rounds
    /\ position = Len(unit.functions)
    /\ position' = 0
    /\ store' = next
    /\ IF Stable \/ LastRound
       THEN phase' = Following(phase) /\ round' = 0 /\ next' = NoSummaries
       ELSE /\ UNCHANGED phase
            /\ round' = round + 1
            /\ next' = IF phase = "infer" THEN NoSummaries ELSE next
    /\ UNCHANGED <<unit, reviewVars>>

\* The annotated declarations in order; a malformed review entry ends it all.
ReviewAnnotation ==
    /\ phase = "annotations"
    /\ position < Len(unit.annotated)
    /\ LET a == unit.annotated[position + 1]
           d == unit.externals[a.symbol]
           listed    == a.symbol \in DOMAIN unit.manifest
           malformed == listed /\ Malformed(unit.manifest[a.symbol], d)
           relevant  == ~a.conflicting /\ a.eligible
           missing   == Unreviewed(a, unit.manifest)
       IN  /\ conflicting' = IF a.conflicting THEN conflicting \cup {a.symbol} ELSE conflicting
           /\ contract_error' = (contract_error \/ (relevant /\ malformed))
           /\ position' = IF relevant /\ malformed THEN Len(unit.annotated) ELSE position + 1
           /\ unreviewed' = IF relevant /\ ~malformed /\ missing
                            THEN unreviewed \cup {a.symbol} ELSE unreviewed
           /\ store' = IF relevant /\ ~malformed /\ ~missing
                       THEN With(store, a.symbol, annotationSummary(a, d)) ELSE store
    /\ UNCHANGED <<unit, phase, round, next>>

AnnotationsDone ==
    /\ phase = "annotations"
    /\ position = Len(unit.annotated)
    /\ phase' = "contracts"
    /\ position' = 0
    /\ UNCHANGED <<unit, round, store, next, reviewVars>>

Known(x) == IF x \in DOMAIN store THEN store[x] ELSE unknownSummary(Declaration(x).arity)

ApplyContract ==
    /\ phase = "contracts"
    /\ position < Len(unit.contracts)
    /\ position' = position + 1
    /\ LET c == unit.contracts[position + 1]
           d == Declaration(c.symbol)
       IN  IF Malformed(c.facts, d)
           THEN contract_error' = TRUE /\ UNCHANGED store
           ELSE /\ store' = With(store, c.symbol,
                                 contracted(Known(c.symbol), c.symbol, c.facts, d))
                /\ UNCHANGED contract_error
    /\ UNCHANGED <<unit, phase, round, next, unreviewed, conflicting>>

ContractsDone ==
    /\ phase = "contracts"
    /\ position = Len(unit.contracts)
    /\ phase' = "reinfer"
    /\ position' = 0
    /\ next' = store
    /\ UNCHANGED <<unit, round, store, reviewVars>>

Next ==
    \/ Build \/ EndRound
    \/ ReviewAnnotation \/ AnnotationsDone
    \/ ApplyContract \/ ContractsDone

Spec == Init /\ [][Next]_vars

-----------------------------------------------------------------------------
(* Properties *)

TypeOK ==
    /\ phase \in {"infer", "annotations", "contracts", "reinfer", "done"}
    /\ round \in Nat
    /\ position \in Nat
    /\ \A x \in DOMAIN store : store[x] \in FunctionSummary
    /\ \A x \in DOMAIN next : next[x] \in FunctionSummary
    /\ contract_error \in BOOLEAN

\* A trusted contract or annotation constrains the summary of a body and never
\* takes its place (ADR-0013: neither source blindly overrides the other).
BodiesWin ==
    \A f \in Bodies \cap DOMAIN store :
        store[f].origin \notin {"ExternalTrusted", "AnnotationTrusted"}

\* A conflict between a body and a contract, once noted, is there to stay: the
\* rounds that follow do not rebuild it away (ADR-0013: conflicts are pinned).
ConflictsStay ==
    [][(phase \in {"contracts", "reinfer"}) =>
          \A f \in Bodies : store[f].conflict => f \in DOMAIN store' /\ store'[f].conflict]_vars

\* The store agrees with itself: a round would give f the summary it has.
DefinitionLast(f) ==
    \E i \in DOMAIN unit.functions :
        /\ unit.functions[i] = [name |-> f, definition |-> TRUE]
        /\ \A j \in DOMAIN unit.functions : j > i => unit.functions[j].name # f
Solves(st, f) == st[f] = build(unit.bodies[f], DefinitionLast(f), st)

\* The rounds end before their bound only at summaries that agree with each
\* other, conflicts aside.
EarlyEndSolves ==
    [][(phase = "reinfer" /\ phase' = "done" /\ ~LastRound) =>
          \A f \in Bodies : f \in DOMAIN store' /\
              (store'[f].conflict \/ Solves(store', f))]_vars

\* Whether they ran out of rounds or not: what does not agree is not relied on
\* (SPEC-0001: non-convergence fails closed).
ConvergedOrClosed ==
    phase = "done" =>
        \A f \in Bodies :
            \/ store[f].conflict
            \/ Solves(store, f)
            \/ store[f].return_effect = "Unknown"
                  /\ \A i \in DOMAIN store[f].params : store[f].params[i] = "Unknown"

\* What a contract states of a body is what the body's final summary says, or
\* the disagreement is on record (ADR-0013).
ContractsAgree ==
    (phase = "done" /\ ~contract_error) =>
        \A i \in DOMAIN unit.contracts :
            LET c == unit.contracts[i]
            IN  c.symbol \in Bodies =>
                   store[c.symbol].conflict \/ Confirms(store[c.symbol], c.facts)
=============================================================================
