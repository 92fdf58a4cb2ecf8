------------------------- MODULE FunctionSummaries -------------------------
(***************************************************************************)
(* FunctionSummary of src/src/cand.cpp: what a caller may rely on about a  *)
(* function.  Parameters are numbered from 1, and 0 stands for an absent   *)
(* parameter number.  The texts of contract conflicts are left out: they   *)
(* are there exactly when a contract set the conflict flag.                *)
(***************************************************************************)
EXTENDS Naturals, Sequences

ParamEffect == {"None", "Borrow", "TakeOwnership", "Destroy", "Unknown"}
ReturnEffect == {"None", "Owned", "BorrowFromArg", "Unknown"}
\* The source declares two more origins and gives them to no summary.
SummaryOrigin == {"BodyVerified", "ExternalTrusted", "AnnotationTrusted", "Unknown"}

FunctionSummary ==
    [params : Seq(ParamEffect), return_effect : ReturnEffect,
     return_borrow_arg : Nat, origin : SummaryOrigin, conflict : BOOLEAN]

\* The two effects after which the caller no longer owns the object.
Consuming == {"TakeOwnership", "Destroy"}

AllUnknown(arity) == [i \in 1 .. arity |-> "Unknown"]
=============================================================================
