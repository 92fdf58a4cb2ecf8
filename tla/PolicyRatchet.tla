---------------------------- MODULE PolicyRatchet ----------------------------
(***************************************************************************)
(* What the policy gate promises of origin/main: without a human, the      *)
(* policy in force can only become stricter than the one a human last      *)
(* reviewed, in however many small steps it changes.                       *)
(***************************************************************************)
EXTENDS GeneratedPolicy

VARIABLES
    inForce,     \* the policy text on origin/main
    reviewed     \* the one a human reviewed last

Init == reviewed = inForce

Tighten ==
    /\ readsAsPolicy(inForce')
    /\ AtLeastAsStrict(loadPolicyText(reviewed), loadPolicyText(inForce'))
    /\ UNCHANGED reviewed

HumanReview == reviewed' = inForce'

Next == Tighten \/ HumanReview
Spec == Init /\ [][Next]_<<inForce, reviewed>>
=============================================================================
