--------------------------- MODULE MCFairQueue ---------------------------
(* Instances of FairQueue for TLC. *)
EXTENDS FairQueue, TLC
CONSTANTS a1, a2, b1, A, B, w1, w2

\* A tenant with two items and one with one.
TwoGroups == a1 :> A @@ a2 :> A @@ b1 :> B
=============================================================================
