-------------------------- MODULE MCMCController --------------------------
(* Instances of MCController for TLC. *)
EXTENDS MCController, TLC
CONSTANTS a1, b1, A, B, w1, w2

OneItem   == a1 :> A
TwoGroups == a1 :> A @@ b1 :> B
=============================================================================
