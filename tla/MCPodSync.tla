----------------------------- MODULE MCPodSync -----------------------------
(* Instances of PodSync for TLC. *)
EXTENDS PodSync
=============================================================================
