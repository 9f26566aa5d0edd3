------------------------- MODULE MCSyncerClusters -------------------------
(* Instances of SyncerClusters for TLC. *)
EXTENDS SyncerClusters
=============================================================================
