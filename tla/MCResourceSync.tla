---------------------------- MODULE MCResourceSync ----------------------------
(* ResourceSync for TLC: every kind in turn; and, in behaviours of their     *)
(* own, the virtual nodes of VirtualNodes.  The two share no state: either   *)
(* no tenant has pods, or the objects of ResourceSync are at rest.           *)
EXTENDS ResourceSync, VirtualNodes

MCPods == {"a", "b"}
MCKinds == UpwardKinds \cup DownwardKinds
MCMaxEvents == [k \in MCKinds |-> IF k \in {"service", "satoken"} THEN 2 ELSE 3]

OfNodes == podPatrol # NoTenant
MCInit == Init /\ NodeInit /\ (OfNodes => kind = "event" /\ ~related)
MCNext ==
    \/ ~OfNodes /\ Next /\ UNCHANGED nodeVars
    \/ OfNodes /\ NodeNext /\ UNCHANGED vars
MCSpec == MCInit /\ [][MCNext]_<<vars, nodeVars>> /\ Fairness /\ NodeFairness
=============================================================================
