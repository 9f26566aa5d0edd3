----------------------------- MODULE MCScheduler -----------------------------
(* An instance of Scheduler for TLC: two super clusters, the first one with  *)
(* room for three slices, and a namespace that has been placed.  There is    *)
(* the second cluster or a second namespace, or the namespace is in both     *)
(* clusters: with a pod that has to be placed, or with changes of its quota  *)
(* until the tenant is read again beside the engine.  The tenant is called   *)
(* like its namespace, the super clusters are not.                           *)
EXTENDS Scheduler

MCHome == [p \in Pods |-> "n1"]
MCCapacity == [c \in Clusters |-> IF c = "c1" THEN 3 * SliceSize ELSE SliceSize]
Placed1 == [there |-> TRUE, quota |-> 2, placement |-> [NoPlacement EXCEPT !["c1"] = 1]]
Placed2 ==
    [there |-> TRUE, quota |-> 3, placement |-> [NoPlacement EXCEPT !["c1"] = 1, !["c2"] = 1]]
NotPlaced == [there |-> TRUE, quota |-> 2, placement |-> NoPlacement]
NotThere == [NotPlaced EXCEPT !.there = FALSE, !.quota = 0]
Outages == {"call", "outage", "boot", "expired", "restart", "health"}
Alone == {"lost", "quota", "early", "deleted", "pod", "nodes", "vc", "informers", "add", "giveup"}
MCBefore ==
    {[ns |-> [n \in Namespaces |-> IF n = "n1" THEN Placed1 ELSE NotThere],
      pod |-> [p \in Pods |-> [there |-> FALSE, cluster |-> ""]],
      plan |-> <<Outages, Outages>>, alone |-> Alone, quotas |-> {0, 2, 3},
      phase |-> [c \in Clusters |-> "Running"]],
     [ns |-> [n \in Namespaces |-> IF n = "n1" THEN Placed1 ELSE NotPlaced],
      pod |-> [p \in Pods |-> [there |-> TRUE, cluster |-> "c1"]],
      plan |-> <<Outages, Outages>>, alone |-> Alone, quotas |-> {0, 2, 3},
      phase |-> [c \in Clusters |-> IF c = "c1" THEN "Running" ELSE "Pending"]],
     [ns |-> [n \in Namespaces |-> IF n = "n1" THEN Placed2 ELSE NotThere],
      pod |-> [p \in Pods |-> [there |-> TRUE, cluster |-> ""]],
      plan |-> <<{"call", "health"}, {"call", "health"}>>,
      alone |-> {"lost", "pod", "vc"}, quotas |-> {},
      phase |-> [c \in Clusters |-> "Running"]],
     [ns |-> [n \in Namespaces |-> IF n = "n1" THEN Placed2 ELSE NotThere],
      pod |-> [p \in Pods |-> [there |-> FALSE, cluster |-> ""]],
      plan |-> <<{"quota"}, {"call"}, {"quota"}, {"health"}>>, alone |-> {}, quotas |-> {2, 3},
      phase |-> [c \in Clusters |-> "Running"]]}
MCSameName == {Vc}
=============================================================================
