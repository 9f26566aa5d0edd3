------------------------ MODULE RoundRobinBalancer ------------------------
(***************************************************************************)
(* What the fair queue expects of its balancer: plain round robin over the *)
(* registered groups.  WeightedRR implements it when every weight is 1     *)
(* ("weightroundrobin will downgrade to roundrobin", fair.go:115).         *)
(***************************************************************************)
EXTENDS RoundRobin

CONSTANTS Key, NoKey
VARIABLES ring, pos, last
vars == <<ring, pos, last>>

Init == ring = <<>> /\ pos = -1 /\ last = NoKey

Add(key) ==
    /\ key \notin RingKeys(ring)
    /\ ring' = Append(ring, key)
    /\ UNCHANGED <<pos, last>>

Remove(key) ==
    /\ key \in RingKeys(ring)
    /\ ring' = RingWithout(ring, key)
    /\ pos' = PosWithout(ring, pos, key)
    /\ UNCHANGED last

Clear == ring' = <<>> /\ pos' = -1 /\ UNCHANGED last

Next ==
    /\ IF ring = <<>>
       THEN last' = NoKey /\ UNCHANGED pos
       ELSE last' = KeyAfter(ring, pos, 1) /\ pos' = PosAfter(ring, pos, 1)
    /\ UNCHANGED ring

Step ==
    \/ \E key \in Key : Add(key) \/ Remove(key)
    \/ Clear
    \/ Next

Spec == Init /\ [][Step]_vars
=============================================================================
