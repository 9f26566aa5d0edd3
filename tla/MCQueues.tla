------------------------------ MODULE MCQueues ------------------------------
(* The parts of the fair queue for TLC, in behaviours of their own: the       *)
(* balancer, with its properties, or the delayed adds.  They share no state.  *)
EXTENDS WeightedRR, DelayingQueue

VARIABLE part

\* The states of the walk after 0, 1, 2, ... calls of Next from this one, and the
\* key the k-th call returns.
Calls == LET C[k \in Nat] == IF k = 0 THEN [i |-> i, cw |-> cw] ELSE NextStop(C[k - 1])
         IN  C
Returned(k) == nodes[Calls[k].i + 1].key

Turns(j) == nodes[j].weight \div gcd
Cycle == MapThenFoldSet(LAMBDA t, acc : t + acc, 0, Turns,
                        LAMBDA S : CHOOSE j \in S : TRUE, 1..n)

\* Once a cycle has begun (cw > 0), any Cycle consecutive calls of Next return
\* every key exactly weight/gcd times, wherever in the cycle they start and
\* whatever was added before: this is the fairness the queue is named after.
Proportional ==
    (n >= 2 /\ cw > 0) =>
      \A j \in 1..n :
        Cardinality({k \in 1..Cycle : Returned(k) = nodes[j].key}) = Turns(j)

\* "weightroundrobin will downgrade to roundrobin" (fair.go:115): while every
\* registered weight is 1, also after heavier keys have come and gone, the balancer
\* is the plain round robin that FairQueue uses in its place.
Balancer == INSTANCE RoundRobinBalancer
              WITH ring <- [j \in 1..n |-> nodes[j].key],
                   pos <- IF n = 0 THEN -1 ELSE i
AllOnes == \A j \in 1..n : nodes[j].weight = 1
DowngradesToRoundRobin ==
    /\ Balancer!Init
    /\ [][AllOnes /\ AllOnes' => [Balancer!Step]_(Balancer!vars)]_balancer
-----------------------------------------------------------------------------
MCInit == part \in {"balancer", "delaying"} /\ BalancerInit /\ Init
MCNext ==
    /\ UNCHANGED part
    /\ \/ part = "balancer" /\ Step /\ UNCHANGED vars
       \/ part = "delaying" /\ QueueNext /\ UNCHANGED balancer
MCSpec == MCInit /\ [][MCNext]_<<part, balancer, vars>> /\ Fairness
=============================================================================
