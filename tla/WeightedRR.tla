---------------------------- MODULE WeightedRR ----------------------------
(***************************************************************************)
(* The weighted round robin balancer of the fair queue,                    *)
(* virtualcluster/pkg/util/fairqueue/balancer/weightedroundrobin/          *)
(* scheduler.go.  The struct is not thread safe: the fair queue calls it   *)
(* under its own lock, so every method is one step.                        *)
(*                                                                         *)
(* keySet is the set of the nodes' keys and n their number; both are       *)
(* derived here.  `last` is what the last call of Next returned.           *)
(***************************************************************************)
EXTENDS Integers, Sequences, FiniteSets, Folds, RoundRobin

CONSTANTS Key,      \* keys that may be registered
          Weight,   \* weights callers pass
          NoKey     \* the empty string Next returns when there is no node

ASSUME KeyAssumption == IsFiniteSet(Key) /\ NoKey \notin Key
\* A node of weight 0 makes gcd divide by zero when Remove recomputes the divisor
\* (scheduler.go:122); the fair queue passes the constant 1.
ASSUME WeightAssumption == IsFiniteSet(Weight) /\ Weight \subseteq Nat \ {0}

VARIABLES nodes, gcd, maxW, i, cw, last
balancer == <<nodes, gcd, maxW, i, cw, last>>

n == Len(nodes)
keySet == {nodes[j].key : j \in 1..n}

BalancerTypeOK ==
    /\ nodes \in Seq([key : Key, weight : Weight])
    /\ gcd \in Int /\ maxW \in Int /\ cw \in Int
    /\ i \in (-1)..(IF n = 0 THEN 0 ELSE n - 1)
    /\ last \in Key \cup {NoKey}

\* Euclid's loop with Go's truncated remainder: a negative x (the -1 of an empty
\* list) has no positive remainder, so the loop ends at once.
Gcd(x, y) ==
    LET G[a \in Nat, b \in Nat] == IF a % b > 0 THEN G[b, a % b] ELSE b
    IN  IF x < 0 THEN y ELSE G[x, y]

\* gcd and maximum of the weights of a list, -1 when it is empty.
WeightGcd(ns) ==
    MapThenFoldSet(LAMBDA w, d : IF d = -1 THEN w ELSE Gcd(d, w), -1,
                   LAMBDA j : ns[j].weight, LAMBDA S : CHOOSE j \in S : TRUE,
                   1..Len(ns))
WeightMax(ns) ==
    MapThenFoldSet(LAMBDA w, m : IF w > m THEN w ELSE m, -1,
                   LAMBDA j : ns[j].weight, LAMBDA S : CHOOSE j \in S : TRUE,
                   1..Len(ns))

-----------------------------------------------------------------------------
BalancerInit ==
    /\ nodes = <<>> /\ gcd = 0 /\ maxW = 0 /\ i = 0 /\ cw = 0
    /\ last = NoKey

Add(ref, weight) ==
    /\ ref \notin keySet
    /\ LET first == gcd = 0
       IN  /\ gcd' = IF first THEN weight ELSE Gcd(gcd, weight)
           /\ maxW' = IF first \/ maxW < weight THEN weight ELSE maxW
           /\ i' = IF first THEN -1 ELSE i
           /\ cw' = IF first THEN 0 ELSE cw
    /\ nodes' = Append(nodes, [key |-> ref, weight |-> weight])
    /\ UNCHANGED last

\* Mutant of Advance: the current weight goes down by 1.
AdvanceByOne(s) ==
    LET j == (s.i + 1) % n
        c == s.cw - 1
    IN  [i |-> j, cw |-> IF j # 0 THEN s.cw ELSE IF c <= 0 THEN maxW ELSE c]

\* One turn of the loop in Next: the next node, and a lower current weight each
\* time the walk comes back to the first node.
Advance(s) ==
    LET j == (s.i + 1) % n
        c == s.cw - gcd
    IN  [i |-> j, cw |-> IF j # 0 THEN s.cw ELSE IF c <= 0 THEN maxW ELSE c]

\* The loop ends at a node at least as heavy as the current weight.
Stops(s) == nodes[s.i + 1].weight >= s.cw

\* The state in which one call of Next that starts in s returns, for n >= 2.  A
\* walk passes every current weight from maxW down in maxW + 1 rounds.
MaxTurns == n * (maxW + 1)
NextStop(s) ==
    LET Walk[k \in Nat] == IF k = 0 THEN s ELSE Advance(Walk[k - 1])
        k == CHOOSE k \in 1..MaxTurns :
                 Stops(Walk[k]) /\ \A m \in 1..(k - 1) : ~Stops(Walk[m])
    IN  Walk[k]

Next ==
    /\ UNCHANGED <<nodes, gcd, maxW>>
    /\ IF n >= 2
       THEN LET s == NextStop([i |-> i, cw |-> cw])
            IN  i' = s.i /\ cw' = s.cw /\ last' = nodes[s.i + 1].key
       ELSE /\ last' = IF n = 0 THEN NoKey ELSE nodes[1].key
            /\ UNCHANGED <<i, cw>>

\* Mutant of Remove: the position is not moved back with the gap.
RemoveKeepsPos(ref) ==
    /\ ref \in keySet
    /\ LET j == CHOOSE j \in 1..n : nodes[j].key = ref
           ns == SubSeq(nodes, 1, j - 1) \o SubSeq(nodes, j + 1, n)
       IN  nodes' = ns /\ maxW' = WeightMax(ns) /\ gcd' = WeightGcd(ns)
    /\ cw' = 0
    /\ UNCHANGED <<i, last>>

Remove(ref) ==
    /\ ref \in keySet
    /\ LET j == CHOOSE j \in 1..n : nodes[j].key = ref
           ns == SubSeq(nodes, 1, j - 1) \o SubSeq(nodes, j + 1, n)
       IN  /\ nodes' = ns
           /\ i' = IF i >= j - 1 THEN i - 1 ELSE i
           /\ maxW' = WeightMax(ns)
           /\ gcd' = WeightGcd(ns)
    /\ cw' = 0
    /\ UNCHANGED last

Clear ==
    /\ nodes' = <<>> /\ gcd' = 0 /\ maxW' = 0 /\ i' = -1 /\ cw' = 0
    /\ UNCHANGED last

Step ==
    \/ \E ref \in Key, weight \in Weight : Add(ref, weight)
    \/ \E ref \in Key : Remove(ref)
    \/ Clear
    \/ Next

BalancerSpec == BalancerInit /\ [][Step]_balancer
=============================================================================
