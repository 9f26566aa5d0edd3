---------------------------- MODULE RoundRobin ----------------------------
(***************************************************************************)
(* What the weighted round robin balancer of the fair queue amounts to     *)
(* when every weight is 1, the only weight fair.go ever passes             *)
(* (virtualcluster/pkg/util/fairqueue/fair.go:114-116): a ring of keys and *)
(* the 0-based position of the key handed out last, -1 before the first.   *)
(*                                                                         *)
(* The operators are pure, so that FairQueue can call Next several times   *)
(* in one critical section.  WeightedRR checks that the code of            *)
(* balancer/weightedroundrobin/scheduler.go implements them.               *)
(***************************************************************************)
EXTENDS Integers, Sequences

\* The keys of a ring.
RingKeys(ring) == {ring[j] : j \in 1..Len(ring)}

\* Position after k >= 1 consecutive calls of Next: with one key, Next hands it
\* out without moving.
PosAfter(ring, pos, k) ==
    IF Len(ring) = 1 THEN pos ELSE (pos + k) % Len(ring)

\* The key the k-th consecutive call of Next returns; the ring is not empty.
KeyAfter(ring, pos, k) ==
    IF Len(ring) = 1 THEN ring[1] ELSE ring[PosAfter(ring, pos, k) + 1]

\* 1-based place of a key that is in the ring.
IndexOf(ring, key) == CHOOSE j \in 1..Len(ring) : ring[j] = key

\* Remove closes the gap and moves the position back when the key was at or
\* before it, so that the key after the position is still the next one.
RingWithout(ring, key) ==
    LET j == IndexOf(ring, key)
    IN  [m \in 1..(Len(ring) - 1) |-> IF m < j THEN ring[m] ELSE ring[m + 1]]

\* Mutant of PosWithout: the position is not moved back.
PosKept(ring, pos, key) == pos

PosWithout(ring, pos, key) ==
    IF pos >= IndexOf(ring, key) - 1 THEN pos - 1 ELSE pos
=============================================================================
