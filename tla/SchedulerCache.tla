---------------------------- MODULE SchedulerCache ----------------------------
(***************************************************************************)
(* virtualcluster/experiment/pkg/scheduler/cache, engine and algorithm:    *)
(* the scheduler's view of one tenant's namespaces and pods and of the     *)
(* super clusters they are placed in, and how it finds placements.         *)
(*                                                                         *)
(* The cache is a value, changed under one lock by each operation.  It is  *)
(*   tenant      is the tenant known?                                      *)
(*   clusters    the known super clusters; a shadow cluster stands for one *)
(*               that a namespace is placed in but nobody has reported yet *)
(*   namespaces  namespace -> its schedule: slices by cluster              *)
(*   pods        pod -> the cluster it is placed in                        *)
(* An operation returns the set of its outcomes, [err, cache]: there are   *)
(* several where the source ranges over a map.  Quotas and capacities are  *)
(* amounts of one resource; the unit of scheduling is a slice of it.       *)
(***************************************************************************)
EXTENDS Integers, FiniteSetsExt, Functions, TLC

CONSTANTS Clusters,    \* super clusters
          Namespaces,  \* namespaces of the tenant
          Pods,        \* pods of the tenant
          Home,        \* pod -> its namespace
          SliceSize,   \* the size of a slice (DefaultNamespaceSlice)
          Request      \* what a pod requests

ASSUME SchedulerAssumption ==
    /\ "" \notin Clusters /\ Home \in [Pods -> Namespaces]
    /\ SliceSize \in Nat \ {0} /\ Request \in Nat

\* Names of clusters, as they appear in placements.
Names == Clusters \cup {""}
NoPlacement == [c \in Names |-> 0]
NoSlices == [n \in Namespaces |-> 0]
ShadowClusterCapacity == 1000  \* "unlimited"

Slices(placement) == MapThenSumSet(LAMBDA c : placement[c], DOMAIN placement)
Placed(placement) == {c \in Names : placement[c] > 0}
Amount(items) == SliceSize * Slices(items)
Without(f, S) == Restrict(f, DOMAIN f \ S)
Ok(K) == {[err |-> FALSE, cache |-> K]}
Error(K) == {[err |-> TRUE, cache |-> K]}

\* Slices that are needed for a quota; 0 if a slice is larger than the quota.
GetLeastFitSliceNum(quota) ==
    IF quota < SliceSize THEN 0 ELSE (quota + SliceSize - 1) \div SliceSize

-----------------------------------------------------------------------------
(* cache/cluster.go: allocItems are what the scheduler has placed in the    *)
(* cluster, provisionItems what the cluster has been seen to have.          *)

NewCluster(capacity) ==
    [shadow |-> FALSE, capacity |-> capacity, allocItems |-> NoSlices,
     provisionItems |-> NoSlices, pods |-> {}]
ShadowCluster == [NewCluster(ShadowClusterCapacity) EXCEPT !.shadow = TRUE]
State(K, c) == IF c \in DOMAIN K.clusters THEN K.clusters[c] ELSE ShadowCluster

\* Is there room for the items of a key that is not there yet?
addItem(items, capacity, n, num) ==
    items[n] = 0 /\ Amount(items) + num * SliceSize <= capacity

CanAdd(K, c, n, num) == addItem(State(K, c).allocItems, State(K, c).capacity, n, num)
WithItems(K, n, S, placement) ==
    [K EXCEPT !.clusters = [c \in DOMAIN @ \cup S |->
        IF c \in S THEN [State(K, c) EXCEPT !.allocItems[n] = placement[c]] ELSE @[c]]]

-----------------------------------------------------------------------------
(* cache/cache.go *)

GarbageCollection(K) ==
    [K EXCEPT !.clusters = Without(@, {c \in DOMAIN @ : @[c].shadow})]
AddTenant(K) == [K EXCEPT !.tenant = TRUE]

\* Shadow clusters stay when the rest is rolled back.
addNamespaceWithoutLock(K, n, schedule) ==
    LET P == Placed(schedule)
    IN IF n \in DOMAIN K.namespaces THEN Error(K)
       ELSE IF \A c \in P : CanAdd(K, c, n, schedule[c])
       THEN Ok([WithItems(K, n, P, schedule) EXCEPT !.namespaces = n :> schedule @@ @])
       ELSE UNION {Error([K EXCEPT !.clusters = [c \in S |-> ShadowCluster] @@ @]) :
                   S \in SUBSET (P \ DOMAIN K.clusters)}

\* A cluster that is not there is an error.  Items removed before it are put back if they
\* still fit.
removeNamespaceWithoutLock(K, n, schedule) ==
    LET P == Placed(schedule)
        Known == P \cap DOMAIN K.clusters
        Removed(S) == WithItems(K, n, S, NoPlacement)
        Fitting(S) == {c \in S : CanAdd(Removed(S), c, n, schedule[c])}
    IN CASE n \notin DOMAIN K.namespaces -> Error(K)
         [] n \in DOMAIN K.namespaces /\ P \subseteq Known ->
                Ok([Removed(P) EXCEPT !.namespaces = Without(@, {n})])
         [] OTHER -> UNION {Error(WithItems(Removed(S), n, Fitting(S), schedule)) :
                            S \in SUBSET Known}

\* A failed addition puts the old namespace back, if it can.
updateNamespaceWithoutLock(K, n, old, new) ==
    UNION {IF r.err THEN {r}
           ELSE UNION {IF a.err THEN {[err |-> TRUE, cache |-> b.cache] :
                                      b \in addNamespaceWithoutLock(a.cache, n, old)}
                       ELSE {a} : a \in addNamespaceWithoutLock(r.cache, n, new)} :
           r \in removeNamespaceWithoutLock(K, n, old)}

AddNamespace(K, n, schedule) ==
    IF ~K.tenant THEN Ok(K)
    ELSE IF n \in DOMAIN K.namespaces
    THEN updateNamespaceWithoutLock(K, n, K.namespaces[n], schedule)
    ELSE addNamespaceWithoutLock(K, n, schedule)
UpdateNamespace(K, n, old, new) ==
    IF ~K.tenant THEN Ok(K) ELSE updateNamespaceWithoutLock(K, n, old, new)
RemoveNamespace(K, n, schedule) == removeNamespaceWithoutLock(K, n, schedule)

\* All namespaces of the tenant go, one by one, or those that went are put back.
RemoveTenant(K) ==
    LET Failing == {n \in DOMAIN K.namespaces :
                    ~(Placed(K.namespaces[n]) \subseteq DOMAIN K.clusters)}
        Gone(S) == [c \in DOMAIN K.clusters |->
                    [K.clusters[c] EXCEPT !.allocItems = [n \in Namespaces |->
                        IF n \in S /\ c \in Placed(K.namespaces[n]) THEN 0 ELSE @[n]]]]
        Removed(S) == [K EXCEPT !.clusters = Gone(S), !.namespaces = Without(@, S)]
        PutBack(R, S) == FoldSet(LAMBDA n, Rs : UNION {addNamespaceWithoutLock(r.cache, n, K.namespaces[n])
                                                       : r \in Rs}, R, S)
    IN IF Failing = {}
       THEN Ok([Removed(DOMAIN K.namespaces) EXCEPT !.tenant = FALSE])
       ELSE UNION {UNION {{[err |-> TRUE, cache |-> r.cache] : r \in
                           PutBack(removeNamespaceWithoutLock(Removed(S), f, K.namespaces[f]), S)} :
                          S \in SUBSET (DOMAIN K.namespaces \ Failing)} : f \in Failing}

PodGone(K, p) == [K EXCEPT !.clusters[K.pods[p]].pods = @ \ {p}]
AddPod(K, p, c) ==
    LET moves == p \in DOMAIN K.pods /\ K.pods[p] # c
        L == IF moves THEN PodGone(K, p) ELSE K
    IN CASE p \in DOMAIN K.pods /\ ~moves -> Ok(K)
         [] moves /\ K.pods[p] \notin DOMAIN K.clusters -> Error(K)
         [] (moves => K.pods[p] \in DOMAIN K.clusters) /\ c \notin DOMAIN K.clusters
            /\ (moves \/ p \notin DOMAIN K.pods) -> Error(L)
         [] OTHER -> Ok([L EXCEPT !.clusters[c].pods = @ \cup {p}, !.pods = p :> c @@ @])
\* The pod as the caller has read it, in cluster c.
RemovePod(K, p, c) ==
    CASE p \notin DOMAIN K.pods -> Ok(K)
      [] p \in DOMAIN K.pods /\ c \notin DOMAIN K.clusters -> Error(K)
      [] OTHER -> Ok([K EXCEPT !.clusters[c].pods = @ \ {p}, !.pods = Without(@, {p})])

updateClusterNonAllocationStates_Replaces(K, c, new) == [K EXCEPT !.clusters[c] = new]
\* What was placed in a known cluster stays, the rest is replaced.
updateClusterNonAllocationStates(K, c, new) ==
    [K EXCEPT !.clusters[c] = [new EXCEPT !.allocItems = K.clusters[c].allocItems,
                                          !.pods = K.clusters[c].pods]]
AddCluster(K, c, new) ==
    IF c \in DOMAIN K.clusters THEN updateClusterNonAllocationStates(K, c, new)
    ELSE [K EXCEPT !.clusters = c :> new @@ @]
RemoveCluster(K, c) == [K EXCEPT !.clusters = Without(@, {c})]
UpdateClusterCapacity(K, c, capacity) ==
    IF c \in DOMAIN K.clusters THEN [K EXCEPT !.clusters[c].capacity = capacity] ELSE K

\* The old items are gone even if the new ones do not fit.
RemoveProvision(K, c, n) ==
    IF c \in DOMAIN K.clusters THEN Ok([K EXCEPT !.clusters[c].provisionItems[n] = 0])
    ELSE Error(K)
AddProvision(K, c, n, num) ==
    UNION {LET s == r.cache.clusters[c]
           IN IF r.err THEN {r}
              ELSE IF addItem(s.provisionItems, s.capacity, n, num)
              THEN Ok([r.cache EXCEPT !.clusters[c].provisionItems[n] = num])
              ELSE Error(r.cache) : r \in RemoveProvision(K, c, n)}

-----------------------------------------------------------------------------
(* cache/snapshot.go and algorithm/namespacesched.go *)

MaxAlloc(u) == IF u.alloc < u.provision THEN u.provision ELSE u.alloc
fitSlice(request, u) == MaxAlloc(u) + request <= u.capacity
UsedBy(s, n) == [s.allocItems EXCEPT ![n] = 0]

\* The clusters that take part in scheduling, as if namespace n was not there.
SnapshotForNamespaceSched(K, n) ==
    [c \in {d \in DOMAIN K.clusters : ~K.clusters[d].shadow} |->
        [capacity |-> K.clusters[c].capacity,
         alloc |-> Amount(IF n \in DOMAIN K.namespaces /\ c \in Placed(K.namespaces[n])
                          THEN UsedBy(K.clusters[c], n) ELSE K.clusters[c].allocItems),
         provision |-> Amount(K.clusters[c].provisionItems)]]
\* A placement without its items is taken for an inconsistency.
Inconsistent(K, n) ==
    /\ n \in DOMAIN K.namespaces
    /\ \E c \in Placed(K.namespaces[n]) \cap DOMAIN K.clusters :
           ~K.clusters[c].shadow /\ K.clusters[c].allocItems[n] = 0

\* How many more slices fit, if k are added already.
Room(u, k) ==
    Cardinality({i \in 1..(u.capacity \div SliceSize) :
                 i > k /\ fitSlice(SliceSize, [u EXCEPT !.alloc = @ + (i - 1) * SliceSize])})

\* The first num slices of a placement, in the order in which a map gives its keys.
Orders == {f \in [1..Cardinality(Names) -> Names] : \A i, j \in DOMAIN f : f[i] = f[j] => i = j}
Prefixes(placement, num) ==
    {[c \in Names |->
        LET i == CHOOSE j \in DOMAIN o : o[j] = c
            before == MapThenSumSet(LAMBDA j : placement[o[j]], 1..(i - 1))
            left == IF num < before THEN 0 ELSE num - before
        IN IF placement[c] < left THEN placement[c] ELSE left] : o \in Orders}

\* Slices with a mandatory cluster, and then with an old placement as a hint.
GetSlicesToSchedule(total, placement, old) ==
    UNION {LET Rest == [c \in Names |-> IF old[c] < m[c] THEN 0 ELSE old[c] - m[c]]
           IN {[mandatory |-> m, hint |-> h] : h \in Prefixes(Rest, total - Slices(m))} :
           m \in Prefixes(placement, total)}

\* The clusters for the slices without a mandatory one.  A hint is of no use: it is only
\* looked at if its cluster is not there, and then the scheduler dies of it.  Without any
\* cluster, the result is the cluster with no name.
FreeSlices(usage, taken, num) ==
    IF DOMAIN usage = {} THEN {[NoPlacement EXCEPT ![""] = num]}
    ELSE {f \in [Names -> 0..num] :
          Slices(f) = num /\ Placed(f) \subseteq DOMAIN usage
          /\ \A c \in Placed(f) : f[c] <= Room(usage[c], taken[c])}

Panics(usage, slices) == ~(Placed(slices.hint) \ {""} \subseteq DOMAIN usage)
\* The outcomes for one array of slices, none if there is an error.  A mandatory cluster
\* without a name is no mandatory cluster.
ScheduleNamespaceSlices(usage, slices, total) ==
    LET m == [slices.mandatory EXCEPT ![""] = 0]
        Fits == \A c \in Placed(m) : c \in DOMAIN usage /\ m[c] <= Room(usage[c], 0)
    IN IF Fits THEN {[c \in Names |-> m[c] + f[c]] : f \in FreeSlices(usage, m, total - Slices(m))}
       ELSE {}

\* The clusters of the namespace in which a pod fits.
SnapshotForPodSched(K, p) ==
    LET n == Home[p]
        Others(c) == {q \in DOMAIN K.pods \ {p} : Home[q] = n /\ K.pods[q] = c
                                                  /\ \E d \in DOMAIN K.clusters : q \in K.clusters[d].pods}
    IN [c \in Placed(K.namespaces[n]) |->
            [capacity |-> SliceSize * K.namespaces[n][c], alloc |-> Request * Cardinality(Others(c)),
             provision |-> 0]]
MessedUp(K, p) ==
    \E c \in DOMAIN K.clusters : \E q \in K.clusters[c].pods \ {p} :
        Home[q] = Home[p] /\ (q \notin DOMAIN K.pods \/ K.namespaces[Home[p]][K.pods[q]] = 0)
SchedulePod(usage) ==
    LET Fitting == {c \in DOMAIN usage : fitSlice(Request, usage[c])}
    IN IF Fitting = {} THEN {""} ELSE Fitting
=============================================================================
