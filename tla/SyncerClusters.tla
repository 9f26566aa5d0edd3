--------------------------- MODULE SyncerClusters ---------------------------
(***************************************************************************)
(* How the syncer follows one VirtualCluster (one namespace/name key),     *)
(* virtualcluster/pkg/syncer/syncer.go: the worker that handles the key,   *)
(* addCluster and removeCluster with s.mu, the goroutines of runCluster    *)
(* (one that starts the tenant's informers, one that waits for them), the  *)
(* life of a cluster.Cluster (pkg/util/cluster/cluster.go), and the        *)
(* registration of the cluster with the resource controllers               *)
(* (pkg/util/listener/adapter.go, pkg/util/mccontroller), of which one     *)
(* stands for all.                                                         *)
(*                                                                         *)
(* The resource controllers know a cluster by its cluster name, which      *)
(* contains a hash of the VirtualCluster's UID: the UID stands for it.     *)
(***************************************************************************)
EXTENDS Integers, FiniteSets

CONSTANTS Uid,           \* UIDs of the VirtualClusters that bear this name in turn
          None,          \* no object
          MaxInst,       \* bound: cluster.Cluster objects
          MaxChanges,    \* bound: changes of the VirtualCluster by its owner
          MaxFailures    \* bound: calls to the meta or the tenant's API that fail

Inst == 1..MaxInst

\* getCache makes a cluster object's cache when it is first asked for.  There are up
\* to two of them: nothing keeps the two goroutines from both finding none.
Cache == {"byWorker", "byStarter", "byWaiter"}

ASSUME NoneAssumption == None \notin Inst /\ None \notin Uid /\ None \notin Cache
ASSUME BoundAssumption ==
    /\ MaxChanges \in Nat /\ MaxFailures \in Nat
    /\ MaxInst \in Nat /\ MaxInst > (MaxChanges \div 2) + MaxFailures

VARIABLES
    vc,         \* the VirtualCluster the lister returns: [uid, phase], or None
    queued,     \* is the key in s.queue (dirty)?
    delayed,    \* is the key waiting for AddAfter or AddRateLimited?
    pc,         \* where the worker is with the key
    arg,        \* the vc the worker read
    clusterSet, \* s.clusterSet[key]: an Inst or None
    registry,   \* c.clusters of the resource controllers: [Uid -> Inst or None]
    made,       \* how many cluster objects were made so far: 1..made
    uidOf,      \* the UID a cluster object was made for
    cache,      \* c.cache of a cluster object: which goroutine made it
    starter,    \* the goroutine that runs cluster.Start
    waiter,     \* the goroutine that waits for the cache
    stopped,    \* cluster objects whose context was cancelled
    watched,    \* cluster objects that got the resource controllers' handlers
    changes, failures  \* how often the bounds were used

workVars == <<queued, delayed, pc, arg>>
instVars == <<uidOf, cache, starter, waiter, stopped, watched>>
boundVars == <<changes, failures>>
vars == <<vc, queued, delayed, pc, arg, clusterSet, registry, made, uidOf, cache, starter,
          waiter, stopped, watched, changes, failures>>

Phase == {"Pending", "Running", "Error"}
VC == [uid : Uid, phase : Phase]

TypeOK ==
    /\ vc \in VC \cup {None} /\ arg \in VC \cup {None}
    /\ queued \in BOOLEAN /\ delayed \in BOOLEAN
    /\ pc \in {"idle", "sync", "register", "store"}
    /\ pc \in {"register", "store"} <=> arg # None
    /\ clusterSet \in (1..made) \cup {None}
    /\ registry \in [Uid -> (1..made) \cup {None}]
    /\ made \in 0..MaxInst
    /\ uidOf \in [Inst -> Uid \cup {None}]
    /\ cache \in [Inst -> Cache \cup {None}]
    /\ starter \in [Inst -> Cache \cup {"none", "starting", "making", "failed"}]
    /\ waiter \in [Inst -> Cache \cup {"none", "starting", "making", "failed", "synced", "done"}]
    /\ stopped \subseteq Inst /\ watched \subseteq Inst
    /\ changes \in 0..MaxChanges /\ failures \in 0..MaxFailures

Init ==
    /\ vc = None /\ queued = FALSE /\ delayed = FALSE /\ pc = "idle" /\ arg = None
    /\ clusterSet = None /\ registry = [u \in Uid |-> None]
    /\ made = 0 /\ uidOf = [i \in Inst |-> None]
    /\ cache = [i \in Inst |-> None]
    /\ starter = [i \in Inst |-> "none"] /\ waiter = [i \in Inst |-> "none"]
    /\ stopped = {} /\ watched = {}
    /\ changes = 0 /\ failures = 0

-----------------------------------------------------------------------------
(* The owner of the VirtualCluster and its controller.  The informer updates *)
(* the lister and enqueueVirtualCluster adds the key.                        *)

Change(v) ==
    /\ changes < MaxChanges
    /\ changes' = changes + 1
    /\ vc' = v /\ v # vc
    /\ queued' = TRUE
    /\ UNCHANGED <<delayed, pc, arg, clusterSet, registry, made, instVars, failures>>

\* The name may be taken again before the syncer has handled the deletion.  The UID
\* is new (one that nothing remembers will do).
CreateVC(u) ==
    /\ vc = None
    /\ \A i \in 1..made : uidOf[i] # u
    /\ arg # None => arg.uid # u
    /\ Change([uid |-> u, phase |-> "Pending"])

SetPhase(p) == vc # None /\ Change([vc EXCEPT !.phase = p])

DeleteVC == vc # None /\ Change(None)

-----------------------------------------------------------------------------
(* The worker. *)

\* processNextWorkItem takes the key.
GetKey ==
    /\ pc = "idle" /\ queued
    /\ queued' = FALSE /\ pc' = "sync"
    /\ UNCHANGED <<vc, delayed, arg, clusterSet, registry, made, instVars, boundVars>>

\* The delay of AddAfter or AddRateLimited is over.
DelayedAdd ==
    /\ delayed
    /\ delayed' = FALSE /\ queued' = TRUE
    /\ UNCHANGED <<vc, pc, arg, clusterSet, registry, made, instVars, boundVars>>

\* Has cluster.Start set cancelContext?
Cancellable(i) == starter[i] \notin {"none", "starting"}

\* vc.Stop(): cancelContext does nothing before Start has set it.
Stop(i) == stopped' = IF Cancellable(i) THEN stopped \cup {i} ELSE stopped

\* Mutant of removeCluster: the resource controllers are not told.
removeClusterSilently ==
    IF clusterSet = None THEN UNCHANGED <<clusterSet, registry, stopped>>
    ELSE Stop(clusterSet) /\ clusterSet' = None /\ UNCHANGED registry

\* removeCluster, all under s.mu: stop the cluster's informers, tear it down in the
\* resource controllers (by cluster name), forget it.
removeCluster ==
    IF clusterSet = None THEN UNCHANGED <<clusterSet, registry, stopped>>
    ELSE /\ Stop(clusterSet)
         /\ registry' = [registry EXCEPT ![uidOf[clusterSet]] = None]
         /\ clusterSet' = None

\* syncVirtualCluster: the cluster of a deleted or failed VirtualCluster is removed.
SyncRemove ==
    /\ pc = "sync" /\ (vc = None \/ (vc # None /\ vc.phase = "Error"))
    /\ removeCluster
    /\ pc' = "idle"
    /\ UNCHANGED <<vc, queued, delayed, arg, made, uidOf, cache, starter, waiter, watched,
                   boundVars>>

SyncNotReady ==
    /\ pc = "sync" /\ vc # None /\ vc.phase = "Pending"
    /\ pc' = "idle"
    /\ UNCHANGED <<vc, queued, delayed, arg, clusterSet, registry, made, instVars, boundVars>>

SyncAdd ==
    /\ pc = "sync" /\ vc # None /\ vc.phase = "Running"
    /\ IF clusterSet # None
         \* addCluster: a key that has a cluster, of whichever UID, is left alone.
         THEN pc' = "idle" /\ UNCHANGED arg
         ELSE pc' = "register" /\ arg' = vc
    /\ UNCHANGED <<vc, queued, delayed, clusterSet, registry, made, instVars, boundVars>>

Fail == failures < MaxFailures /\ failures' = failures + 1

\* Mutant of AddFails: the key is not added again.
AddFailsForGood ==
    /\ pc = "register" /\ Fail
    /\ pc' = "idle" /\ arg' = None
    /\ UNCHANGED <<vc, queued, delayed, clusterSet, registry, made, instVars, changes>>

\* Mutant of AddFails: the error is not returned.
AddFailsGoesOn ==
    /\ pc = "register" /\ Fail
    /\ pc' = "store"
    /\ UNCHANGED <<vc, queued, delayed, arg, clusterSet, registry, made, instVars, changes>>

\* The tenant's kubeconfig cannot be read: the worker retries with back-off.
AddFails ==
    /\ pc = "register" /\ Fail
    /\ pc' = "idle" /\ arg' = None /\ delayed' = TRUE
    /\ UNCHANGED <<vc, queued, clusterSet, registry, made, instVars, changes>>

\* A cluster object is made and given to the resource controllers, which keep the
\* one they have under that cluster name, if any, and ask the object for an
\* informer, that is for its cache.  That failing is logged.
AddRegister ==
    /\ pc = "register"
    /\ made < MaxInst /\ made' = made + 1
    /\ uidOf' = [uidOf EXCEPT ![made'] = arg.uid]
    /\ registry' = [registry EXCEPT ![arg.uid] = IF @ = None THEN made' ELSE @]
    /\ \/ /\ cache' = [cache EXCEPT ![made'] = IF registry[arg.uid] = None THEN "byWorker" ELSE @]
          /\ UNCHANGED failures
       \/ Fail /\ UNCHANGED cache
    /\ pc' = "store"
    /\ UNCHANGED <<vc, queued, delayed, arg, clusterSet, starter, waiter, stopped, watched,
                   changes>>

\* The object is stored and its two goroutines are started.
AddStore ==
    /\ pc = "store"
    /\ clusterSet' = made
    /\ starter' = [starter EXCEPT ![made] = "starting"]
    /\ waiter' = [waiter EXCEPT ![made] = "starting"]
    /\ pc' = "idle" /\ arg' = None
    /\ UNCHANGED <<vc, queued, delayed, registry, made, uidOf, cache, stopped, watched,
                   boundVars>>

-----------------------------------------------------------------------------
(* The two goroutines of runCluster.  Each asks for the cache; getCache reads *)
(* c.cache, and if there is none makes one and writes it, with no lock.       *)

\* cluster.Start sets cancelContext and reads c.cache.
StartReads(i) ==
    /\ starter[i] = "starting"
    /\ starter' = [starter EXCEPT ![i] = IF cache[i] = None THEN "making" ELSE cache[i]]
    /\ UNCHANGED <<vc, workVars, clusterSet, registry, made, uidOf, cache, waiter, stopped,
                   watched, boundVars>>

\* The cache is made, and its informers run (until the context is cancelled).
StartMakes(i) ==
    /\ starter[i] = "making"
    /\ cache' = [cache EXCEPT ![i] = "byStarter"]
    /\ starter' = [starter EXCEPT ![i] = "byStarter"]
    /\ UNCHANGED <<vc, workVars, clusterSet, registry, made, uidOf, waiter, stopped, watched,
                   boundVars>>

\* The tenant's API does not answer: Start returns.
StartFails(i) ==
    /\ starter[i] = "making" /\ Fail
    /\ starter' = [starter EXCEPT ![i] = "failed"]
    /\ UNCHANGED <<vc, workVars, clusterSet, registry, made, uidOf, cache, waiter, stopped,
                   watched, changes>>

WaitReads(i) ==
    /\ waiter[i] = "starting"
    /\ waiter' = [waiter EXCEPT ![i] = IF cache[i] = None THEN "making" ELSE cache[i]]
    /\ UNCHANGED <<vc, workVars, clusterSet, registry, made, uidOf, cache, starter, stopped,
                   watched, boundVars>>

WaitMakes(i) ==
    /\ waiter[i] = "making"
    /\ cache' = [cache EXCEPT ![i] = "byWaiter"]
    /\ waiter' = [waiter EXCEPT ![i] = "byWaiter"]
    /\ UNCHANGED <<vc, workVars, clusterSet, registry, made, uidOf, starter, stopped, watched,
                   boundVars>>

WaitFails(i) ==
    /\ waiter[i] = "making" /\ Fail
    /\ waiter' = [waiter EXCEPT ![i] = "failed"]
    /\ UNCHANGED <<vc, workVars, clusterSet, registry, made, uidOf, cache, starter, stopped,
                   watched, changes>>

\* Mutant of WaitSynced: any cache that was started will do.
WaitSyncedAny(i) ==
    /\ waiter[i] \in Cache /\ starter[i] \in Cache /\ i \notin stopped
    /\ waiter' = [waiter EXCEPT ![i] = "synced"]
    /\ UNCHANGED <<vc, workVars, clusterSet, registry, made, uidOf, cache, starter, stopped,
                   watched, boundVars>>

\* WaitForCacheSync succeeds once the cache was started and has synced; SetSynced.
\* The context it is given is never cancelled: for a cache that is not started, or
\* was stopped before it synced, it waits for ever.
WaitSynced(i) ==
    /\ waiter[i] \in Cache /\ waiter[i] = starter[i] /\ i \notin stopped
    /\ waiter' = [waiter EXCEPT ![i] = "synced"]
    /\ UNCHANGED <<vc, workVars, clusterSet, registry, made, uidOf, cache, starter, stopped,
                   watched, boundVars>>

\* WatchCluster: the resource controllers refuse a cluster name they do not know, and
\* add their event handlers to the cache of the object they are given.
WatchCluster(i) ==
    /\ waiter[i] = "synced"
    /\ waiter' = [waiter EXCEPT ![i] = "done"]
    /\ watched' = IF registry[uidOf[i]] = None THEN watched ELSE watched \cup {i}
    /\ UNCHANGED <<vc, workVars, clusterSet, registry, made, uidOf, cache, starter, stopped,
                   boundVars>>

\* AddEventHandler fails; the error is logged.
WatchFails(i) ==
    /\ waiter[i] = "synced" /\ Fail
    /\ waiter' = [waiter EXCEPT ![i] = "done"]
    /\ UNCHANGED <<vc, workVars, clusterSet, registry, made, uidOf, cache, starter, stopped,
                   watched, changes>>

\* The cache could not be had: the cluster the key has by now is removed, and the
\* key is added again later.
RemoveAndRetry(i) ==
    /\ waiter[i] = "failed"
    /\ removeCluster
    /\ waiter' = [waiter EXCEPT ![i] = "done"]
    /\ delayed' = TRUE
    /\ UNCHANGED <<vc, queued, pc, arg, made, uidOf, cache, starter, watched, boundVars>>

-----------------------------------------------------------------------------
worker == GetKey \/ SyncRemove \/ SyncNotReady \/ SyncAdd \/ AddFails \/ AddRegister \/ AddStore
start(i) == StartReads(i) \/ StartMakes(i) \/ StartFails(i)
runCluster(i) == \/ WaitReads(i) \/ WaitMakes(i) \/ WaitFails(i) \/ WaitSynced(i)
                 \/ WatchCluster(i) \/ WatchFails(i) \/ RemoveAndRetry(i)

Next ==
    \/ \E u \in Uid : CreateVC(u)
    \/ \E p \in Phase : SetPhase(p)
    \/ DeleteVC
    \/ worker
    \/ DelayedAdd
    \/ \E i \in Inst : start(i) \/ runCluster(i)

\* Worker, timers and goroutines run; API calls fail at most MaxFailures times.
Fairness ==
    /\ WF_vars(worker) /\ WF_vars(DelayedAdd)
    /\ \A i \in Inst : WF_vars(start(i)) /\ WF_vars(runCluster(i))

Spec == Init /\ [][Next]_vars
LiveSpec == Spec /\ Fairness

-----------------------------------------------------------------------------
\* Do the informers of a cluster object run?
Running(i) == starter[i] \in Cache /\ i \notin stopped

\* The syncer's cluster is the one the resource controllers know under its name, made
\* for the UID in that name, and they know no other but the one being added, although
\* addCluster looks at clusterSet and writes it in two critical sections of s.mu and a
\* goroutine of an earlier cluster object may remove the key's cluster in between.
RegistryMatches ==
    \A u \in Uid :
        IF clusterSet # None /\ uidOf[clusterSet] = u THEN registry[u] = clusterSet
        ELSE IF pc = "store" /\ arg.uid = u THEN registry[u] = made
        ELSE registry[u] = None

\* The client that reconcilers get for a synced cluster (GetDelegatingClient) reads
\* c.cache: that is the cache whose informers were started, although each goroutine may
\* have made a cache and overwritten the other's.
ClientReadsStarted ==
    \A i \in 1..made : (waiter[i] = "synced" \/ i \in watched) => cache[i] = starter[i]

\* "TeardownClusterResource forget the cluster it watches.  The cluster informer
\* should stop together." (mccontroller.go:206-207): once a removed cluster's
\* goroutine has come to Start, its informers do not run.
InformersStopTogether ==
    \A i \in 1..made :
        (i # clusterSet /\ Cancellable(i)) => ~Running(i)

\* The syncer serves the VirtualCluster there is: the cluster of a running one is
\* synced and watched, a deleted or failed one has none.
Serves ==
    IF vc = None THEN clusterSet = None
    ELSE CASE vc.phase = "Error"   -> clusterSet = None
           [] vc.phase = "Pending" -> TRUE
           [] vc.phase = "Running" ->
                /\ clusterSet # None
                /\ uidOf[clusterSet] = vc.uid
                /\ clusterSet \in watched
                /\ Running(clusterSet)

\* The ways in which it does not, and will not until the VirtualCluster changes:
\* the key has the cluster of an earlier VirtualCluster of that name (addCluster does
\* not compare UIDs); the cache waited for is not the one that was started, if any was;
\* the resource controllers failed to add their handlers, which is only logged.
StaleUid == vc # None /\ clusterSet # None /\ uidOf[clusterSet] # vc.uid
NeverSyncs ==
    clusterSet # None /\ waiter[clusterSet] \in Cache /\ starter[clusterSet] # waiter[clusterSet]
NotWatched ==
    clusterSet # None /\ waiter[clusterSet] = "done" /\ clusterSet \notin watched

\* "addCluster registers and start an informer cache for the given VirtualCluster"
\* (syncer.go:346): once the VirtualCluster changes no more, the syncer comes to
\* serve it and goes on doing so, through retries, removals by late goroutines and
\* re-creations, but for the ways above; the last two take a failed call.
Settles == <>[](Serves \/ StaleUid \/ (failures > 0 /\ (NeverSyncs \/ NotWatched)))
=============================================================================
