------------------------ MODULE SyncerClustersProofs ------------------------
(***************************************************************************)
(* Proofs about SyncerClusters, for any number of VirtualClusters, cluster *)
(* objects, changes and failures: the syncer and the resource controllers  *)
(* agree on which cluster a key has, and the client of a synced cluster    *)
(* reads the cache that was started.                                       *)
(***************************************************************************)
EXTENDS SyncerClusters, TLAPS

\* Facts about the constants, in the form the steps use them.
LEMMA Bounds == MaxInst \in Nat /\ MaxChanges \in Nat /\ MaxFailures \in Nat
                /\ None \notin Inst /\ None \notin Uid /\ None \notin Cache
    BY NoneAssumption, BoundAssumption

LEMMA VCRecord ==
    ASSUME NEW v \in VC
    PROVE  v.uid \in Uid /\ v.phase \in Phase
    BY DEF VC

\* The worker adds a cluster only to a key that has none, and nobody but the worker
\* gives the key one: what addCluster read stays true until it stores the object,
\* the youngest, which is made for the UID it read.
Adding ==
    /\ pc \in {"register", "store"} => clusterSet = None
    /\ pc = "store" => made \in Inst /\ uidOf[made] = arg.uid
    /\ clusterSet # None => uidOf[clusterSet] \in Uid

RegistryInv == TypeOK /\ Adding /\ RegistryMatches

LEMMA InitType == Init => TypeOK
<1> SUFFICES ASSUME Init PROVE TypeOK
    OBVIOUS
<1>1. vc \in VC \cup {None} /\ arg \in VC \cup {None} /\ clusterSet \in (1..made) \cup {None}
    BY DEF Init
<1>2. queued \in BOOLEAN /\ delayed \in BOOLEAN
    BY DEF Init
<1>3. pc \in {"idle", "sync", "register", "store"} /\ (pc \in {"register", "store"} <=> arg # None)
    BY DEF Init
<1>4. registry \in [Uid -> (1..made) \cup {None}] /\ uidOf \in [Inst -> Uid \cup {None}]
    BY DEF Init
<1>5. /\ cache \in [Inst -> Cache \cup {None}]
      /\ starter \in [Inst -> Cache \cup {"none", "starting", "making", "failed"}]
      /\ waiter \in [Inst -> Cache \cup {"none", "starting", "making", "failed", "synced", "done"}]
    BY DEF Init
<1>6. /\ made \in 0..MaxInst /\ changes \in 0..MaxChanges /\ failures \in 0..MaxFailures
      /\ stopped \subseteq Inst /\ watched \subseteq Inst
    BY Bounds DEF Init
<1> QED
    BY <1>1, <1>2, <1>3, <1>4, <1>5, <1>6 DEF TypeOK

-----------------------------------------------------------------------------
(* Types *)

LEMMA ChangeType ==
    ASSUME TypeOK, NEW v \in VC \cup {None}, Change(v)
    PROVE  TypeOK'
    BY Bounds DEF Change, TypeOK, instVars, Inst

LEMMA RemoveType ==
    ASSUME TypeOK, removeCluster
    PROVE  /\ clusterSet' \in (1..made) \cup {None}
           /\ registry' \in [Uid -> (1..made) \cup {None}]
           /\ stopped' \subseteq Inst
<1>1. CASE clusterSet = None
    BY <1>1 DEF removeCluster, TypeOK
<1>2. CASE clusterSet # None
    <2>1. clusterSet \in Inst
        BY <1>2, Bounds DEF TypeOK, Inst
    <2>2. registry' \in [Uid -> (1..made) \cup {None}]
        BY <1>2, <2>1 DEF removeCluster, TypeOK
    <2>3. stopped' \subseteq Inst
        BY <1>2, <2>1 DEF removeCluster, Stop, TypeOK
    <2> QED
        BY <1>2, <2>2, <2>3 DEF removeCluster
<1> QED
    BY <1>1, <1>2

LEMMA TypeStep == TypeOK /\ Adding /\ [Next]_vars => TypeOK'
<1> SUFFICES ASSUME TypeOK, Adding, [Next]_vars PROVE TypeOK'
    OBVIOUS
<1>1. ASSUME NEW u \in Uid, CreateVC(u) PROVE TypeOK'
    BY <1>1, ChangeType DEF CreateVC, VC, Phase
<1>2. ASSUME NEW p \in Phase, SetPhase(p) PROVE TypeOK'
    <2>1. [vc EXCEPT !.phase = p] \in VC
        BY <1>2 DEF SetPhase, TypeOK, VC
    <2> QED
        BY <1>2, <2>1, ChangeType DEF SetPhase
<1>3. CASE DeleteVC
    BY <1>3, ChangeType DEF DeleteVC
<1>4. CASE GetKey
    BY <1>4 DEF GetKey, TypeOK, instVars, boundVars
<1>5. CASE SyncRemove
    BY <1>5, RemoveType DEF SyncRemove, TypeOK, boundVars
<1>6. CASE SyncNotReady
    BY <1>6 DEF SyncNotReady, TypeOK, instVars, boundVars
<1>7. CASE SyncAdd
    BY <1>7 DEF SyncAdd, TypeOK, instVars, boundVars
<1>8. CASE AddFails
    BY <1>8, Bounds DEF AddFails, Fail, TypeOK, instVars
<1>9. CASE AddRegister
    BY <1>9, Bounds, VCRecord DEF AddRegister, Fail, TypeOK, Inst, Cache
<1>10. CASE AddStore
    BY <1>10, Bounds DEF AddStore, Adding, TypeOK, Inst, boundVars
<1>11. CASE DelayedAdd
    BY <1>11 DEF DelayedAdd, TypeOK, instVars, boundVars
<1>12. ASSUME NEW i \in Inst, start(i) PROVE TypeOK'
    BY <1>12, Bounds DEF start, StartReads, StartMakes, StartFails, Fail, TypeOK, workVars,
                         boundVars, Cache
<1>13. ASSUME NEW i \in Inst, runCluster(i) PROVE TypeOK'
    <2>1. CASE RemoveAndRetry(i)
        BY <2>1, RemoveType DEF RemoveAndRetry, TypeOK, boundVars
    <2>2. CASE WaitReads(i) \/ WaitMakes(i) \/ WaitFails(i) \/ WaitSynced(i)
               \/ WatchCluster(i) \/ WatchFails(i)
        BY <2>2, Bounds DEF WaitReads, WaitMakes, WaitFails, WaitSynced, WatchCluster,
                         WatchFails, Fail, TypeOK, workVars, boundVars, Cache
    <2> QED
        BY <1>13, <2>1, <2>2 DEF runCluster
<1>14. CASE UNCHANGED vars
    BY <1>14 DEF vars, TypeOK
<1> QED
    BY <1>1, <1>2, <1>3, <1>4, <1>5, <1>6, <1>7, <1>8, <1>9, <1>10, <1>11, <1>12, <1>13,
       <1>14 DEF Next, worker

-----------------------------------------------------------------------------
(* The registry of the resource controllers *)

LEMMA InitRegistry == Init => Adding /\ RegistryMatches
    BY DEF Init, Adding, RegistryMatches

\* removeCluster takes a cluster from the key and from the registry alike.
LEMMA RemoveMatches ==
    ASSUME RegistryInv, removeCluster, pc' = pc \/ pc' = "idle", pc = "sync" \/ pc' = pc,
           UNCHANGED <<arg, made, uidOf>>
    PROVE  Adding' /\ RegistryMatches'
<1>1. CASE clusterSet = None
    BY <1>1 DEF removeCluster, RegistryInv, Adding, RegistryMatches
<1>2. CASE clusterSet # None
    <2>1. /\ clusterSet' = None /\ uidOf[clusterSet] \in Uid /\ pc' # "store"
          /\ registry' = [registry EXCEPT ![uidOf[clusterSet]] = None]
        BY <1>2 DEF removeCluster, RegistryInv, Adding
    <2>2. \A u \in Uid : registry'[u] = None
        BY <1>2, <2>1 DEF RegistryInv, RegistryMatches, TypeOK, Adding
    <2> QED
        BY <2>1, <2>2 DEF RegistryMatches, Adding
<1> QED
    BY <1>1, <1>2

\* Steps of others leave the variables alone that Adding and RegistryMatches are about.
registryVars == <<pc, arg, clusterSet, registry, made, uidOf>>
LEMMA RegistryKept ==
    ASSUME Adding, RegistryMatches, UNCHANGED registryVars
    PROVE  Adding' /\ RegistryMatches'
    BY DEF Adding, RegistryMatches, registryVars

LEMMA RegistryStep == RegistryInv /\ [Next]_vars => Adding' /\ RegistryMatches'
<1> SUFFICES ASSUME RegistryInv, [Next]_vars PROVE Adding' /\ RegistryMatches'
    OBVIOUS
<1> USE RegistryKept DEF registryVars
<1>0. TypeOK /\ Adding /\ RegistryMatches
    BY DEF RegistryInv
<1>1. ASSUME NEW u \in Uid, CreateVC(u) PROVE Adding' /\ RegistryMatches'
    BY <1>0, <1>1 DEF CreateVC, Change, instVars
<1>2. ASSUME NEW p \in Phase, SetPhase(p) PROVE Adding' /\ RegistryMatches'
    BY <1>0, <1>2 DEF SetPhase, Change, instVars
<1>3. CASE DeleteVC
    BY <1>0, <1>3 DEF DeleteVC, Change, instVars
<1>4. CASE GetKey \/ SyncNotReady
    BY <1>0, <1>4 DEF GetKey, SyncNotReady, instVars, Adding, RegistryMatches
<1>5. CASE SyncRemove
    BY <1>5, RemoveMatches DEF SyncRemove
<1>6. CASE SyncAdd
    BY <1>0, <1>6 DEF SyncAdd, instVars, Adding, RegistryMatches
<1>7. CASE AddFails
    BY <1>0, <1>7 DEF AddFails, instVars, Adding, RegistryMatches
<1>8. CASE AddRegister
    <2>1. /\ clusterSet = None /\ clusterSet' = None /\ arg' = arg /\ arg.uid \in Uid
          /\ made' \in Inst /\ pc' = "store"
        BY <1>0, <1>8, VCRecord, Bounds DEF AddRegister, Adding, TypeOK, Inst
    <2>2. \A u \in Uid : registry[u] = None
        BY <1>0, <1>8, <2>1 DEF AddRegister, RegistryMatches
    <2>3. /\ registry' = [registry EXCEPT ![arg.uid] = made']
          /\ uidOf' = [uidOf EXCEPT ![made'] = arg.uid]
        BY <1>8, <2>1, <2>2 DEF AddRegister
    <2>4. Adding'
        BY <1>0, <2>1, <2>3 DEF Adding, TypeOK
    <2>5. \A u \in Uid : registry'[u] = IF arg.uid = u THEN made' ELSE None
        BY <1>0, <2>1, <2>2, <2>3 DEF TypeOK
    <2> QED
        BY <2>1, <2>4, <2>5 DEF RegistryMatches
<1>9. CASE AddStore
    BY <1>0, <1>9, VCRecord, Bounds DEF AddStore, Adding, RegistryMatches, TypeOK
<1>10. CASE DelayedAdd
    BY <1>0, <1>10 DEF DelayedAdd, instVars
<1>11. ASSUME NEW i \in Inst, start(i) PROVE Adding' /\ RegistryMatches'
    BY <1>0, <1>11 DEF start, StartReads, StartMakes, StartFails, workVars
<1>12. ASSUME NEW i \in Inst, runCluster(i) PROVE Adding' /\ RegistryMatches'
    <2>1. CASE RemoveAndRetry(i)
        BY <2>1, RemoveMatches DEF RemoveAndRetry
    <2>2. CASE WaitReads(i) \/ WaitMakes(i) \/ WaitFails(i) \/ WaitSynced(i)
               \/ WatchCluster(i) \/ WatchFails(i)
        BY <1>0, <2>2 DEF WaitReads, WaitMakes, WaitFails, WaitSynced, WatchCluster,
                          WatchFails, workVars
    <2> QED
        BY <1>12, <2>1, <2>2 DEF runCluster
<1>13. CASE UNCHANGED vars
    BY <1>0, <1>13 DEF vars
<1> QED
    BY <1>1, <1>2, <1>3, <1>4, <1>5, <1>6, <1>7, <1>8, <1>9, <1>10, <1>11, <1>12, <1>13
       DEF Next, worker

LEMMA RegistryInvariant == Spec => []RegistryInv
<1>1. Init => RegistryInv
    BY InitType, InitRegistry DEF RegistryInv
<1>2. RegistryInv /\ [Next]_vars => RegistryInv'
    BY TypeStep, RegistryStep DEF RegistryInv
<1> QED
    BY <1>1, <1>2, PTL DEF Spec

\* Every variable of the syncer keeps its type: the cluster of the key and the ones the
\* resource controllers know are objects that were made, and the worker remembers a
\* VirtualCluster exactly while it adds its cluster.
THEOREM ClusterTypes == Spec => []TypeOK
BY RegistryInvariant, PTL DEF RegistryInv

\* syncer.go: addCluster looks for the key under s.mu, releases it to talk to the
\* tenant's API, and takes it again to store the cluster; removeCluster may run in
\* between, from a goroutine of an earlier cluster object.  Still the syncer's cluster
\* and the one the resource controllers know are always the same.
THEOREM RegistryAgrees == Spec => []RegistryMatches
BY RegistryInvariant, PTL DEF RegistryInv

-----------------------------------------------------------------------------
(* The caches of a cluster object *)

\* Nobody is at work for an object that is not stored yet.
Fresh(i) ==
    (i > made \/ (pc = "store" /\ i = made)) => starter[i] = "none" /\ waiter[i] = "none"

\* Whoever made the cache that c.cache holds, or that the other goroutine got, has it;
\* so the last write of c.cache is the cache of the goroutine that wrote it, and two
\* goroutines with the same cache have the one in c.cache.
Owned(i) ==
    /\ cache[i] = "byStarter" \/ waiter[i] = "byStarter" => starter[i] = "byStarter"
    /\ cache[i] = "byWaiter" \/ starter[i] = "byWaiter" =>
           waiter[i] \in {"byWaiter", "synced", "done"}
    /\ waiter[i] \in Cache /\ waiter[i] = starter[i] => cache[i] = starter[i]
    /\ waiter[i] = "synced" \/ i \in watched => starter[i] \in Cache /\ cache[i] = starter[i]
    /\ i \in watched => waiter[i] = "done"

CacheInv == \A i \in Inst : Fresh(i) /\ Owned(i)

LEMMA InitCaches == Init => CacheInv
    BY Bounds DEF Init, CacheInv, Fresh, Owned, Cache, Inst

LEMMA CachesKept ==
    ASSUME CacheInv, UNCHANGED <<made, cache, starter, waiter, watched>>,
           pc' = pc \/ pc' # "store"
    PROVE  CacheInv'
    BY DEF CacheInv, Fresh, Owned

\* A goroutine of object i touches no other object.
LEMMA OneObject ==
    ASSUME CacheInv, NEW i \in Inst, UNCHANGED <<pc, made>>,
           \A j \in Inst \ {i} : /\ cache'[j] = cache[j] /\ starter'[j] = starter[j]
                                  /\ waiter'[j] = waiter[j] /\ (j \in watched' <=> j \in watched),
           Fresh(i)', Owned(i)'
    PROVE  CacheInv'
    BY DEF CacheInv, Fresh, Owned

LEMMA StartCaches ==
    ASSUME TypeOK, CacheInv, NEW i \in Inst, start(i)
    PROVE  CacheInv'
<1>1. Fresh(i) /\ Owned(i)
    BY DEF CacheInv
<1>2. /\ UNCHANGED <<pc, made>>
      /\ \A j \in Inst \ {i} : /\ cache'[j] = cache[j] /\ starter'[j] = starter[j]
                                /\ waiter'[j] = waiter[j] /\ (j \in watched' <=> j \in watched)
    BY DEF start, StartReads, StartMakes, StartFails, workVars, TypeOK
<1>3. Fresh(i)' /\ Owned(i)'
    BY <1>1, Bounds DEF start, StartReads, StartMakes, StartFails, workVars, TypeOK, Fresh, Owned, Cache
<1> QED
    BY <1>2, <1>3, OneObject

LEMMA WaitCaches ==
    ASSUME TypeOK, CacheInv, NEW i \in Inst, runCluster(i)
    PROVE  CacheInv'
<1>1. Fresh(i) /\ Owned(i)
    BY DEF CacheInv
<1> USE DEF runCluster, WaitReads, WaitMakes, WaitFails, WaitSynced, WatchCluster,
            WatchFails, RemoveAndRetry, workVars, TypeOK
<1>2. /\ UNCHANGED <<pc, made>>
      /\ \A j \in Inst \ {i} : /\ cache'[j] = cache[j] /\ starter'[j] = starter[j]
                                /\ waiter'[j] = waiter[j] /\ (j \in watched' <=> j \in watched)
    OBVIOUS
<1>3. Fresh(i)'
    <2>1. waiter[i] # "none"
        BY DEF Cache
    <2> QED
        BY ONLY <1>1, <1>2, <2>1 DEF Fresh
<1>4. Owned(i)'
    BY <1>1, Bounds DEF Owned, Cache
<1> QED
    BY <1>2, <1>3, <1>4, OneObject

LEMMA CacheStep == RegistryInv /\ CacheInv /\ [Next]_vars => CacheInv'
<1> SUFFICES ASSUME RegistryInv, CacheInv, [Next]_vars PROVE CacheInv'
    OBVIOUS
<1> USE CachesKept
<1>0. TypeOK /\ Adding
    BY DEF RegistryInv
<1>1. ASSUME NEW u \in Uid, CreateVC(u) PROVE CacheInv'
    BY <1>1 DEF CreateVC, Change, instVars
<1>2. ASSUME NEW p \in Phase, SetPhase(p) PROVE CacheInv'
    BY <1>2 DEF SetPhase, Change, instVars
<1>3. CASE DeleteVC \/ DelayedAdd
    BY <1>3 DEF DeleteVC, Change, DelayedAdd, instVars
<1>4. CASE GetKey \/ SyncNotReady \/ SyncRemove \/ SyncAdd \/ AddFails
    BY <1>4 DEF GetKey, SyncNotReady, SyncRemove, SyncAdd, AddFails, instVars
<1>5. CASE AddRegister
    <2>1. /\ made' = made + 1 /\ made \in Nat /\ pc' = "store"
          /\ UNCHANGED <<starter, waiter, watched>>
        BY <1>0, <1>5 DEF AddRegister, TypeOK
    <2>2. \A i \in Inst : cache'[i] = cache[i] \/ (i = made' /\ cache'[i] = "byWorker")
        BY <1>0, <1>5 DEF AddRegister, TypeOK
    <2>3. ASSUME NEW i \in Inst PROVE Fresh(i)' /\ Owned(i)'
        BY <2>1, <2>2 DEF CacheInv, Fresh, Owned, Cache, Inst
    <2> QED
        BY <2>3 DEF CacheInv
<1>6. CASE AddStore
    <2>1. /\ UNCHANGED <<made, cache, watched>> /\ pc = "store" /\ pc' = "idle" /\ made \in Inst
          /\ starter' = [starter EXCEPT ![made] = "starting"]
          /\ waiter' = [waiter EXCEPT ![made] = "starting"]
        BY <1>0, <1>6 DEF AddStore, Adding
    <2>2. ASSUME NEW i \in Inst PROVE Fresh(i)' /\ Owned(i)'
        BY <1>0, <2>1 DEF CacheInv, Fresh, Owned, Cache, TypeOK, Inst
    <2> QED
        BY <2>2 DEF CacheInv
<1>7. ASSUME NEW i \in Inst, start(i) \/ runCluster(i) PROVE CacheInv'
    BY <1>0, <1>7, StartCaches, WaitCaches
<1>8. CASE UNCHANGED vars
    BY <1>8 DEF vars
<1> QED
    BY <1>1, <1>2, <1>3, <1>4, <1>5, <1>6, <1>7, <1>8 DEF Next, worker

\* cluster.go: getCache reads and writes c.cache without a lock, from the worker and from
\* the two goroutines of runCluster.  A cluster is still announced as synced only when the
\* cache its client reads is the one whose informers were started.
THEOREM ClientReads == Spec => []ClientReadsStarted
<1>1. Init => CacheInv
    BY InitCaches
<1>2. RegistryInv /\ CacheInv /\ [Next]_vars => CacheInv'
    BY CacheStep
<1>3. TypeOK /\ CacheInv => ClientReadsStarted
    BY Bounds DEF TypeOK, CacheInv, Owned, ClientReadsStarted, Inst
<1> QED
    BY <1>1, <1>2, <1>3, RegistryInvariant, PTL DEF Spec, RegistryInv
=============================================================================
