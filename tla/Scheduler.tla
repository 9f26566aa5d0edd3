------------------------------ MODULE Scheduler ------------------------------
(***************************************************************************)
(* virtualcluster/experiment/pkg/scheduler: the scheduler that places the  *)
(* namespaces and pods of tenants in super clusters (scheduler.go,         *)
(* reconciler.go, health.go and the controllers below resource/), for one  *)
(* tenant.                                                                 *)
(*                                                                         *)
(* Workers take keys: the VirtualCluster, a super cluster, a namespace or  *)
(* pod of the tenant, or a namespace that a super cluster has got.  They   *)
(* change the cache of SchedulerCache in single steps, between which       *)
(* others change it; the engine lock only keeps the workers of namespaces  *)
(* and pods apart.                                                         *)
(***************************************************************************)
EXTENDS SchedulerCache, Sequences

CONSTANTS Before,    \* what may have been before: [ns, pod, phase], and a bound: plan, the
                     \* kinds of the first event that is explored from there, the second ...,
                     \* alone, the kinds that are explored alone, and quotas
          SameName,  \* keys of the clusters that are called like their namespace
          Capacity   \* cluster -> its capacity, if its nodes are ready

ASSUME BoundAssumption ==
    /\ Capacity \in [Clusters -> Nat]
    /\ \A b \in Before :
           /\ b.quotas \subseteq Nat
           /\ \A n \in Namespaces : b.ns[n].quota \in Nat /\ b.ns[n].placement \in [Names -> Nat]

VARIABLES
    ns,      \* namespaces in the tenant cluster: [there, quota, placement]
    pod,     \* pods in the tenant cluster: [there, cluster]
    super,   \* super clusters: [phase, capacity, has], has: slices of the namespaces it got
    vc,      \* phase of the VirtualCluster
    seen,    \* the scheduler's copies of the namespaces
    cache,   \* the scheduler cache
    tenant,  \* virtualClusterSet: "none", "added" or, with its informers, "watching"
    known,   \* the same for each super cluster
    dirty,   \* keys of clusters whose state has to be read before they are served
    queue,   \* keys to be worked on
    work,    \* key -> where its worker is
    engine,  \* the key whose worker holds the engine lock, or <<>>
    boot,    \* Bootstrap: "super" and "virtual", then "done"
    events,  \* number of events so far
    faults,  \* kinds of events so far
    bound    \* plan, alone and quotas, from Before

outside == <<ns, pod, super, vc>>
registry == <<tenant, known, dirty, boot>>
vars == <<outside, seen, cache, registry, queue, work, engine, events, faults, bound>>

Vc == <<"vc">>
Ns(n) == <<"ns", n>>
Super(c) == <<"super", c>>
Pod(p) == <<"pod", p>>
Has(c, n) == <<"has", c, n>>
TenantKeys == {Ns(n) : n \in Namespaces} \cup {Pod(p) : p \in Pods}
HasKeys(c) == {Has(c, n) : n \in Namespaces}
Phases == {"Running", "Failed", "absent"}
ClusterKeys == {Vc} \cup {Super(c) : c \in Clusters}

ASSUME SameNameAssumption == SameName \subseteq ClusterKeys

EmptyCache == [tenant |-> FALSE, clusters |-> <<>>, namespaces |-> <<>>, pods |-> <<>>]
\* Clusters are queued by their informers, and Bootstrap reads them.
NewQueue == {Vc} \cup {Super(c) : c \in Clusters}
NewWork == [k \in {Super(c) : c \in Clusters} |-> [at |-> "boot"]]
NewKnown == [c \in Clusters |-> "none"]
Init ==
    /\ \E b \in Before :
           /\ ns = b.ns /\ pod = b.pod
           /\ bound = [plan |-> b.plan, alone |-> b.alone, quotas |-> b.quotas]
           /\ super = [c \in Clusters |-> [phase |-> b.phase[c], capacity |-> Capacity[c],
                                           has |-> [n \in Namespaces |-> b.ns[n].placement[c]]]]
    /\ vc = "Running" /\ seen = ns /\ events = 0 /\ faults = {}
    /\ cache = EmptyCache /\ tenant = "none" /\ known = NewKnown /\ dirty = {}
    /\ queue = NewQueue /\ work = NewWork /\ engine = <<>> /\ boot = "super"
\* A process that has ended starts again with nothing.
StartAgain ==
    /\ seen' = ns /\ cache' = EmptyCache /\ tenant' = "none" /\ known' = NewKnown /\ dirty' = {}
    /\ queue' = NewQueue /\ work' = NewWork /\ engine' = <<>> /\ boot' = "super"
    /\ UNCHANGED outside

\* Changes by others and failures, within the bounds.
Event(kind) ==
    /\ faults' = faults \cup {kind} /\ UNCHANGED bound
    /\ \/ /\ events < Len(bound.plan) /\ kind \in bound.plan[events + 1]
          /\ events' = events + 1
       \/ kind \in bound.alone /\ events = 0 /\ events' = Len(bound.plan)
NoEvent == UNCHANGED <<events, faults, bound>>

-----------------------------------------------------------------------------
(* Workers. *)

Take(k) == boot = "done" /\ k \in queue /\ k \notin DOMAIN work
Goes(k, step) == queue' = queue \ {k} /\ work' = k :> step @@ work
Done(k) == work' = Without(work, {k}) /\ queue' = queue \ {k}
Retry(k) == work' = Without(work, {k}) /\ queue' = queue \cup {k}
At(k, at) == k \in DOMAIN work /\ work[k].at = at

Lock(k) == engine = <<>> /\ engine' = k

(* resource/virtualcluster/namespace/controller.go, with the requests that  *)
(* resourcequota/controller.go forwards.                                    *)

Current(n) == {cache.namespaces[m] : m \in {n} \cap DOMAIN cache.namespaces}
OldPlacement(n) == IF Current(n) = {} THEN NoPlacement ELSE cache.namespaces[n]
Expect(n) == GetLeastFitSliceNum(seen[n].quota)
Ready(n) == Take(Ns(n)) /\ tenant = "watching" /\ Vc \notin dirty
Misplaced(n) ==
    /\ Ready(n) /\ seen[n].there /\ Expect(n) > 0 /\ Slices(seen[n].placement) # Expect(n)
    /\ engine = <<>> /\ ~Inconsistent(cache, n)
SlicesOf(n) == GetSlicesToSchedule(Expect(n), seen[n].placement, OldPlacement(n))

\* The namespace or its quota is gone.
NsGone(n) ==
    /\ Ready(n) /\ Goes(Ns(n), [at |-> IF seen[n].there THEN "clear" ELSE "deschedule"])
    /\ ~seen[n].there \/ Expect(n) = 0
    /\ NoEvent /\ UNCHANGED <<outside, seen, cache, registry, engine>>
\* All slices have a place: the cache has to have it, too.
EnsureNamespacePlacements(n) ==
    /\ Ready(n) /\ seen[n].there /\ Expect(n) > 0 /\ Slices(seen[n].placement) = Expect(n)
    /\ Lock(Ns(n))
    /\ Goes(Ns(n), [at |-> "commit", old |-> Current(n), new |-> seen[n].placement,
                    result |-> FALSE])
    /\ NoEvent /\ UNCHANGED <<outside, seen, cache, registry>>
\* Without a place for all slices, or if the cache is inconsistent, the key is retried.
ScheduleNamespace(n) ==
    /\ Misplaced(n) /\ Lock(Ns(n))
    /\ \E slices \in SlicesOf(n) :
           LET usage == SnapshotForNamespaceSched(cache, n)
           IN /\ ~Panics(usage, slices)
              /\ \E new \in ScheduleNamespaceSlices(usage, slices, Expect(n)) :
                     Goes(Ns(n), [at |-> "commit", old |-> Current(n), new |-> new,
                                  result |-> TRUE])
    /\ NoEvent /\ UNCHANGED <<outside, seen, cache, registry>>
DeScheduleNamespace(n) ==
    /\ At(Ns(n), "deschedule") /\ Lock(Ns(n))
    /\ work' = [work EXCEPT ![Ns(n)] = [at |-> "remove", old |-> Current(n)]]
    /\ NoEvent /\ UNCHANGED <<outside, seen, cache, registry, queue>>

\* The engine changes the cache with what it has read from it before.
EngineResult(n) ==
    LET w == work[Ns(n)]
        old == CHOOSE s \in w.old : TRUE
    IN CASE w.at = "remove" /\ w.old = {} -> Ok(cache)
         [] w.at = "remove" /\ w.old # {} -> RemoveNamespace(cache, n, old)
         [] w.at = "commit" /\ w.old = {} -> AddNamespace(cache, n, w.new)
         [] w.at = "commit" /\ w.old # {} -> UpdateNamespace(cache, n, old, w.new)
NsCommit(n) ==
    /\ engine = Ns(n) /\ engine' = <<>>
    /\ \E r \in EngineResult(n) :
           /\ cache' = r.cache
           /\ \/ r.err /\ Retry(Ns(n))
              \/ ~r.err /\ work[Ns(n)].at = "commit" /\ work[Ns(n)].result
                 /\ work' = [work EXCEPT ![Ns(n)] = [at |-> "write", new |-> @.new]]
                 /\ UNCHANGED queue
              \/ ~r.err /\ ~(work[Ns(n)].at = "commit" /\ work[Ns(n)].result)
                 /\ work' = Without(work, {Ns(n)}) /\ UNCHANGED queue
    /\ NoEvent /\ UNCHANGED <<outside, seen, registry>>

Written(n) ==
    [ns EXCEPT ![n].placement = IF work[Ns(n)].at = "write" THEN work[Ns(n)].new ELSE NoPlacement]
\* After a conflict the namespace is read again.  Nothing is written for a tenant that has
\* been removed.
updateSchedulingResult(n) ==
    /\ At(Ns(n), "write") \/ At(Ns(n), "clear")
    /\ LET w == work[Ns(n)]
       IN \/ /\ tenant = "none" /\ Done(Ns(n)) /\ UNCHANGED ns
          \/ /\ tenant # "none" /\ ~ns[n].there /\ Retry(Ns(n)) /\ UNCHANGED ns
          \/ /\ tenant # "none" /\ ns[n].there
             /\ ns' = Written(n)
             /\ work' = IF w.at = "write" THEN Without(work, {Ns(n)})
                        ELSE [work EXCEPT ![Ns(n)] = [at |-> "deschedule"]]
             /\ UNCHANGED queue
    /\ NoEvent /\ UNCHANGED <<pod, super, vc, seen, cache, registry, engine>>
\* The call fails, or its answer is lost.
updateFails_Forgets(n) ==
    /\ At(Ns(n), "write") \/ At(Ns(n), "clear")
    /\ Event("call") /\ Done(Ns(n)) /\ UNCHANGED <<outside, seen, cache, registry, engine>>
updateFails(n) ==
    /\ At(Ns(n), "write") \/ At(Ns(n), "clear")
    /\ \/ Event("call") /\ UNCHANGED ns
       \/ Event("lost") /\ ns[n].there /\ ns' = Written(n)
    /\ Retry(Ns(n)) /\ UNCHANGED <<pod, super, vc, seen, cache, registry, engine>>

NsStep(n) ==
    \/ NsGone(n) \/ EnsureNamespacePlacements(n) \/ ScheduleNamespace(n)
    \/ DeScheduleNamespace(n) \/ NsCommit(n) \/ updateSchedulingResult(n)

(* resource/virtualcluster/pod/controller.go *)

PodGoes(p) == Take(Pod(p)) /\ tenant = "watching" /\ Vc \notin dirty
\* The pod is looked up in the cache and removed from it later.
DeSchedulePod(p) ==
    /\ PodGoes(p) /\ ~pod[p].there
    /\ \/ p \notin DOMAIN cache.pods /\ engine = <<>> /\ Done(Pod(p)) /\ UNCHANGED engine
       \/ /\ p \in DOMAIN cache.pods /\ Lock(Pod(p))
          /\ Goes(Pod(p), [at |-> "remove", cluster |-> cache.pods[p]])
    /\ NoEvent /\ UNCHANGED <<outside, seen, cache, registry>>
skipPodSchedule(p) ==
    /\ PodGoes(p) /\ pod[p].there /\ pod[p].cluster # "" /\ Done(Pod(p))
    /\ NoEvent /\ UNCHANGED <<outside, seen, cache, registry, engine>>
\* An unscheduled namespace or an inconsistent cache is an error.
PodSchedule(p) ==
    /\ PodGoes(p) /\ pod[p].there /\ pod[p].cluster = "" /\ Lock(Pod(p))
    /\ Home[p] \in DOMAIN cache.namespaces /\ ~MessedUp(cache, p)
    /\ \E c \in SchedulePod(SnapshotForPodSched(cache, p)) :
           Goes(Pod(p), [at |-> "commit", cluster |-> c])
    /\ NoEvent /\ UNCHANGED <<outside, seen, cache, registry>>
PodCommit(p) ==
    /\ engine = Pod(p) /\ engine' = <<>>
    /\ LET w == work[Pod(p)]
       IN \E r \in IF w.at = "remove" THEN RemovePod(cache, p, w.cluster)
                   ELSE AddPod(cache, p, w.cluster) :
              /\ cache' = r.cache
              /\ \/ r.err /\ Retry(Pod(p))
                 \/ /\ ~r.err /\ UNCHANGED queue
                    /\ work' = IF w.at = "remove" THEN Without(work, {Pod(p)})
                               ELSE [work EXCEPT ![Pod(p)].at = "write"]
    /\ NoEvent /\ UNCHANGED <<outside, seen, registry>>
PodWritten(p) == [pod EXCEPT ![p].cluster = work[Pod(p)].cluster]
PodWrite(p) ==
    /\ At(Pod(p), "write")
    /\ \/ tenant = "none" /\ Done(Pod(p)) /\ UNCHANGED pod
       \/ tenant # "none" /\ ~pod[p].there /\ Retry(Pod(p)) /\ UNCHANGED pod
       \/ /\ tenant # "none" /\ pod[p].there /\ pod' = PodWritten(p)
          /\ work' = Without(work, {Pod(p)}) /\ queue' = queue \cup {Pod(p)}
    /\ NoEvent /\ UNCHANGED <<ns, super, vc, seen, cache, registry, engine>>
\* The update fails or its answer is lost: the pod stays booked and is scheduled once more.
PodWriteFails(p) ==
    /\ At(Pod(p), "write") /\ Retry(Pod(p))
    /\ \/ Event("call") /\ UNCHANGED pod
       \/ Event("lost") /\ pod[p].there /\ pod' = PodWritten(p)
    /\ UNCHANGED <<ns, super, vc, seen, cache, registry, engine>>
PodStep(p) ==
    DeSchedulePod(p) \/ skipPodSchedule(p) \/ PodSchedule(p) \/ PodCommit(p) \/ PodWrite(p)

(* resource/supercluster/namespace/controller.go *)

\* The namespace is there, but its placement does not name the cluster.
Elsewhere == -1
Got(c) == [n \in Namespaces |-> IF super[c].has[n] = Elsewhere THEN 0 ELSE super[c].has[n]]
\* GetProvisionedSlices fails for such a namespace, and the key is retried.
HasReconcile(c, n) ==
    /\ Take(Has(c, n)) /\ known[c] = "watching" /\ super[c].has[n] # Elsewhere
    /\ \E r \in IF super[c].has[n] > 0 THEN AddProvision(cache, c, n, super[c].has[n])
                ELSE RemoveProvision(cache, c, n) :
           cache' = r.cache /\ queue' = IF r.err THEN queue ELSE queue \ {Has(c, n)}
    /\ NoEvent /\ UNCHANGED <<outside, seen, registry, work, engine>>

\* The scheduler dies of a hint and is restarted.
NsPanics(n) ==
    /\ Misplaced(n)
    /\ LET usage == SnapshotForNamespaceSched(cache, n)
       IN \E slices \in SlicesOf(n) : Panics(usage, slices)
    /\ StartAgain /\ NoEvent
\* The informer of the tenant's namespaces and quotas.
SeeNs(n) ==
    /\ seen[n] # ns[n] /\ seen' = [seen EXCEPT ![n] = ns[n]]
    /\ queue' = queue \cup {k \in {Ns(n)} : tenant = "watching"}
    /\ NoEvent /\ UNCHANGED <<outside, cache, registry, work, engine>>

-----------------------------------------------------------------------------
(* reconciler.go.  A cluster is in the set before its informers start, in a *)
(* goroutine of their own (Start), which removes the cluster if they do not *)
(* get in sync: the goroutine of a cluster that is removed meanwhile (Late) *)
(* removes what is in the set by then.                                      *)

Start(k) == <<"start", k>>
Late(k) == <<"late", k>>
Starting(W, k) == Start(k) :> [at |-> "start"] @@ W
Stopping(W, k) == Late(k) :> [at |-> "late"] @@ W
Stopped(W, k) ==
    CASE Start(k) \in DOMAIN W -> Stopping(Without(W, {Start(k)}), k)
      [] k \in DOMAIN W /\ W[k].at = "sync" -> [W EXCEPT ![k].stopped = TRUE]
      [] OTHER -> W
\* The goroutine that starts the informers of a cluster which has been added.
Added(k) ==
    LET W == Without(work, {k})
    IN work' = IF work[k].stopped THEN Stopping(W, k) ELSE Starting(W, k)

\* The cluster is stopped first: if the cache cannot remove the tenant, it stays in the set.
removeVirtualCluster(W, Q) ==
    \/ /\ tenant = "none" /\ work' = W /\ queue' = Q
       /\ UNCHANGED <<cache, registry>>
    \/ /\ tenant # "none" /\ work' = Stopped(W, Vc)
       /\ \E r \in RemoveTenant(cache) :
              /\ cache' = r.cache /\ tenant' = IF r.err THEN "added" ELSE "none"
              /\ queue' = (Q \ TenantKeys) \cup {k \in {Vc} : r.err}
       /\ UNCHANGED <<known, dirty, boot>>

\* SyncVirtualClusterState has listed the namespaces; then is what called it.
Sync(then, phase) ==
    [at |-> "sync", then |-> then, phase |-> phase, stopped |-> FALSE, list |-> ns,
     todo |-> {n \in Namespaces : ns[n].there /\ Placed(ns[n].placement) # {}}]
Synced(w) == cache' = AddTenant(cache) /\ work' = Vc :> w @@ work

\* The phases of syncVirtualCluster; W and Q are what is left to do.
VcSwitch(phase, W, Q) ==
    \/ phase = "Running" /\ tenant = "none" /\ tenant' = "added" /\ cache' = AddTenant(cache)
       /\ work' = Vc :> Sync("add", phase) @@ W /\ queue' = Q
       /\ UNCHANGED <<known, dirty, boot>>
    \/ phase = "Running" /\ tenant # "none" /\ work' = W /\ queue' = Q
       /\ UNCHANGED <<cache, registry>>
    \/ phase = "Failed" /\ removeVirtualCluster(W, Q)
VcTake ==
    /\ Take(Vc)
    /\ \/ vc = "absent" /\ removeVirtualCluster(work, queue \ {Vc})
       \/ vc # "absent" /\ Vc \in dirty /\ Synced(Sync("dirty", vc)) /\ queue' = queue \ {Vc}
          /\ UNCHANGED registry
       \/ vc # "absent" /\ Vc \notin dirty /\ VcSwitch(vc, work, queue \ {Vc})
    /\ NoEvent /\ UNCHANGED <<outside, seen, engine>>

\* A namespace that the sync has listed: its quota is read now, its placement was read
\* with the list, and its pods are read after it is in the cache.
SyncPods(K, n, placement) ==
    FoldSet(LAMBDA p, Rs : UNION {IF r.err THEN {r} ELSE AddPod(r.cache, p, pod[p].cluster) :
                                  r \in Rs},
            Ok(K), {p \in Pods : Home[p] = n /\ pod[p].there /\ placement[pod[p].cluster] > 0})
SyncNamespace(n, placement) ==
    IF ~ns[n].there \/ ns[n].quota = 0 THEN Ok(cache)
    ELSE IF GetLeastFitSliceNum(ns[n].quota) # Slices(placement) THEN Error(cache)
    ELSE UNION {IF r.err THEN {r} ELSE SyncPods(r.cache, n, placement) :
                r \in AddNamespace(cache, n, placement)}
\* An error of the sync: it is tried again, but a cluster that is in the set is not added again.
VcError ==
    IF work[Vc].then = "boot" THEN dirty' = dirty \cup {Vc} /\ boot' = "done" /\ Retry(Vc)
    ELSE UNCHANGED <<dirty, boot>> /\ Retry(Vc)
\* The schedule that the engine has read and is about to replace is not there any more.
Replaced(n) ==
    /\ engine = Ns(n) /\ work[Ns(n)].old # {}
    /\ {cache'.namespaces[m] : m \in {n} \cap DOMAIN cache'.namespaces} # work[Ns(n)].old
VcSyncNs(n) ==
    /\ At(Vc, "sync") /\ n \in work[Vc].todo
    /\ \E r \in SyncNamespace(n, work[Vc].list[n].placement) :
           /\ cache' = r.cache
           /\ \/ r.err /\ VcError
              \/ ~r.err /\ work' = [work EXCEPT ![Vc].todo = @ \ {n}]
                 /\ UNCHANGED <<queue, dirty, boot>>
    /\ faults' = faults \cup {f \in {"beside"} : Replaced(n)}
    /\ UNCHANGED <<outside, seen, tenant, known, engine, events, bound>>
VcSyncFails ==
    /\ At(Vc, "sync") /\ Event(IF work[Vc].then = "add" THEN "add" ELSE "call") /\ VcError
    /\ UNCHANGED <<outside, seen, cache, tenant, known, engine>>
VcSynced ==
    /\ At(Vc, "sync") /\ work[Vc].todo = {}
    /\ LET w == work[Vc]
           W == Without(work, {Vc})
       IN \/ /\ w.then = "boot" /\ boot' = "done" /\ work' = W
             /\ UNCHANGED <<cache, tenant, known, dirty, queue>>
          \/ /\ w.then = "add" /\ Added(Vc) /\ UNCHANGED <<cache, registry, queue>>
          \/ /\ w.then = "dirty" /\ dirty' = dirty \ {Vc}
             /\ work' = [work EXCEPT ![Vc].at = "switch"]
             /\ UNCHANGED <<cache, tenant, known, boot, queue>>
    /\ NoEvent /\ UNCHANGED <<outside, seen, engine>>
VcAfterSync ==
    /\ At(Vc, "switch") /\ VcSwitch(work[Vc].phase, Without(work, {Vc}), queue)
    /\ NoEvent /\ UNCHANGED <<outside, seen, engine>>

\* syncVirtualClusterCache
VcStart ==
    /\ Start(Vc) \in DOMAIN work /\ work' = Without(work, {Start(Vc)})
    /\ tenant' = "watching" /\ seen' = ns
    /\ queue' = queue \cup {Ns(n) : n \in {m \in Namespaces : ns[m].there}}
                     \cup {Pod(p) : p \in {q \in Pods : pod[q].there}}
    /\ NoEvent /\ UNCHANGED <<outside, cache, known, dirty, boot, engine>>
VcStartFails ==
    LET late == Late(Vc) \in DOMAIN work
        k == IF late THEN Late(Vc) ELSE Start(Vc)
    IN /\ k \in DOMAIN work
       /\ \/ late /\ NoEvent
          \/ ~late /\ Event("informers")
       /\ removeVirtualCluster(Without(work, {k}), queue \cup {Vc})
       /\ UNCHANGED <<outside, seen, engine>>
VcStep == VcTake \/ VcSynced \/ VcAfterSync \/ \E n \in Namespaces : VcSyncNs(n)

removeSuperCluster(c, W, Q) ==
    \/ /\ known[c] = "none" /\ work' = W /\ queue' = Q /\ UNCHANGED <<cache, registry>>
    \/ /\ known[c] # "none" /\ work' = Stopped(W, Super(c)) /\ queue' = Q \ HasKeys(c)
       /\ cache' = RemoveCluster(cache, c) /\ known' = [known EXCEPT ![c] = "none"]
       /\ UNCHANGED <<tenant, dirty, boot>>

\* SyncSuperClusterState reads the cluster and adds it later.  Provisioned namespaces that
\* do not fit or are placed elsewhere are an error, and so is a cluster that has no
\* kubeconfig yet.
Reads(c, then) ==
    [at |-> "sync", then |-> then, phase |-> super[c].phase, stopped |-> FALSE,
     new |-> [NewCluster(super[c].capacity) EXCEPT !.provisionItems = Got(c)]]
Readable(c) ==
    /\ super[c].phase # "Pending" /\ \A n \in Namespaces : super[c].has[n] # Elsewhere
    /\ Amount(Got(c)) <= super[c].capacity
SupSwitch(c, phase, W, Q) ==
    \/ /\ phase = "Running" /\ known[c] = "none" /\ known' = [known EXCEPT ![c] = "added"]
       /\ \/ Readable(c) /\ work' = Super(c) :> Reads(c, "add") @@ W /\ queue' = Q
          \/ ~Readable(c) /\ work' = W /\ queue' = Q \cup {Super(c)}
       /\ UNCHANGED <<cache, tenant, dirty, boot>>
    \/ /\ phase = "Running" /\ known[c] # "none" /\ work' = W /\ queue' = Q
       /\ UNCHANGED <<cache, registry>>
    \/ phase = "Failed" /\ removeSuperCluster(c, W, Q)
SupTake(c) ==
    /\ Take(Super(c))
    /\ LET Q == queue \ {Super(c)}
       IN \/ super[c].phase = "absent" /\ removeSuperCluster(c, work, Q)
          \/ super[c].phase # "absent" /\ Super(c) \in dirty /\ Readable(c)
             /\ Goes(Super(c), Reads(c, "dirty")) /\ UNCHANGED <<cache, registry>>
          \/ super[c].phase # "absent" /\ Super(c) \notin dirty
             /\ SupSwitch(c, super[c].phase, work, Q)
    /\ NoEvent /\ UNCHANGED <<outside, seen, engine>>
SupSynced(c) ==
    /\ At(Super(c), "sync") /\ cache' = AddCluster(cache, c, work[Super(c)].new)
    /\ \/ work[Super(c)].then = "add" /\ Added(Super(c)) /\ UNCHANGED dirty
       \/ work[Super(c)].then = "dirty" /\ work' = [work EXCEPT ![Super(c)].at = "switch"]
          /\ dirty' = dirty \ {Super(c)}
    /\ NoEvent /\ UNCHANGED <<outside, seen, tenant, known, boot, queue, engine>>
SupSyncFails(c) ==
    /\ At(Super(c), "sync") /\ Retry(Super(c))
    /\ Event(IF work[Super(c)].then = "add" THEN "add" ELSE "call")
    /\ UNCHANGED <<outside, seen, cache, registry, engine>>
SupAfterSync(c) ==
    /\ At(Super(c), "switch")
    /\ SupSwitch(c, work[Super(c)].phase, Without(work, {Super(c)}), queue)
    /\ NoEvent /\ UNCHANGED <<outside, seen, engine>>
\* syncSuperClusterCache
SupStart(c) ==
    /\ Start(Super(c)) \in DOMAIN work /\ work' = Without(work, {Start(Super(c))})
    /\ known' = [known EXCEPT ![c] = "watching"]
    /\ queue' = queue \cup {Has(c, n) : n \in {m \in Namespaces : super[c].has[m] > 0}}
    /\ NoEvent /\ UNCHANGED <<outside, seen, cache, tenant, dirty, boot, engine>>
SupStartFails(c) ==
    LET late == Late(Super(c)) \in DOMAIN work
        k == IF late THEN Late(Super(c)) ELSE Start(Super(c))
    IN /\ k \in DOMAIN work
       /\ \/ late /\ NoEvent
          \/ ~late /\ Event("informers")
       /\ removeSuperCluster(c, Without(work, {k}), queue \cup {Super(c)})
       /\ UNCHANGED <<outside, seen, engine>>
SupStep(c) == SupTake(c) \/ SupSynced(c) \/ SupAfterSync(c)

-----------------------------------------------------------------------------
(* scheduler.go and health.go *)

\* Bootstrap reads the super clusters and then the tenant.  What fails is dirty.
BootSuper(c) ==
    /\ At(Super(c), "boot") /\ work' = Without(work, {Super(c)})
    /\ \/ super[c].phase = "absent" /\ NoEvent /\ UNCHANGED <<cache, dirty>>
       \/ /\ super[c].phase # "absent" /\ Readable(c) /\ NoEvent /\ UNCHANGED dirty
          /\ cache' = AddCluster(cache, c, Reads(c, "boot").new)
       \/ /\ super[c].phase # "absent" /\ dirty' = dirty \cup {Super(c)} /\ UNCHANGED cache
          /\ \/ ~Readable(c) /\ NoEvent
             \/ Readable(c) /\ Event("boot")
    /\ UNCHANGED <<outside, seen, tenant, known, queue, engine, boot>>
BootVirtual ==
    /\ boot = "super" /\ \A c \in Clusters : Super(c) \notin DOMAIN work
    /\ \/ vc # "absent" /\ boot' = "virtual" /\ Synced(Sync("boot", vc))
       \/ vc = "absent" /\ boot' = "done" /\ UNCHANGED <<cache, work>>
    /\ NoEvent /\ UNCHANGED <<outside, seen, tenant, known, dirty, queue, engine>>

\* The patrols of the clusters in the sets.  A cluster that fails its check should be dirty
\* and read again, but GetOwnerInfo returns the name before the namespace: the key is the
\* cluster's own only if the two are the same, and names no cluster otherwise.
OwnerKey(k) == IF k \in SameName THEN k ELSE <<"swapped", k>>
Unhealthy(k) ==
    Event("health") /\ dirty' = dirty \cup {OwnerKey(k)} /\ queue' = queue \cup {OwnerKey(k)}
checkSuperClusterHealth(c) ==
    /\ boot = "done" /\ known[c] # "none"
    /\ \/ cache' = UpdateClusterCapacity(cache, c, super[c].capacity) /\ cache' # cache
          /\ NoEvent /\ UNCHANGED <<dirty, queue>>
       \/ Unhealthy(Super(c)) /\ UNCHANGED cache
    /\ UNCHANGED <<outside, seen, tenant, known, boot, work, engine>>
checkVirtualClusterHealth ==
    /\ boot = "done" /\ tenant # "none" /\ Unhealthy(Vc)
    /\ UNCHANGED <<outside, seen, cache, tenant, known, boot, work, engine>>
\* A key that names no cluster: there is nothing to remove, and its mark stays.
SyncNoCluster(k) ==
    /\ k \notin SameName /\ Take(OwnerKey(k)) /\ queue' = queue \ {OwnerKey(k)}
    /\ NoEvent /\ UNCHANGED <<outside, seen, cache, registry, work, engine>>
\* A shadow cluster is collected when it is five minutes old.
CollectShadows ==
    /\ \E c \in DOMAIN cache.clusters : cache.clusters[c].shadow
    /\ cache' = GarbageCollection(cache) /\ Event("expired")
    /\ UNCHANGED <<outside, seen, registry, queue, work, engine>>
\* A controller gives up a key after its retries.
GiveUp(k) ==
    /\ Take(k) /\ queue' = queue \ {k} /\ Event("giveup")
    /\ UNCHANGED <<outside, seen, cache, registry, work, engine>>
Restart == Event("restart") /\ StartAgain

-----------------------------------------------------------------------------
(* Others: users of the tenant cluster, administrators, and the syncers,    *)
(* which create the namespaces in the super clusters.                       *)

Inside == <<seen, cache, registry, work, engine>>
SetQuota(n, q) ==
    /\ ns[n].there /\ q # ns[n].quota /\ ns' = [ns EXCEPT ![n].quota = q]
    /\ Event(IF tenant = "watching" THEN "quota" ELSE "early")
    /\ UNCHANGED <<pod, super, vc, Inside, queue>>
DeleteNs(n) ==
    /\ ns[n].there
    /\ ns' = [ns EXCEPT ![n] = [there |-> FALSE, quota |-> 0, placement |-> NoPlacement]]
    /\ pod' = [p \in Pods |-> IF Home[p] = n THEN [there |-> FALSE, cluster |-> ""] ELSE pod[p]]
    /\ queue' = queue \cup {k \in {Pod(p) : p \in {q \in Pods : pod[q].there /\ Home[q] = n}} :
                           tenant = "watching"}
    /\ Event("deleted") /\ UNCHANGED <<super, vc, Inside>>
SetPod(p, there) ==
    /\ pod[p].there # there /\ ns[Home[p]].there
    /\ pod' = [pod EXCEPT ![p] = [there |-> there, cluster |-> ""]]
    /\ queue' = queue \cup {k \in {Pod(p)} : tenant = "watching"}
    /\ Event("pod") /\ UNCHANGED <<ns, super, vc, Inside>>
SuperChanges(c, phase, capacity) ==
    /\ super[c].phase # "Pending"
    /\ super' = [super EXCEPT ![c].phase = phase, ![c].capacity = capacity]
    /\ \/ phase # super[c].phase /\ capacity = super[c].capacity /\ Event("outage")
          /\ queue' = queue \cup {Super(c)}
       \/ phase = super[c].phase /\ capacity # super[c].capacity /\ Event("nodes")
          /\ UNCHANGED queue
    /\ UNCHANGED <<ns, pod, vc, Inside>>
VcChanges(phase) ==
    /\ vc # phase /\ vc' = phase /\ queue' = queue \cup {Vc}
    /\ Event("vc") /\ UNCHANGED <<ns, pod, super, Inside>>
\* A syncer that has passed a request before the namespace was moved away takes the new
\* placement over, and its patrol deletes the namespace later.
Provision(c, n) ==
    LET num == ns[n].placement[c]
        has == super[c].has[n]
    IN /\ has # num
       /\ \E new \in {num} \cup {e \in {Elsewhere} : num = 0 /\ has > 0} :
              super' = [super EXCEPT ![c].has[n] = new]
       /\ queue' = queue \cup {k \in {Has(c, n)} : known[c] = "watching"}
       /\ NoEvent /\ UNCHANGED <<ns, pod, vc, Inside>>

\* Failures, and changes by others.
Environment ==
    \/ \E n \in Namespaces : updateFails(n) \/ DeleteNs(n) \/ \E q \in bound.quotas : SetQuota(n, q)
    \/ VcSyncFails \/ VcStartFails \/ Restart \/ CollectShadows \/ checkVirtualClusterHealth
    \/ \E c \in Clusters : SupSyncFails(c) \/ SupStartFails(c)
    \/ \E k \in TenantKeys \cup UNION {HasKeys(c) : c \in Clusters} : GiveUp(k)
    \/ \E p \in Pods : PodWriteFails(p) \/ \E there \in BOOLEAN : SetPod(p, there)
    \/ \E c \in Clusters, phase \in Phases : \E capacity \in {0, Capacity[c]} :
           SuperChanges(c, phase, capacity)
    \/ \E phase \in Phases : VcChanges(phase)
Next ==
    \/ Environment \/ BootVirtual \/ VcStep \/ VcStart
    \/ \E n \in Namespaces : NsStep(n) \/ NsPanics(n) \/ SeeNs(n)
    \/ \E p \in Pods : PodStep(p)
    \/ \E k \in ClusterKeys : SyncNoCluster(k)
    \/ \E c \in Clusters :
           \/ BootSuper(c) \/ SupStep(c) \/ SupStart(c) \/ checkSuperClusterHealth(c)
           \/ \E n \in Namespaces : HasReconcile(c, n) \/ Provision(c, n)

Fairness ==
    /\ WF_vars(BootVirtual) /\ WF_vars(VcStep) /\ WF_vars(VcStart)
    /\ WF_vars(VcStartFails /\ NoEvent)
    /\ \A n \in Namespaces : WF_vars(NsStep(n)) /\ WF_vars(SeeNs(n))
    /\ \A p \in Pods : WF_vars(PodStep(p))
    /\ \A k \in ClusterKeys : WF_vars(SyncNoCluster(k))
    /\ \A c \in Clusters :
           /\ WF_vars(BootSuper(c) /\ NoEvent) /\ WF_vars(SupStep(c)) /\ WF_vars(SupStart(c))
           /\ WF_vars(SupStartFails(c) /\ NoEvent) /\ WF_vars(checkSuperClusterHealth(c) /\ NoEvent)
           /\ \A n \in Namespaces : WF_vars(HasReconcile(c, n)) /\ WF_vars(Provision(c, n))
Spec == Init /\ [][Next]_vars /\ Fairness

-----------------------------------------------------------------------------
(* Properties. *)

Booked(n, c) == IF n \in DOMAIN cache.namespaces THEN cache.namespaces[n][c] ELSE 0
\* What each cluster of the cache says is placed in it is what the namespaces and pods of
\* the cache say, and it is not more than the cluster can take, although the bookings are
\* changed by three kinds of workers that share no lock.  Not after a super cluster has been
\* removed, with its bookings, not if a cluster shrinks, and not if the tenant was read again
\* beside the engine, which then replaces a schedule that is no longer there (cache.go,
\* cluster.go).
BooksKept ==
    faults \cap {"outage", "informers", "expired", "beside"} = {} =>
        \A c \in DOMAIN cache.clusters :
            LET state == cache.clusters[c]
            IN /\ \A n \in Namespaces : state.allocItems[n] = Booked(n, c)
               /\ \A p \in Pods : p \in state.pods <=> p \in DOMAIN cache.pods /\ cache.pods[p] = c
               /\ "nodes" \notin faults => Amount(state.allocItems) <= state.capacity


NsSettled(n) ==
    LET expect == GetLeastFitSliceNum(ns[n].quota)
    IN IF ns[n].there /\ expect > 0
       THEN /\ Slices(ns[n].placement) = expect /\ ns[n].placement[""] = 0
            /\ n \in DOMAIN cache.namespaces /\ cache.namespaces[n] = ns[n].placement
       ELSE Placed(ns[n].placement) = {} /\ n \notin DOMAIN cache.namespaces
Total(c) == SliceSize * MapThenSumSet(LAMBDA n : ns[n].placement[c], Namespaces)
Settled ==
    (\A n \in Namespaces : NsSettled(n)) /\ \A c \in Clusters : Total(c) <= super[c].capacity
\* The scheduler counts what a namespace has got in a cluster when it places it once more.
HasRoom(c, num) == Amount(Got(c)) + SliceSize * num <= super[c].capacity
Ample ==
    \A n \in Namespaces :
        /\ \A c \in Placed(ns[n].placement) : HasRoom(c, ns[n].placement[c])
        /\ \E c \in Clusters : HasRoom(c, GetLeastFitSliceNum(ns[n].quota))
Tolerable ==
    \/ faults \subseteq {"call", "pod", "restart", "health", "expired"}
    \/ faults \subseteq {"call", "pod", "quota"} /\ Ample
\* In the end every namespace has the slices of its quota in real clusters, which are not
\* overbooked, and the cache agrees: after failed calls, failed health checks and restarts, or
\* after changes of quotas that the scheduler watches, if there is room for them (Reconcile
\* of the namespace controller, syncVirtualCluster, syncSuperCluster, Bootstrap).  Not after
\* both: a tenant that is read again while a new quota awaits its schedule fails at the
\* slices that do not match (helper.go:345), stays dirty, and its namespaces wait for ever.
Settles == <>[](Tolerable => Settled)

\* "mark super cluster dirty and add to super cluster queue to resync the cache"
\* (health.go:89; health.go:147 says the same of virtual clusters): after a failed check the
\* key of the cluster itself is marked and queued.  The code swaps name and namespace.
UnhealthyResync ==
    [][\A k \in ClusterKeys : Unhealthy(k) => k \in dirty' /\ k \in queue']_vars
=============================================================================
