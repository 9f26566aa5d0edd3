---------------------------- MODULE MCController ----------------------------
(***************************************************************************)
(* A MultiClusterController, virtualcluster/pkg/util/mccontroller: the     *)
(* workers of processNextWorkItem on the fair queue, the registered        *)
(* clusters, and the sources of requests (informer handlers, RequeueObject *)
(* called by the patrollers, the rate limited retries).                    *)
(*                                                                         *)
(* A worker is in a `stage` while it is "busy" in FairQueue.  The rate     *)
(* limiter and the queue have locks of their own, so a call to each is a   *)
(* step of its own.                                                        *)
(***************************************************************************)
EXTENDS FairQueue

CONSTANTS MaxReconcileRetryAttempts,
          SuperClusterPooling,         \* the feature gate
          MaxLength                    \* bound: requests are dropped as not scheduled
                                       \* here only while the queue is shorter

ASSUME RetryAssumption == MaxReconcileRetryAttempts \in Nat
ASSUME PoolingAssumption == SuperClusterPooling \in BOOLEAN /\ MaxLength \in Nat

VARIABLES
    clusters,  \* c.clusters: the registered clusters
    watching,  \* clusters whose informers deliver events to the queue
    requeues,  \* the rate limiter's failure count, NumRequeues
    stage,     \* where in processNextWorkItem a busy worker is
    owed       \* requests whose last reconcile failed and is to be retried
               \* (history, not in the code)

ctrlVars == <<clusters, watching, requeues, stage, owed>>
mcVars == <<vars, ctrlVars>>

Stage == {"none", "got", "reconcile", "count", "requeue", "forget", "extraDone", "done"}

CtrlTypeOK ==
    /\ TypeOK
    /\ clusters \subseteq Group /\ watching \subseteq Group
    \* Past the limit, every worker may count the failure it has checked before, and
    \* a result.Requeue before its Forget.
    /\ requeues \in [Item -> 0..(MaxReconcileRetryAttempts + 2 * Cardinality(Worker) - 1)]
    /\ stage \in [Worker -> Stage]
    /\ owed \subseteq Item

MCInit ==
    /\ Init
    /\ clusters = {} /\ watching = {}
    /\ requeues = [x \in Item |-> 0]
    /\ stage = [w \in Worker |-> "none"]
    /\ owed = {}

-----------------------------------------------------------------------------
(* Clusters come and go. *)

RegisterClusterResource(g) ==
    /\ clusters' = clusters \cup {g}
    /\ UNCHANGED <<vars, watching, requeues, stage, owed>>

\* Watching adds the event handler to the cluster's informer; it is an error for a
\* cluster that is not registered.
WatchClusterResource(g) ==
    /\ g \in clusters
    /\ watching' = watching \cup {g}
    /\ UNCHANGED <<vars, clusters, requeues, stage, owed>>

TeardownClusterResource(g) ==
    /\ clusters' = clusters \ {g}
    /\ UNCHANGED <<vars, watching, requeues, stage, owed>>

\* The cluster's informers, stopped before the teardown, deliver no more events;
\* those under way may come later than the teardown.
InformersEnd(g) ==
    /\ g \in watching \ clusters
    /\ watching' = watching \ {g}
    /\ UNCHANGED <<vars, clusters, requeues, stage, owed>>

(* Requests come in. *)

EnqueueRequestForObject(x) ==
    /\ GroupName[x] \in watching
    /\ Add(x)
    /\ UNCHANGED ctrlVars

RequeueObject(x) ==
    /\ GroupName[x] \in clusters
    /\ Add(x)
    /\ UNCHANGED ctrlVars

DelayedAdd(x) == WaitingLoopAdd(x) /\ UNCHANGED ctrlVars

-----------------------------------------------------------------------------
(* processNextWorkItem *)

WorkerGet(w) ==
    \/ GetItem(w) /\ stage' = [stage EXCEPT ![w] = "got"]
                  /\ UNCHANGED <<clusters, watching, requeues, owed>>
    \/ (GetWait(w) \/ GetStop(w) \/ GetStuck(w)) /\ UNCHANGED ctrlVars

At(w, s) == mode = "running" /\ status[w] = "busy" /\ stage[w] = s
GoTo(w, s) == stage' = [stage EXCEPT ![w] = s]

\* Mutant of DropClusterGone: the request is put back with AddAfter.
DropClusterGoneRetries(w) ==
    /\ At(w, "got") /\ GroupName[holds[w]] \notin clusters
    /\ GoTo(w, "requeue")
    /\ UNCHANGED <<vars, clusters, watching, requeues, owed>>

\* The request of a cluster that is gone is dropped.
DropClusterGone(w) ==
    /\ At(w, "got") /\ GroupName[holds[w]] \notin clusters
    /\ GoTo(w, "forget")
    /\ owed' = owed \ {holds[w]}
    /\ UNCHANGED <<vars, clusters, watching, requeues>>

\* With super cluster pooling, a request whose object is not scheduled here is
\* dropped; whether it is depends on the tenant's objects at this moment.
DropNotScheduledHere(w) ==
    /\ At(w, "got") /\ GroupName[holds[w]] \in clusters
    /\ SuperClusterPooling /\ length < MaxLength
    /\ requeues' = [requeues EXCEPT ![holds[w]] = 0]
    /\ GoTo(w, "extraDone")
    /\ owed' = owed \ {holds[w]}
    /\ UNCHANGED <<vars, clusters, watching>>

\* That path calls Done itself (mccontroller.go:431), and the deferred Done (:408)
\* follows.
ExtraDone(w) ==
    /\ At(w, "extraDone")
    /\ QueueDone(holds[w], status)
    /\ GoTo(w, "done")
    /\ UNCHANGED <<shuttingDown, waiting, holds, mode, clusters, watching, requeues, owed>>

Reconcile(w) ==
    /\ At(w, "got") /\ GroupName[holds[w]] \in clusters
    /\ GoTo(w, "reconcile")
    /\ owed' = owed \ {holds[w]}
    /\ UNCHANGED <<vars, clusters, watching, requeues>>

\* No error and nothing to do, or a rejection by the API server (400, 403).
ReconcileEnds(w) ==
    /\ At(w, "reconcile")
    /\ GoTo(w, "forget")
    /\ UNCHANGED <<vars, clusters, watching, requeues, owed>>

\* No error and result.RequeueAfter: Forget follows.
ReconcileRequeueAfter(w) ==
    /\ At(w, "reconcile")
    /\ waiting' = IF shuttingDown THEN waiting ELSE waiting \cup {holds[w]}
    /\ GoTo(w, "forget")
    /\ UNCHANGED <<queueVars, shuttingDown, holds, mode, clusters, watching, requeues, owed>>

\* No error and result.Requeue: the failure count goes up, until Forget.  (What others
\* do between the rate limiter's count and AddAfter can as well come after both.)
ReconcileRequeue(w) ==
    /\ At(w, "reconcile")
    /\ requeues' = [requeues EXCEPT ![holds[w]] = @ + 1]
    /\ waiting' = IF shuttingDown THEN waiting ELSE waiting \cup {holds[w]}
    /\ GoTo(w, "forget")
    /\ UNCHANGED <<queueVars, shuttingDown, holds, mode, clusters, watching, owed>>

\* Mutant of ReconcileFails: one retry too many.
ReconcileFailsOften(w) ==
    /\ At(w, "reconcile")
    /\ IF requeues[holds[w]] > MaxReconcileRetryAttempts
       THEN GoTo(w, "forget") /\ UNCHANGED owed
       ELSE GoTo(w, "count") /\ owed' = owed \cup {holds[w]}
    /\ UNCHANGED <<vars, clusters, watching, requeues>>

\* An error: retry with back-off, or give up after too many failures.
ReconcileFails(w) ==
    /\ At(w, "reconcile")
    /\ IF requeues[holds[w]] >= MaxReconcileRetryAttempts
       THEN GoTo(w, "forget") /\ UNCHANGED owed
       ELSE GoTo(w, "count") /\ owed' = owed \cup {holds[w]}
    /\ UNCHANGED <<vars, clusters, watching, requeues>>

\* AddRateLimited: the rate limiter counts the failure, then AddAfter follows.
RetryCount(w) ==
    /\ At(w, "count")
    /\ requeues' = [requeues EXCEPT ![holds[w]] = @ + 1]
    /\ GoTo(w, "requeue")
    /\ UNCHANGED <<vars, clusters, watching, owed>>

RetryLater(w) ==
    /\ At(w, "requeue")
    /\ waiting' = IF shuttingDown THEN waiting ELSE waiting \cup {holds[w]}
    /\ GoTo(w, "done")
    /\ UNCHANGED <<queueVars, shuttingDown, holds, mode, clusters, watching, requeues, owed>>

Forget(w) ==
    /\ At(w, "forget")
    /\ requeues' = [requeues EXCEPT ![holds[w]] = 0]
    /\ GoTo(w, "done")
    /\ UNCHANGED <<vars, clusters, watching, owed>>

\* The deferred Done.
WorkerDone(w) ==
    /\ stage[w] = "done"
    /\ Done(w)
    /\ GoTo(w, "none")
    /\ UNCHANGED <<clusters, watching, requeues, owed>>

processNextWorkItem(w) ==
    \/ WorkerGet(w)
    \/ DropClusterGone(w) \/ DropNotScheduledHere(w) \/ ExtraDone(w)
    \/ Reconcile(w) \/ ReconcileEnds(w) \/ ReconcileRequeueAfter(w)
    \/ ReconcileRequeue(w) \/ ReconcileFails(w)
    \/ RetryCount(w) \/ RetryLater(w) \/ Forget(w) \/ WorkerDone(w)

MCNext ==
    \/ \E g \in Group : RegisterClusterResource(g) \/ WatchClusterResource(g)
                        \/ TeardownClusterResource(g) \/ InformersEnd(g)
    \/ \E x \in Item : EnqueueRequestForObject(x) \/ RequeueObject(x) \/ DelayedAdd(x)
    \/ \E w \in Worker : processNextWorkItem(w)
    \/ \E g \in Group : (Expire(g) \/ CleanIdle(g)) /\ UNCHANGED ctrlVars
    \/ ShutDown /\ UNCHANGED ctrlVars

MCSpec == MCInit /\ [][MCNext]_mcVars

\* Workers and the waiting loop are goroutines; a reconcile ends; the informers of
\* a cluster that was stopped end.
MCFairness ==
    /\ \A w \in Worker : WF_mcVars(processNextWorkItem(w))
    /\ \A x \in Item : WF_mcVars(DelayedAdd(x))
    /\ \A g \in Group : WF_mcVars(InformersEnd(g))

MCLiveSpec == MCSpec /\ MCFairness

-----------------------------------------------------------------------------
\* "the reconcileHandler is never invoked concurrently with the same object"
\* (mccontroller.go:382).
NeverConcurrent ==
    \A v, w \in Worker :
        (v # w /\ stage[v] = "reconcile" /\ stage[w] = "reconcile") => holds[v] # holds[w]

\* A request whose reconcile failed below the limit is never forgotten: it waits
\* for its back-off, is queued or is being worked on, until it is reconciled again,
\* dropped with its cluster, or the controller stops.
RetryKept == shuttingDown \/ owed \subseteq waiting \cup Queued \cup {holds[w] : w \in Worker}

\* No two workers hold the same request, which NeverConcurrentReconcile
\* (MCControllerProofs) establishes without pooling.
Alone == \A v, w \in Worker : (v # w /\ holds[v] # NoItem) => holds[v] # holds[w]

\* No request fails more than MaxReconcileRetryAttempts times in a row and is still
\* queued for another try, whatever informers and patrollers add meanwhile, as long as
\* one worker at a time holds it (NumRequeues and AddRateLimited are two calls).
RetryLimit ==
    []Alone => [](\A x \in Item : requeues[x] > MaxReconcileRetryAttempts =>
                     \E w \in Worker : stage[w] = "forget" /\ holds[w] = x)

\* The worker loop is a proper client of the fair queue (one Done per Get), so what
\* is proved of FairQueue holds for the controller.
ImplementsFairQueue == Spec

\* The finite number of sweeps of FairQueue!SweepsCease, in this state space.
MCSweepsCease == <>[][\A g \in Group : ~CleanIdle(g)]_mcVars

\* A failed request is eventually tried again (or dropped with its cluster).
RetryHappens ==
    MCSweepsCease => \A x \in Item : x \in owed ~> (x \notin owed \/ shuttingDown)

\* Once a cluster is removed for good and its informers have ended, the queue
\* gets rid of all its requests.
RemovedClusterDrains ==
    MCSweepsCease => \A g \in Group :
        <>[](g \notin clusters) =>
            <>[](shuttingDown \/ \A x \in dirty \cup processing \cup waiting : GroupName[x] # g)
=============================================================================
