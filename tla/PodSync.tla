------------------------------ MODULE PodSync ------------------------------
(***************************************************************************)
(* The pod syncer, virtualcluster/pkg/syncer/resources/pod, for one pod    *)
(* name of one tenant: the downward reconciler (dws.go), the upward one    *)
(* (uws.go) and the patrol (checker.go) act concurrently on the tenant's   *)
(* pod (vPod) and the super cluster's pod (pPod).  Each reads copies from  *)
(* informer caches that lag behind the two API servers, and acts on the    *)
(* copies later.                                                           *)
(*                                                                         *)
(* spec stands for everything that is synced downwards, status for         *)
(* everything that is synced upwards.  A deletion is graceful ("deleting"  *)
(* until the kubelet has finished) unless the pod has no node or the grace *)
(* period is 0.  A call that needs a resource version succeeds if the copy *)
(* is what the API server has.  Virtual nodes are the subject of another   *)
(* module, VirtualNodes.                                                   *)
(***************************************************************************)
EXTENDS Integers, FiniteSets

CONSTANTS Uid,        \* UIDs of the tenant pods that bear the name in turn
          Node,       \* nodes of the super cluster
          Home,       \* the node with room; a pod that goes elsewhere counts as an event
          None,       \* no object, no node
          Pinned,     \* the node name of a tenant pod that was created with one
          MaxEvents   \* bound: what the tenant does, status changes, evictions and other
                      \* nodes in the super cluster, failed calls and restarts

ASSUME NodeAssumption ==
    Home \in Node /\ Pinned \notin Node /\ None \notin Node \cup Uid \cup {Pinned}
ASSUME EventsAssumption == MaxEvents \in Nat /\ IsFiniteSet(Uid)

VARIABLES
    vPod, pPod,       \* the pod in the tenant's and in the super cluster's API server
    vCache, pCache,   \* what the syncer's informers have seen of them
    requests,         \* the downward queue: requests carry the UID of the tenant pod
    upward,           \* is the super pod's key in the upward queue?
    dws,              \* per request, its downward worker and its copies of the two pods
    uws,              \* the upward worker and its copies
    patrol,           \* the patroller and its copies
    used,             \* UIDs of tenant pods used so far
    events            \* events so far

pods == <<vPod, pPod>>
caches == <<vCache, pCache>>
queues == <<requests, upward>>
workers == <<dws, uws, patrol>>
bounds == <<used, events>>
vars == <<pods, caches, queues, workers, bounds>>

SuperUid == 0..(Cardinality(Uid) + 3)
VPod == [uid : Uid, deleting : BOOLEAN, node : Node \cup {None, Pinned}, spec : 0..1,
         status : 0..1]
PPod == [id : SuperUid, owner : Uid, deleting : BOOLEAN, node : Node \cup {None, Pinned},
         spec : 0..1, status : 0..1]
ASSUME NoneAssumption == None \notin VPod /\ None \notin PPod

Idle == [pc |-> "idle", v |-> None, p |-> None]
At(pc, vCopy, pCopy) == [pc |-> pc, v |-> vCopy, p |-> pCopy]
Init ==
    /\ vPod = None /\ pPod = None /\ vCache = None /\ pCache = None
    /\ requests = {} /\ upward = FALSE
    /\ dws = [u \in Uid |-> Idle] /\ uws = Idle /\ patrol = Idle
    /\ used = {} /\ events = 0

\* Pods with a node are the ones of interest to the upward controller.
assignedPod(pod) == pod # None /\ pod.node # None
\* A pod has the condition PodScheduled once it is bound.
isPodScheduled(pod) == pod.node \in Node

\* The API server on a graceful deletion: a pod without a node goes at once.
Deleted(pod) == IF pod.node = None THEN None ELSE [pod EXCEPT !.deleting = TRUE]

Event == events < MaxEvents /\ events' = events + 1

-----------------------------------------------------------------------------
(* The tenant. *)

TenantStep == Event /\ UNCHANGED <<pPod, caches, queues, workers>>

CreateV(node) ==
    LET u == CHOOSE w \in Uid : w \notin used
    IN /\ vPod = None /\ used # Uid
       /\ vPod' = [uid |-> u, deleting |-> FALSE, node |-> node, spec |-> 0, status |-> 0]
       /\ used' = used \cup {u}
       /\ TenantStep

UpdateV ==
    /\ vPod # None /\ vPod.spec = 0
    /\ vPod' = [vPod EXCEPT !.spec = 1]
    /\ TenantStep /\ UNCHANGED used

\* With a grace period, or without one.
DeleteV ==
    /\ vPod # None
    /\ vPod' \in {Deleted(vPod), None}
    /\ TenantStep /\ UNCHANGED used

(* The super cluster: scheduler, kubelet, evictions. *)

SuperStep == UNCHANGED <<vPod, caches, queues, workers>>

ScheduleP(n) ==
    /\ pPod # None /\ ~pPod.deleting /\ pPod.node = None
    /\ pPod' = [pPod EXCEPT !.node = n]
    /\ SuperStep /\ UNCHANGED used
    /\ IF n = Home THEN UNCHANGED events ELSE Event

FinishP == pPod # None /\ pPod.deleting /\ pPod' = None /\ SuperStep /\ UNCHANGED bounds

RunP ==
    /\ assignedPod(pPod) /\ pPod.status = 0
    /\ pPod' = [pPod EXCEPT !.status = 1]
    /\ SuperStep /\ Event /\ UNCHANGED used

EvictP ==
    /\ pPod # None /\ pPod' \in {Deleted(pPod), None}
    /\ SuperStep /\ Event /\ UNCHANGED used

(* The informers.  A relist may skip what happened in between. *)

SeeV ==
    /\ vCache # vPod /\ vCache' = vPod
    /\ requests' = requests \cup {IF vPod # None THEN vPod.uid ELSE vCache.uid}
    /\ UNCHANGED <<pods, pCache, upward, workers, bounds>>

SeeP ==
    /\ pCache # pPod /\ pCache' = pPod
    /\ upward' = (upward \/ assignedPod(pPod) \/ assignedPod(pCache))
    /\ UNCHANGED <<pods, vCache, requests, workers, bounds>>

-----------------------------------------------------------------------------
(* Downward.  Requests of two UIDs are different items of the queue, so two *)
(* workers may handle them at once.                                         *)

\* What Reconcile of the request u finds: a super pod of another tenant pod is an
\* error; a pod that is going, or was created with a node name, is not created.
Mismatch(u, p) == p # None /\ p.owner # u
MustCreate(v, p) == v # None /\ p = None /\ ~v.deleting /\ v.node = None
MustDelete(v, p) == p # None /\ (v # None => v.deleting /\ ~p.deleting)
MustUpdate(v, p) == v # None /\ p # None /\ ~v.deleting /\ v.spec # p.spec

\* A request that fails is retried or (MaxReconcileRetryAttempts) dropped.
Requeued(u) == {requests \ {u}, requests \cup {u}}

Reconcile(u) ==
    /\ u \in requests /\ dws[u].pc = "idle"
    /\ IF Mismatch(u, pCache)
       THEN requests' \in Requeued(u) /\ UNCHANGED dws
       ELSE /\ requests' = requests \ {u}
            /\ dws' = [dws EXCEPT ![u] =
                 CASE MustCreate(vCache, pCache) -> At("create", vCache, None)
                   [] MustDelete(vCache, pCache) -> At("delete", None, pCache)
                   [] MustUpdate(vCache, pCache) -> At("update", vCache, pCache)
                   [] OTHER -> Idle]
    /\ UNCHANGED <<pods, caches, upward, uws, patrol, bounds>>

\* The worker of u calls the super cluster, which succeeds with pod for the super pod,
\* or fails.
DwsCall(u, pc) ==
    /\ dws[u].pc = pc /\ dws' = [dws EXCEPT ![u] = Idle]
    /\ UNCHANGED <<vPod, caches, upward, uws, patrol>>
Succeeds(pod) == pPod' = pod /\ UNCHANGED <<requests, bounds>>
Rejected(u) == requests' \in {requests, requests \cup {u}} /\ UNCHANGED <<pPod, bounds>>

\* A UID never used before is one that no copy of a pod bears whose UID is still to be
\* compared.
Copies == {pPod, pCache, patrol.p} \cup {dws[u].p : u \in Uid}
NewPod(v) ==
    [id |-> CHOOSE i \in SuperUid : \A c \in Copies \ {None} : c.id # i,
     owner |-> v.uid, deleting |-> FALSE, node |-> v.node, spec |-> v.spec, status |-> 0]

\* A super pod that exists already is an error whatever its UID is: the UID of the
\* request is compared with the empty object that a failed Create returns.
reconcilePodCreate(u) ==
    /\ DwsCall(u, "create")
    /\ IF pPod = None THEN Succeeds(NewPod(dws[u].v)) ELSE Rejected(u)

\* Mutant of DeletePPod: the super pod is deleted by name.
DeletePPodByName(u, p) == Succeeds(IF pPod = None THEN None ELSE Deleted(pPod))

\* The UID is a precondition of the deletion.
DeletePPod(u, p) ==
    IF pPod = None THEN Succeeds(None)
    ELSE IF pPod.id = p.id THEN Succeeds(Deleted(pPod))
    ELSE Rejected(u)

\* Also the deletion in reconcilePodUpdate.
reconcilePodRemove(u) ==
    /\ DwsCall(u, "delete")
    /\ DeletePPod(u, dws[u].p)

reconcilePodUpdate(u) ==
    /\ DwsCall(u, "update")
    /\ IF pPod = dws[u].p THEN Succeeds([pPod EXCEPT !.spec = dws[u].v.spec]) ELSE Rejected(u)

ReconcileFails(u) ==
    /\ (DwsCall(u, "create") \/ DwsCall(u, "delete") \/ DwsCall(u, "update")) /\ Event
    /\ requests' \in {requests, requests \cup {u}} /\ UNCHANGED <<pPod, used>>

-----------------------------------------------------------------------------
(* Upward: BackPopulate of the super pod's key. *)

UwsStep(next) == uws' = next /\ UNCHANGED <<pPod, caches, requests, dws, patrol>>

\* BackPopulate fails: the key is retried or dropped.
UwsError == UwsStep(Idle) /\ upward' \in {upward, TRUE} /\ UNCHANGED vPod

\* The calls that BackPopulate still has to make with its copies.
AfterStatus(v, p) == IF p.deleting THEN At("delete", v, p) ELSE Idle
AfterBind(v, p) == IF v.status # p.status THEN At("status", v, p) ELSE AfterStatus(v, p)

BackPopulate ==
    /\ upward /\ uws.pc = "idle"
    /\ IF pCache = None \/ vCache = None
         THEN UwsStep(Idle) /\ upward' = FALSE
         ELSE IF pCache.owner # vCache.uid
         THEN UwsStep(Idle) /\ upward' \in BOOLEAN
         ELSE /\ UwsStep(IF vCache.node = None THEN At("bind", None, pCache)
                         ELSE AfterBind(vCache, pCache))
              /\ upward' = FALSE
    /\ UNCHANGED <<vPod, bounds>>

\* Bind names no UID: it binds the pod that has the name now.
bindPodToNode ==
    /\ uws.pc = "bind" /\ UNCHANGED bounds
    /\ IF uws.p.node # None /\ vPod # None /\ ~vPod.deleting /\ vPod.node = None
         THEN /\ UwsStep(At("refetch", None, uws.p))
              /\ vPod' = [vPod EXCEPT !.node = uws.p.node] /\ UNCHANGED upward
         ELSE UwsError

\* After binding, the pod is read again from the tenant's API server.
Refetch ==
    /\ uws.pc = "refetch" /\ UNCHANGED bounds
    /\ IF vPod = None THEN UwsError
       ELSE UwsStep(AfterBind(vPod, uws.p)) /\ UNCHANGED <<vPod, upward>>

UpdateStatus ==
    /\ uws.pc = "status" /\ UNCHANGED bounds
    /\ IF vPod # uws.v THEN UwsError
       ELSE /\ UwsStep(AfterStatus(uws.v, uws.p)) /\ UNCHANGED upward
            /\ vPod' = [vPod EXCEPT !.status = uws.p.status]

\* A super pod under deletion takes its tenant pod along: by name if the copy is not
\* under deletion, by UID if it is and the grace periods differ.
BackDelete ==
    /\ uws.pc = "delete" /\ UNCHANGED bounds
    /\ \/ /\ ~uws.v.deleting
          /\ IF vPod = None THEN UwsError
             ELSE UwsStep(Idle) /\ vPod' = Deleted(vPod) /\ UNCHANGED upward
       \/ /\ uws.v.deleting
          /\ IF vPod # None /\ vPod.uid = uws.v.uid
             THEN UwsStep(Idle) /\ vPod' \in {vPod, None} /\ UNCHANGED upward
             ELSE UwsError

UwsFails == uws.pc # "idle" /\ UwsError /\ Event /\ UNCHANGED used

-----------------------------------------------------------------------------
(* The patrol lists the super pods, then the tenant pods, and repairs the   *)
(* differences.  A repair that only queues a key happens when the           *)
(* difference is found: a key that is queued late is one that waits in the  *)
(* queue.  Deletions come later.                                            *)

PatrolStep(next) == patrol' = next /\ UNCHANGED <<caches, dws, uws, used>>
Decides(next) == PatrolStep(next) /\ UNCHANGED <<pods, queues, events>>

ListP == patrol.pc = "idle" /\ Decides(At("listed", None, pCache))

\* Pods the tenant created with a node name are left alone.
FilterFunc(v) == v # None => v.node # Pinned

NothingToDo ==
    /\ patrol.pc = "listed" /\ Decides(Idle)
    /\ ~FilterFunc(vCache) \/ (vCache = None /\ patrol.p = None)

requeuePod(v) ==
    PatrolStep(Idle) /\ requests' = requests \cup {v.uid} /\ UNCHANGED <<pods, upward, events>>

\* Mutant of differAddFunc: a pod that is not bound yet is left to the downward worker.
differAddOnlyBound(v) ==
    IF v.deleting THEN Decides(At("force", v, None))
    ELSE IF isPodScheduled(v) THEN Decides(At("check", v, None))
    ELSE Decides(Idle)

\* Only the tenant has the pod.  Before a bound one is deleted, "double check pPod exist
\* or not".
differAddFunc(v) ==
    IF v.deleting THEN Decides(At("force", v, None))
    ELSE IF isPodScheduled(v) THEN Decides(At("check", v, None))
    ELSE requeuePod(v)
DoubleCheck ==
    /\ patrol.pc = "check"
    /\ Decides(IF pCache = None THEN [patrol EXCEPT !.pc = "force"] ELSE Idle)

\* Both have it.  PodScheduled is part of the status.
StatusDiffers(v, p) == p.status # v.status \/ (v.node = None /\ p.node # None)
differUpdateFunc(v, p) ==
    IF v.deleting /\ ~p.deleting THEN requeuePod(v)
    ELSE IF p.owner # v.uid
    THEN Decides(IF p.deleting THEN Idle ELSE At("orphan", None, p))
    ELSE IF p.node # None /\ v.node # None /\ p.node # v.node
    THEN Decides(At("grace", v, None))
    ELSE /\ PatrolStep(Idle) /\ UNCHANGED <<pods, events>>
         /\ requests' = IF p.spec # v.spec THEN requests \cup {v.uid} ELSE requests
         /\ upward' = (upward \/ (assignedPod(p) /\ StatusDiffers(v, p)))

\* Only the super cluster has it.
differDeleteFunc(p) == Decides(At("orphan", None, p))

\* The tenant pods are listed after the super pods.
Difference ==
    /\ patrol.pc = "listed" /\ FilterFunc(vCache)
    /\ \/ vCache # None /\ patrol.p = None /\ differAddFunc(vCache)
       \/ vCache # None /\ patrol.p # None /\ differUpdateFunc(vCache, patrol.p)
       \/ vCache = None /\ patrol.p # None /\ differDeleteFunc(patrol.p)

\* Both deletions have the UID as precondition.
forceDeleteVPod ==
    /\ patrol.pc \in {"force", "grace"} /\ PatrolStep(Idle)
    /\ vPod' = IF vPod = None THEN None
               ELSE IF vPod.uid # patrol.v.uid THEN vPod
               ELSE IF patrol.pc = "grace" THEN Deleted(vPod) ELSE None
    /\ UNCHANGED <<pPod, queues, events>>

graceDeletePPod ==
    /\ patrol.pc = "orphan" /\ PatrolStep(Idle)
    /\ pPod' = IF pPod = None THEN None
               ELSE IF pPod.id # patrol.p.id THEN pPod
               ELSE Deleted(pPod)
    /\ UNCHANGED <<vPod, queues, events>>

\* A call of the patrol fails, which is logged.
PatrolFails ==
    /\ patrol.pc \in {"force", "grace", "orphan"}
    /\ PatrolStep(Idle) /\ Event /\ UNCHANGED <<pods, queues>>

\* The syncer restarts: its queues are gone, the informers list everything again.
Restart ==
    /\ Event /\ UNCHANGED <<pods, used>>
    /\ vCache' = vPod /\ pCache' = pPod
    /\ requests' = {pod.uid : pod \in {vPod} \ {None}}
    /\ upward' = assignedPod(pPod)
    /\ dws' = [u \in Uid |-> Idle] /\ uws' = Idle /\ patrol' = Idle

-----------------------------------------------------------------------------
Dws(u) == \/ reconcilePodCreate(u) \/ reconcilePodRemove(u) \/ reconcilePodUpdate(u)
          \/ ReconcileFails(u)
Uws == bindPodToNode \/ Refetch \/ UpdateStatus \/ BackDelete \/ UwsFails
PatrollerDo == \/ ListP \/ NothingToDo \/ Difference \/ DoubleCheck \/ forceDeleteVPod
               \/ graceDeletePPod \/ PatrolFails

Next ==
    \/ CreateV(None) \/ CreateV(Pinned) \/ UpdateV \/ DeleteV
    \/ \E n \in Node : ScheduleP(n)
    \/ RunP \/ EvictP \/ FinishP
    \/ SeeV \/ SeeP
    \/ \E u \in Uid : Reconcile(u) \/ Dws(u)
    \/ BackPopulate \/ Uws
    \/ PatrollerDo
    \/ Restart

\* Informers, workers and the periodic patrol run; super pods are scheduled, and a
\* kubelet finishes the pods that are deleted.
Fairness ==
    /\ WF_vars(SeeV) /\ WF_vars(SeeP)
    /\ \A u \in Uid : WF_vars(Reconcile(u) \/ Dws(u))
    /\ WF_vars(BackPopulate \/ Uws) /\ WF_vars(PatrollerDo)
    /\ WF_vars(FinishP \/ \E n \in Node : ScheduleP(n))

Spec == Init /\ [][Next]_vars
LiveSpec == Spec /\ Fairness

-----------------------------------------------------------------------------
\* The syncer never deletes the super pod of a tenant pod that is there to stay,
\* although it decides so from copies of lagging caches.
Kills(pod) ==
    pod # None /\ ~pod.deleting /\ (pPod' = None \/ (pPod' # None /\ pPod'.deleting))
NeverDeletesLivePod ==
    [][Kills(pPod) /\ ((\E u \in Uid : Dws(u)) \/ PatrollerDo) =>
         vPod = None \/ (vPod # None /\ (vPod.uid # pPod.owner \/ vPod.deleting))]_vars

\* Both sides agree.
Consistent ==
    IF vPod = None THEN pPod = None
    ELSE /\ ~vPod.deleting /\ pPod # None
         /\ ~pPod.deleting /\ pPod.owner = vPod.uid /\ pPod.node = vPod.node
         /\ pPod.spec = vPod.spec /\ pPod.status = vPod.status

\* The name has gone to a new tenant pod while the upward worker is at work on the super
\* pod of the old one; its Bind and Delete, which name no UID, may hit the new pod.
Overtaken == uws.p # None /\ vPod # None /\ vPod.uid # uws.p.owner

\* The patrol sees to it that the pods of both clusters "keep consistency" (PatrollerDo):
\* whatever calls failed and whatever the caches missed, both sides come to agree in the
\* end, but for a pod that the tenant created with a node name, and unless the upward
\* worker was overtaken.
Converges == []~Overtaken => <>[](Consistent \/ (vPod # None /\ vPod.node = Pinned))
=============================================================================
