----------------------------- MODULE ResourceSync -----------------------------
(***************************************************************************)
(* The resource syncers at work: users and controllers of both sides       *)
(* change objects, informers bring the changes to the caches and fill the  *)
(* queues, workers and patrols of Downward and Upward act on what the      *)
(* caches show, calls fail, requests are given up, and the syncer          *)
(* restarts.                                                               *)
(***************************************************************************)
EXTENDS Downward, Upward

ClassKinds == {"storageclass", "priorityclass", "crd"}
UpwardKinds == ClassKinds \cup {"persistentvolume", "node", "event"}
DownwardKinds == DifferKinds \cup {"secret", "satoken", "ingress"}

ASSUME KindsAssumption == Kinds \subseteq UpwardKinds \cup DownwardKinds

Init ==
    /\ kind \in Kinds
    /\ tenant = {} /\ super = {} /\ tenantCache = {} /\ superCache = {} /\ loaded = TRUE
    /\ related \in IF kind \in {"endpoints", "persistentvolume", "event"} THEN BOOLEAN
                   ELSE {kind = "namespace"}
    /\ requests = {} /\ upward = FALSE /\ givenUp = FALSE
    /\ dws = {} /\ uws = Idle /\ patrol = Idle /\ events = 0

-----------------------------------------------------------------------------
(* What others do. *)

others == <<kind, caches, queues, workers>>

\* Bound: the keys that are written, for the kinds whose labels and annotations are
\* looked at.
WrittenKeys ==
    CASE kind = "configmap" -> {"domain", "opaque"}
      [] kind \in {"secret", "satoken"} -> {"opaque"}
      [] kind \in {"persistentvolumeclaim", "namespace"} -> {"domain"}
      [] kind = "service" -> {"transparent", "clusterIP"}
      [] kind = "ingress" -> {"transparent"}
      [] kind \in ClassKinds -> {"opaque"}
      [] OTHER -> {}
\* The spec and the ordinary keys of other kinds are not repaired in the super cluster.
RepairedKinds == UpwardKinds \cup {"service", "endpoints"}
StatusKinds == {"service", "ingress", "persistentvolumeclaim", "persistentvolume", "node"}

NewObjects(value) ==
    {NoObj} \cup {[NoObj EXCEPT !.meta[k] = value] : k \in WrittenKeys}
Edits(o, value) ==
    {[o EXCEPT !.spec = 1 - o.spec]}
    \cup {[o EXCEPT !.meta[k] = IF o.meta[k] = value THEN 0 ELSE value] : k \in WrittenKeys}

CreateV ==
    /\ kind # "event" /\ (kind = "namespace" => related) /\ tenant = {} /\ Event
    /\ \E o \in NewObjects(1) : UidLeft(Create(o)) /\ tenant' = After({}, Create(o))
    /\ UNCHANGED <<super, related, others>>
EditV ==
    /\ kind \notin {"node", "event", "serviceaccount", "defaultsa"} /\ Event
    /\ \E v \in tenant : \E o \in Edits(v, 1) : tenant' = Written(tenant, o)
    /\ UNCHANGED <<super, related, others>>
DeleteV ==
    /\ kind # "event" /\ tenant # {} /\ Event /\ tenant' = {}
    /\ UNCHANGED <<super, related, others>>

CreateP ==
    /\ kind \in UpwardKinds /\ super = {} /\ Event
    /\ \E o \in NewObjects(2) : UidLeft(Create(o)) /\ super' = After({}, Create(o))
    /\ UNCHANGED <<tenant, related, others>>
\* The service account controller of the super cluster.
DefaultP ==
    /\ kind = "defaultsa" /\ super = {}
    /\ UidLeft(Create(NoObj)) /\ super' = After({}, Create(NoObj))
    /\ UNCHANGED <<tenant, related, others, events>>
EditP ==
    /\ Event
    /\ \E p \in super :
           \/ \E o \in Edits(p, 2) :
                  /\ kind \in RepairedKinds \/ (o.spec = p.spec /\ o.meta.plain = p.meta.plain)
                  /\ super' = Written(super, o)
           \/ kind \in StatusKinds /\ super' = Written(super, [p EXCEPT !.status = 1 - p.status])
    /\ UNCHANGED <<tenant, related, others>>
DeleteP ==
    /\ Event /\ \E p \in super : super' = super \ {p}
    /\ UNCHANGED <<tenant, related, others>>
\* Kubelets report all the time: a change of the status's times only.
Heartbeat ==
    /\ kind = "node" /\ super # {} /\ superCache = super /\ upward' = TRUE
    /\ UNCHANGED <<kind, objects, caches, related, requests, givenUp, workers, events>>

\* The service gets or loses its selector, the claim of a volume comes or goes.
RelatedChanges ==
    /\ kind \in {"endpoints", "persistentvolume"} /\ Event /\ related' = ~related
    /\ UNCHANGED <<objects, others>>
\* A VirtualCluster is deleted, and its control plane goes; the cache stays as it is.
DeleteVC ==
    /\ kind = "namespace" /\ related /\ Event /\ related' = FALSE /\ tenant' = {}
    /\ UNCHANGED <<super, others>>

Others ==
    \/ CreateV \/ EditV \/ DeleteV \/ CreateP \/ DefaultP \/ EditP \/ DeleteP \/ Heartbeat
    \/ RelatedChanges \/ DeleteVC

-----------------------------------------------------------------------------
(* Informers and the syncer as a whole. *)

HasDownward == kind \in DownwardKinds \cup {"node"}
\* Only the namespace syncer has to do with the deletion of VirtualClusters.
HasVC == kind = "namespace" => related
SeeV ==
    /\ loaded /\ HasVC /\ tenantCache # tenant /\ tenantCache' = tenant
    /\ requests' = IF ~HasDownward THEN requests
                   ELSE requests \cup {o.uid : o \in IF tenant # {} THEN tenant
                                                     ELSE tenantCache}
    /\ UNCHANGED <<kind, objects, superCache, loaded, related, upward, givenUp, workers, events>>

\* The cache of a tenant is synced and all that is there is an addition (runCluster); the
\* tenant is removed when its VirtualCluster fails or cannot be synced, and when it is gone.
AddCluster ==
    /\ ~loaded /\ HasVC /\ loaded' = TRUE /\ tenantCache' = tenant
    /\ requests' = requests \cup IF HasDownward THEN {o.uid : o \in tenant} ELSE {}
    /\ UNCHANGED <<kind, objects, superCache, related, upward, givenUp, workers, events>>
removeCluster ==
    /\ loaded /\ loaded' = FALSE /\ tenantCache' = {}
    /\ UNCHANGED <<kind, objects, superCache, related, queues, workers>>
VCFails == removeCluster /\ HasVC /\ Event
VCGone == removeCluster /\ ~HasVC /\ UNCHANGED events

enqueueService(old, new) == IF Exists(new) THEN new.ref # 0 ELSE old.ref # 0
enqueueIngress(old, new) == IF Exists(new) THEN new.ref # 0 ELSE old.ref # 0
enqueuePersistentVolumeClaim(old, new) == Exists(old) /\ Exists(new) /\ new.ref # 0

Enqueues(old, new) ==
    CASE kind = "service" -> enqueueService(old, new)
      [] kind = "ingress" -> enqueueIngress(old, new)
      [] kind = "persistentvolumeclaim" -> enqueuePersistentVolumeClaim(old, new)
      [] kind = "persistentvolume" -> enqueuePersistentVolume(old, new)
      [] kind = "storageclass" -> enqueueStorageClass(old, new)
      [] kind = "priorityclass" -> enqueuePriorityClass(old, new)
      [] kind = "crd" -> enqueueCRD(old, new)
      [] kind = "node" -> enqueueNode(old, new)
      [] kind = "event" -> enqueueEvent(old, new)
      [] OTHER -> FALSE

\* The keys of classes have a cluster's name, and are made for the clusters that are
\* registered, synced or not.
Enqueued(now, old, new) ==
    {now \/ Enqueues(old, new)} \cup IF ~loaded /\ kind \in ClassKinds THEN {now} ELSE {}

Versions(objs) == {<<o.uid, o.rv>> : o \in objs}
SeeP ==
    /\ Versions(superCache) # Versions(super) /\ superCache' = super
    /\ upward' \in Enqueued(upward, The(superCache), The(super))
    /\ UNCHANGED <<kind, objects, tenantCache, loaded, related, requests, givenUp, workers, events>>

\* The cache of the super cluster is filled again, and everything that is there is an
\* addition, before or after the tenants are registered.
Restart ==
    /\ Event /\ superCache' = super /\ tenantCache' = {} /\ loaded' = FALSE /\ requests' = {}
    /\ upward' \in {super # {} /\ Enqueues(NoObj, The(super))}
                  \cup IF kind \in ClassKinds THEN {FALSE} ELSE {}
    /\ related' = (related /\ kind # "node")
    /\ dws' = {} /\ uws' = Idle /\ patrol' = Idle
    /\ UNCHANGED <<kind, objects, givenUp>>

UwsDone == uws.pc = "tenant" /\ UwsTenantCall(Idle)
Dws(u) == \E w \in dws : w.req = u /\ (DwsCall(w) \/ NodeReconcileMap(w))
Uws == UwsDone \/ UwsCall \/ UpwardCall
PatrolDeletes == PatrolCall(IF kind \in ClassKinds THEN ClassChecked ELSE Idle)
Patrols == PatrollerDo \/ UpwardPatrollerDo \/ PatrolDeletes
Failures == (\E w \in dws : DwsFails(w)) \/ UwsFails \/ UpdateNodeFails \/ PatrolFails \/ GiveUp

Next ==
    \/ Others \/ SeeV \/ SeeP \/ AddCluster \/ VCFails \/ VCGone
    \/ \E u \in Uid : Reconcile(u) \/ NodeReconcile(u) \/ Drop(u) \/ Dws(u)
    \/ BackPopulate \/ UpwardBackPopulate \/ Uws
    \/ Patrols \/ Failures \/ Restart

\* Tenants are loaded and removed; informers, workers, periodic patrols, kubelets and the
\* service account controller run.
Fairness ==
    /\ WF_vars(SeeV) /\ WF_vars(SeeP) /\ WF_vars(AddCluster) /\ WF_vars(VCGone)
    /\ \A u \in Uid : WF_vars(Reconcile(u) \/ NodeReconcile(u) \/ Drop(u)) /\ WF_vars(Dws(u))
    /\ WF_vars(BackPopulate \/ UpwardBackPopulate \/ Uws) /\ WF_vars(Patrols)
    /\ WF_vars(Heartbeat) /\ WF_vars(DefaultP)

Spec == Init /\ [][Next]_vars
LiveSpec == Spec /\ Fairness

-----------------------------------------------------------------------------
SyncerSteps == (\E w \in dws : DwsCall(w)) \/ Uws \/ PatrolDeletes

\* The syncer never deletes the super object of a tenant object that is there, although
\* it decides so from copies of lagging caches, and whether or not the tenant is loaded:
\* where a worker's deletion has the UID as its precondition, and in every patrol.  One
\* exception: a default account whose owner has gone may be marked for the next one before
\* the patrol gets to delete it, and its UID is the same (serviceaccount/dws.go:115).
Deleted(p) == \A o \in super' : o.uid # p.uid
UidKinds == {"service", "ingress", "namespace", "satoken"}
NoneHas(uid) == \A v \in tenant : v.uid # uid
Remarked(p) ==
    kind = "defaultsa" /\ PatrolDeletes /\ patrol.p.ref # p.ref /\ NoneHas(patrol.p.ref)
NeverDeletesLive ==
    [][\A p \in super :
           /\ Deleted(p)
           /\ PatrolDeletes \/ (kind \in UidKinds /\ \E w \in dws : DwsCall(w))
           => NoneHas(p.ref) \/ Remarked(p)]_vars

\* Labels and annotations that belong to the super cluster are not touched, and a tenant
\* does not bring its own.  Secrets are an exception for the domains.
ProtectedKeys == {"opaque"} \cup IF kind \in NoConfig THEN {} ELSE {"domain"}
OpaqueKept ==
    [][SyncerSteps /\ kind \in DownwardKinds =>
           \A q \in super' : \A k \in ProtectedKeys :
               \/ \E p \in super : p.uid = q.uid /\ q.meta[k] = p.meta[k]
               \/ (\A p \in super : p.uid # q.uid) /\ q.meta[k] = 0]_vars

\* What a tenant and the super cluster agree on, by kind.  Of configmaps, secrets and
\* claims the contents are left out: a reconciliation that compares with a copy from
\* before its predecessor's update finds nothing to do, and the patrol only counts.
Copied(p, v) ==
    CASE kind = "persistentvolumeclaim" -> CheckUWPVCStatusEquality(p, v) = v
      [] kind = "service" ->
             /\ CheckServiceEquality(p, v) = p /\ p.status = v.status
             /\ CheckUWObjectMetaEquality(p, v) = v /\ (givenUp \/ v.meta.clusterIP = 2)
      [] kind = "ingress" -> CheckUWObjectMetaEquality(p, v) = v /\ p.status = v.status
      [] OTHER -> TRUE
DownwardAgree ==
    LET v == The(tenant)
        p == The(super)
    IN CASE kind = "satoken" ->
                /\ \A q \in super : q.ref = v.uid
                /\ Exists(v) => super # {}
         [] kind = "endpoints" ->
                Exists(v) /\ ~related => Exists(p) /\ (p.ref = v.uid => CheckEndpointsEquality(p, v) = p)
         [] kind = "defaultsa" -> Exists(p) /\ p.ref \in {0, v.uid}
         [] OTHER -> IF Exists(v) THEN Exists(p) /\ p.ref = v.uid /\ Copied(p, v)
                     ELSE ~Exists(p)
UpwardAgree ==
    LET v == The(tenant)
        p == The(super)
    IN CASE kind = "persistentvolume" ->
                /\ ~Exists(p) => ~Exists(v)
                /\ boundPersistentVolume(p) /\ related =>
                       v.ref = p.uid /\ CheckPVSpecEquality(p, v) = v
         [] kind = "storageclass" ->
                /\ ~Exists(p) => ~Exists(v)
                /\ publicStorageClass(p) => Exists(v) /\ v.spec = p.spec
         [] kind \in {"priorityclass", "crd"} ->
                /\ ~Exists(p) => v.meta.opaque # 2
                /\ v.meta.opaque = 2 /\ p.meta.opaque = 2 => v.spec = p.spec
                /\ p.meta.opaque = 2 => Exists(v)
         [] kind = "node" ->
                related /\ Exists(p) /\ Exists(v) => v.status = p.status /\ v.spec = p.spec
         [] kind = "event" -> related /\ Exists(p) => Exists(v)

\* Both sides agree in the end, whatever was lost, reordered or restarted on the way: a
\* patrol makes up for what was given up, but there is none for events.
Converges ==
    (kind = "event" => []~givenUp)
        => <>[](IF kind \in DownwardKinds THEN DownwardAgree ELSE UpwardAgree)

\* Downward and upward syncer do not undo each other's writes for ever.
Contents(objs) == {[o EXCEPT !.rv = 0] : o \in objs}
Quiesces ==
    <>[][Contents(tenant') = Contents(tenant) /\ Contents(super') = Contents(super)]_vars
=============================================================================
