------------------------------ MODULE Downward ------------------------------
(***************************************************************************)
(* The syncers of what the tenants write, one directory each below         *)
(* virtualcluster/pkg/syncer/resources: configmap, secret (with service    *)
(* account tokens as kind satoken), service, endpoints, serviceaccount     *)
(* (with the account that is called default as kind defaultsa),            *)
(* persistentvolumeclaim, namespace and ingress.  For each: what dws.go    *)
(* does with a request of UID u, what uws.go brings back, and what         *)
(* checker.go repairs.                                                     *)
(***************************************************************************)
EXTENDS SyncState

\* The same switch in every Reconcile: there may be a tenant object, a super object,
\* both or none.
Switch(u, p, onCreate(_), onUpdate(_, _, _), onRemove(_, _)) ==
    LET v == The(tenantCache)
    IN CASE Exists(v) /\ ~Exists(p) -> onCreate(v)
         [] ~Exists(v) /\ Exists(p) -> onRemove(u, p)
         [] Exists(v) /\ Exists(p) -> onUpdate(u, p, v)
         [] OTHER -> Nothing

\* An error, unless the super object was built from the object the request is about.
Delegated(u, p, call) == IF p.ref # u THEN Failure ELSE call

-----------------------------------------------------------------------------
(* configmap/dws.go *)
reconcileConfigMapCreate(v) == Create(BuildSuperClusterObject("configmap", v))
reconcileConfigMapUpdate(u, p, v) ==
    Delegated(u, p, UpdateIfChanged(p, CheckConfigMapEquality(p, v)))
reconcileConfigMapRemove(u, p) == Delegated(u, p, DeleteName)
ConfigMapReconcile(u) ==
    /\ kind = "configmap" /\ UNCHANGED caches
    /\ Decide(u, Switch(u, The(superCache), reconcileConfigMapCreate,
                        reconcileConfigMapUpdate, reconcileConfigMapRemove))

(* secret/dws.go: tokens are found by the label with their UID.  As no two  *)
(* of them get the same name, creating one never finds that it exists.      *)
reconcileServiceAccountSecretCreate(v) == Create(BuildSuperClusterObject("satoken", v))
reconcileNormalSecretCreate(v) == Create(BuildSuperClusterObject("secret", v))
reconcileSecretCreate(v) ==
    IF kind = "satoken" THEN reconcileServiceAccountSecretCreate(v)
    ELSE reconcileNormalSecretCreate(v)
reconcileServiceAccountSecretUpdate(p, v) == UpdateIfChanged(p, CheckBinaryDataEquality(p, v))
reconcileNormalSecretUpdate(u, p, v) ==
    Delegated(u, p, UpdateIfChanged(p, CheckSecretEquality("secret", p, v)))
reconcileSecretUpdate(u, p, v) ==
    IF kind = "satoken" THEN reconcileServiceAccountSecretUpdate(p, v)
    ELSE reconcileNormalSecretUpdate(u, p, v)
reconcileServiceAccountTokenSecretRemove(u) == Collect(u)
reconcileNormalSecretRemove(u, p) == Delegated(u, p, DeleteName)
reconcileSecretRemove(u, p) ==
    IF kind = "satoken" THEN reconcileServiceAccountTokenSecretRemove(u)
    ELSE reconcileNormalSecretRemove(u, p)
SecretReconcile(u) ==
    /\ kind \in {"secret", "satoken"} /\ UNCHANGED caches
    /\ LET found == {o \in superCache : kind = "secret" \/ o.ref = u}
       IN \E p \in IF found = {} THEN {NoObj} ELSE found :
              Decide(u, Switch(u, p, reconcileSecretCreate, reconcileSecretUpdate,
                               reconcileSecretRemove))

(* service/dws.go *)
reconcileServiceCreate(v) == Create(BuildSuperClusterObject("service", v))
reconcileServiceUpdate(u, p, v) ==
    Delegated(u, p, UpdateIfChanged(p, CheckServiceEquality(p, v)))
reconcileServiceRemove(u, p) == Delegated(u, p, DeleteUid(p))
ServiceReconcile(u) ==
    /\ kind = "service" /\ UNCHANGED caches
    /\ Decide(u, Switch(u, The(superCache), reconcileServiceCreate,
                        reconcileServiceUpdate, reconcileServiceRemove))

(* endpoints/dws.go: those of a service with a selector (related) are left  *)
(* to the super cluster.                                                    *)
reconcileEndpointsCreate(v) == Create(BuildSuperClusterObject("endpoints", v))
reconcileEndpointsUpdate(u, p, v) ==
    Delegated(u, p, UpdateIfChanged(p, CheckEndpointsEquality(p, v)))
reconcileEndpointsRemove(u, p) == Delegated(u, p, DeleteName)
EndpointsReconcile(u) ==
    /\ kind = "endpoints" /\ UNCHANGED caches
    /\ Decide(u, IF related THEN Nothing
                 ELSE Switch(u, The(superCache), reconcileEndpointsCreate,
                             reconcileEndpointsUpdate, reconcileEndpointsRemove))

(* serviceaccount/dws.go: the super cluster makes its own default account,  *)
(* which is only marked, in the copy of the cache first.                    *)
reconcileServiceAccountCreate(v) == Create(BuildSuperClusterObject("serviceaccount", v))
reconcileServiceAccountUpdate(u, p, v) ==
    IF kind = "defaultsa" THEN UpdateIfChanged(p, [p EXCEPT !.ref = v.uid])
    ELSE Delegated(u, p, Nothing)
reconcileServiceAccountRemove(u, p) == Delegated(u, p, DeleteName)
ServiceAccountReconcile(u) ==
    /\ kind \in {"serviceaccount", "defaultsa"} /\ UNCHANGED <<tenantCache, loaded>>
    /\ \E call \in {Switch(u, The(superCache), reconcileServiceAccountCreate,
                           reconcileServiceAccountUpdate, reconcileServiceAccountRemove)} :
           /\ Decide(u, call)
           /\ superCache' = IF call.op = "update" THEN {call.obj} ELSE superCache

(* persistentvolumeclaim/dws.go *)
reconcilePVCCreate(v) == Create(BuildSuperClusterObject("persistentvolumeclaim", v))
reconcilePVCUpdate(u, p, v) == Delegated(u, p, UpdateIfChanged(p, CheckPVCEquality(p, v)))
reconcilePVCRemove(u, p) == Delegated(u, p, DeleteName)
PVCReconcile(u) ==
    /\ kind = "persistentvolumeclaim" /\ UNCHANGED caches
    /\ Decide(u, Switch(u, The(superCache), reconcilePVCCreate, reconcilePVCUpdate,
                        reconcilePVCRemove))

(* namespace/dws.go, without the feature SuperClusterPooling: labels and    *)
(* annotations are those of the creation.                                   *)
reconcileNamespaceCreate(v) == Ensure(BuildSuperClusterNamespace(v))
reconcileNamespaceUpdate(u, p, v) == Delegated(u, p, Nothing)
reconcileNamespaceRemove(u, p) == Delegated(u, p, DeleteUid(p))
NamespaceReconcile(u) ==
    /\ kind = "namespace" /\ UNCHANGED caches
    /\ Decide(u, Switch(u, The(superCache), reconcileNamespaceCreate,
                        reconcileNamespaceUpdate, reconcileNamespaceRemove))

(* ingress/dws.go *)
reconcileIngressCreate(v) == Create(BuildSuperClusterObject("ingress", v))
reconcileIngressUpdate(u, p, v) ==
    Delegated(u, p, IF CheckIngressEquality(p, v) = v THEN Nothing
                    ELSE Update(CheckIngressEquality(p, v)))
reconcileIngressRemove(u, p) == Delegated(u, p, DeleteUid(p))
IngressReconcile(u) ==
    /\ kind = "ingress" /\ UNCHANGED caches
    /\ Decide(u, Switch(u, The(superCache), reconcileIngressCreate,
                        reconcileIngressUpdate, reconcileIngressRemove))

Reconcile(u) ==
    \/ ConfigMapReconcile(u) \/ SecretReconcile(u) \/ ServiceReconcile(u)
    \/ EndpointsReconcile(u) \/ ServiceAccountReconcile(u) \/ PVCReconcile(u)
    \/ NamespaceReconcile(u) \/ IngressReconcile(u)

-----------------------------------------------------------------------------
(* service/uws.go, ingress/uws.go and persistentvolumeclaim/uws.go *)

\* Labels and annotations go first.  If the status differs, too, it is then written to
\* the object that is there at that time.
MetaThenStatus(p, v) ==
    LET new == CheckUWObjectMetaEquality(p, v)
    IN /\ p.ref = v.uid
       /\ BackPopulates(
              CASE new # v -> At("meta", Update(new), p)
                [] new = v /\ p.status # v.status ->
                       At("tenant", Update([v EXCEPT !.status = p.status]), NoObj)
                [] OTHER -> Idle)
\* Nobody is waiting for the object of the key.  That the tenant is not loaded is an
\* error, and the key stays.
NoOwner(p) == ~Exists(p) \/ p.ref = 0 \/ (loaded /\ tenantCache = {})

\* A service gets its cluster IP as an annotation first, in the copy of the cache; the
\* rest is left to the update event of that.
ServiceBackPopulate ==
    LET p == The(superCache)
        annotated == [p EXCEPT !.meta.clusterIP = 2]
    IN /\ kind = "service" /\ Take /\ UNCHANGED <<tenantCache, loaded>>
       /\ \/ /\ Exists(p) /\ p.meta.clusterIP = 0 /\ superCache' = {annotated}
             /\ BackPopulates(At("super", Update(annotated), NoObj))
          \/ /\ ~(Exists(p) /\ p.meta.clusterIP = 0) /\ UNCHANGED superCache
             /\ \/ NoOwner(p) /\ BackPopulates(Idle)
                \/ ~NoOwner(p) /\ MetaThenStatus(p, The(tenantCache))

IngressBackPopulate ==
    LET p == The(superCache)
    IN /\ kind = "ingress" /\ Take /\ UNCHANGED caches
       /\ \/ NoOwner(p) /\ BackPopulates(Idle)
          \/ ~NoOwner(p) /\ MetaThenStatus(p, The(tenantCache))

\* A claim that is not in the cache of the tenant is an error; its UID is not looked at.
PVCBackPopulate ==
    LET p == The(superCache)
        v == The(tenantCache)
    IN /\ kind = "persistentvolumeclaim" /\ Take /\ UNCHANGED caches
       /\ \/ (~Exists(p) \/ p.ref = 0) /\ BackPopulates(Idle)
          \/ /\ Exists(p) /\ p.ref # 0 /\ Exists(v)
             /\ BackPopulates(
                    IF CheckUWPVCStatusEquality(p, v) = v THEN Idle
                    ELSE At("tenant", Update(CheckUWPVCStatusEquality(p, v)), NoObj))

\* The calls of the worker after the meta data was decided on.
ServiceUwsSuper ==
    /\ uws.pc = "super"
    /\ \/ /\ Accepts(super, uws.call) /\ super' = After(super, uws.call) /\ uws' = Idle
          /\ UNCHANGED <<kind, tenant, caches, related, queues, dws, patrol, events>>
       \/ ~Accepts(super, uws.call) /\ UwsRetry /\ UNCHANGED events
UwsMeta ==
    uws.pc = "meta" /\ UwsTenantCall(IF uws.p.status # uws.call.obj.status
                                     THEN At("get", Nothing, uws.p) ELSE Idle)
UwsGet ==
    /\ uws.pc = "get"
    /\ \/ /\ tenant # {}
          /\ uws' = At("tenant", Update([The(tenant) EXCEPT !.status = uws.p.status]), NoObj)
          /\ UNCHANGED <<kind, objects, caches, related, queues, dws, patrol, events>>
       \/ tenant = {} /\ UwsRetry /\ UNCHANGED events

BackPopulate == ServiceBackPopulate \/ IngressBackPopulate \/ PVCBackPopulate
UwsCall == ServiceUwsSuper \/ UwsMeta \/ UwsGet

-----------------------------------------------------------------------------
(* The checkers.  Most of them list the super objects, then the tenant's,   *)
(* and compare the two lists; objects in the super cluster that are not a   *)
(* tenant's are left alone.                                                 *)

DifferKinds == {"configmap", "service", "endpoints", "serviceaccount", "defaultsa",
                "persistentvolumeclaim", "namespace"}
\* Nothing of a tenant that is not loaded passes the filter, but namespaces do.
ListP ==
    kind \in DifferKinds /\ patrol = Idle /\ (loaded \/ kind = "namespace") /\ Finds(Listing)

\* Mutant of DefaultDifferFilter: objects that no tenant owns pass.
FilterNothing(p) == TRUE
DefaultDifferFilter(p) == p.ref # 0 /\ Known
\* namespace/checker.go has a filter of its own.
NamespaceFilter(p) == p.ref # 0

Difference(Filter(_), onAdd(_), onUpdate(_, _), onDelete(_)) ==
    LET p == patrol.p
        v == The(VList)
    IN /\ patrol.pc \in {"listed", "unlisted"}
       /\ CASE Exists(v) /\ ~Exists(p) -> onAdd(v)
            [] Exists(v) /\ Exists(p) /\ Filter(p) -> onUpdate(v, p)
            [] ~Exists(v) /\ Exists(p) /\ Filter(p) -> onDelete(p)
            [] OTHER -> Finds(Idle)

Requeue(v) == RequeueObject(v, Idle)
\* The patrol makes the call later, for the copy it has decided on.
PatrolDelete(p) == Finds(At("super", DeleteUid(p), p))

\* Mutant of ConfigMapUpdateFunc: the super object of another tenant object stays.
ConfigMapUpdateNothing(v, p) == Finds(Idle)
\* Differences of configmaps are only counted.
ConfigMapUpdateFunc(v, p) == IF p.ref # v.uid THEN PatrolDelete(p) ELSE Finds(Idle)
ConfigMapPatrollerDo ==
    /\ kind = "configmap"
    /\ Difference(DefaultDifferFilter, Requeue, ConfigMapUpdateFunc, PatrolDelete)

ServiceUpdateFunc(v, p) ==
    CASE p.ref # v.uid -> PatrolDelete(p)
      [] p.ref = v.uid /\ CheckServiceEquality(p, v) # p -> Requeue(v)
      [] p.ref = v.uid /\ CheckServiceEquality(p, v) = p ->
             IF CheckUWObjectMetaEquality(p, v) # v \/ p.status # v.status
             THEN AddToQueue(Idle) ELSE Finds(Idle)
ServicePatrollerDo ==
    /\ kind = "service"
    /\ Difference(DefaultDifferFilter, Requeue, ServiceUpdateFunc, PatrolDelete)

\* Endpoints are never deleted, and their UIDs are not looked at.
EndpointsUpdateFunc(v, p) == IF CheckEndpointsEquality(p, v) # p THEN Requeue(v) ELSE Finds(Idle)
EndpointsDeleteFunc(p) == Finds(Idle)
EndpointsPatrollerDo ==
    /\ kind = "endpoints"
    /\ Difference(DefaultDifferFilter, Requeue, EndpointsUpdateFunc, EndpointsDeleteFunc)

ServiceAccountUpdateFunc(v, p) == IF p.ref # v.uid THEN PatrolDelete(p) ELSE Finds(Idle)
ServiceAccountPatrollerDo ==
    /\ kind \in {"serviceaccount", "defaultsa"}
    /\ Difference(DefaultDifferFilter, Requeue, ServiceAccountUpdateFunc, PatrolDelete)

\* Differences of claims are only counted, their status is repaired.
PVCUpdateFunc(v, p) ==
    CASE p.ref # v.uid -> PatrolDelete(p)
      [] p.ref = v.uid /\ CheckUWPVCStatusEquality(p, v) # v -> AddToQueue(Idle)
      [] OTHER -> Finds(Idle)
PVCPatrollerDo ==
    /\ kind = "persistentvolumeclaim"
    /\ Difference(DefaultDifferFilter, Requeue, PVCUpdateFunc, PatrolDelete)

\* Is the VirtualCluster gone?  The API server is asked, not only the cache.
shouldBeGarbageCollected(p) == ~related
deleteNamespace(p) == PatrolDelete(p)
NamespaceUpdateFunc(v, p) ==
    CASE shouldBeGarbageCollected(p) \/ p.ref # v.uid -> deleteNamespace(p)
      [] OTHER -> IF CheckNamespaceEquality(p, v) # p THEN Requeue(v) ELSE Finds(Idle)
\* Mutant of NamespaceDeleteFunc: that the tenant lacks the namespace is taken for granted.
NamespaceDeleteAlways(p) == deleteNamespace(p)
\* The tenant is known and has no such namespace; or it is not, and then its VirtualCluster
\* has to be gone.
NamespaceDeleteFunc(p) ==
    IF Known \/ shouldBeGarbageCollected(p) THEN deleteNamespace(p) ELSE Finds(Idle)
NamespacePatrollerDo ==
    /\ kind = "namespace"
    /\ Difference(NamespaceFilter, Requeue, NamespaceUpdateFunc, NamespaceDeleteFunc)

(* The checkers of secrets and ingresses look for the counterparts of the   *)
(* tenant's objects first, and then for those of the super cluster's.       *)
Checked == At("checked", Nothing, NoObj)

\* Differences of secrets, and more than one secret of a token, are only counted.
checkServiceAccountTokenTypeSecretOfTenantCluster(v) ==
    IF {p \in superCache : p.ref = v.uid} = {} THEN RequeueObject(v, Checked) ELSE Finds(Checked)
checkSecretOfTenantCluster ==
    LET v == The(tenantCache)
    IN /\ kind \in {"secret", "satoken"} /\ patrol = Idle
       /\ CASE ~Exists(v) -> Finds(Checked)
            [] Exists(v) /\ kind = "satoken" ->
                   checkServiceAccountTokenTypeSecretOfTenantCluster(v)
            [] Exists(v) /\ kind = "secret" ->
                   IF superCache = {} THEN RequeueObject(v, Checked) ELSE Finds(Checked)

\* A super object whose tenant object is missing or another one is deleted, if the tenant
\* is loaded: other errors of Get count for nothing.
SuperObjects ==
    LET Stale == {p \in superCache : loaded /\ p.ref # 0 /\ p.ref # The(tenantCache).uid}
    IN /\ patrol.pc = "checked"
       /\ \/ Stale = {} /\ Finds(Idle)
          \/ \E p \in Stale : PatrolDelete(p)
SecretPatrollerDo == kind \in {"secret", "satoken"} /\ SuperObjects

checkIngressesOfTenantCluster ==
    LET v == The(tenantCache)
        p == The(superCache)
        enqueue == CheckUWObjectMetaEquality(p, v) # v \/ p.status # v.status
    IN /\ kind = "ingress" /\ patrol = Idle
       /\ CASE Exists(v) /\ ~Exists(p) -> RequeueObject(v, Checked)
            [] Exists(v) /\ Exists(p) /\ p.ref = v.uid ->
                   /\ PatrolAt(Checked)
                   /\ requests' = requests \cup IF CheckIngressEquality(p, v) # v
                                                THEN {v.uid} ELSE {}
                   /\ upward' = (upward \/ enqueue)
            [] OTHER -> Finds(Checked)
IngressPatrollerDo == kind = "ingress" /\ SuperObjects

PatrollerDo ==
    \/ ListP \/ ConfigMapPatrollerDo \/ ServicePatrollerDo \/ EndpointsPatrollerDo
    \/ ServiceAccountPatrollerDo \/ PVCPatrollerDo \/ NamespacePatrollerDo
    \/ checkSecretOfTenantCluster \/ SecretPatrollerDo
    \/ checkIngressesOfTenantCluster \/ IngressPatrollerDo
=============================================================================
