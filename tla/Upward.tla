------------------------------- MODULE Upward -------------------------------
(***************************************************************************)
(* The syncers of what the super cluster offers its tenants, one directory *)
(* each below virtualcluster/pkg/syncer/resources: persistentvolume,       *)
(* storageclass, priorityclass, crd, node and event.  For each: what       *)
(* uws.go brings to the tenant and what checker.go repairs.                *)
(***************************************************************************)
EXTENDS SyncState

\* The worker goes on with a call in the tenant, or is done.
TenantCall(call) == IF call = Nothing THEN Idle ELSE At("tenant", call, NoObj)

boundPersistentVolume(p) == p.status = 1        \* Spec.ClaimRef is set
publicStorageClass(o) == o.meta.opaque = 2      \* the label PublicObjectKey
publicPriorityClass(o) == o.meta.opaque = 2
publicCRD(o) == o.meta.opaque = 2

-----------------------------------------------------------------------------
(* persistentvolume/uws.go: a volume goes to the tenant of the claim it is  *)
(* bound to, if the claim is there (related).                               *)
PVBackPopulate ==
    LET p == The(superCache)
        v == The(tenantCache)
        wanted == Exists(p) /\ boundPersistentVolume(p) /\ related
    IN /\ kind = "persistentvolume" /\ Take /\ UNCHANGED caches
       /\ \/ ~wanted /\ BackPopulates(Idle)
          \/ /\ wanted /\ loaded /\ ~Exists(v)
             /\ BackPopulates(TenantCall(Create(BuildVirtualPersistentVolume(p))))
          \/ /\ wanted /\ Exists(v) /\ v.ref = p.uid
             /\ BackPopulates(TenantCall(UpdateIfChanged(v, CheckPVSpecEquality(p, v))))

(* storageclass/uws.go, priorityclass/uws.go and crd/uws.go do the same: a  *)
(* missing super object is a deletion.                                      *)
ClassCall(p, v, Build(_), Check(_, _)) ==
    CASE ~Exists(v) /\ Exists(p) -> Create(Build(p))
      [] ~Exists(v) /\ ~Exists(p) -> Nothing
      [] Exists(v) /\ ~Exists(p) -> RemoveName
      [] Exists(v) /\ Exists(p) -> UpdateIfChanged(v, Check(p, v))

StorageClassBackPopulate ==
    /\ kind = "storageclass" /\ Take /\ loaded /\ UNCHANGED caches
    /\ BackPopulates(TenantCall(ClassCall(The(superCache), The(tenantCache),
                                BuildVirtualStorageClass, CheckStorageClassEquality)))
PriorityClassBackPopulate ==
    /\ kind = "priorityclass" /\ Take /\ loaded /\ UNCHANGED caches
    /\ BackPopulates(TenantCall(ClassCall(The(superCache), The(tenantCache),
                                BuildVirtualPriorityClass, CheckPriorityClassEquality)))
\* The super cluster itself is asked for the resource definition.
CRDBackPopulate ==
    /\ kind = "crd" /\ Take /\ loaded /\ UNCHANGED caches
    /\ BackPopulates(TenantCall(ClassCall(The(super), The(tenantCache), BuildVirtualCRD,
                                          CheckCRDEquality)))

(* event/uws.go: an event about a pod or service the tenant has (related)   *)
(* is copied once.                                                          *)
EventBackPopulate ==
    LET p == The(superCache)
    IN /\ kind = "event" /\ Take /\ (Exists(p) => loaded) /\ UNCHANGED caches
       /\ BackPopulates(TenantCall(IF Exists(p) /\ related /\ tenantCache = {}
                                   THEN Create(BuildVirtualEvent(p)) ELSE Nothing))

-----------------------------------------------------------------------------
(* node/dws.go and node/uws.go: virtual nodes are created with the pods     *)
(* bound to them.  related tells whether nodeNameToCluster has the tenant.  *)

NodeReconcile(u) ==
    /\ kind = "node" /\ UNCHANGED caches
    /\ Decide(u, Call(IF tenantCache # {} THEN "map" ELSE "unmap", NoObj, 0))
NodeReconcileMap(w) ==
    /\ w.call.op \in {"map", "unmap"} /\ dws' = dws \ {w} /\ related' = (w.call.op = "map")
    /\ UNCHANGED <<kind, objects, caches, queues, uws, patrol, events>>

\* The virtual node is looked up before the lock is taken that protects the map.  A tenant
\* that has been removed is forgotten, too, but not one whose cache is not synced yet.
NodeBackPopulate ==
    LET p == The(superCache)
    IN /\ kind = "node" /\ Take /\ UNCHANGED caches
       /\ \/ (~Exists(p) \/ ~related \/ ~loaded) /\ BackPopulates(Idle)
          \/ /\ Exists(p) /\ related
             /\ BackPopulates(IF tenantCache = {} THEN At("forget", Nothing, NoObj)
                              ELSE At("node", PatchStatus(p), p))
updateClusterNodeForget ==
    /\ uws.pc = "forget" /\ uws' = Idle /\ related' = FALSE
    /\ UNCHANGED <<kind, objects, caches, queues, dws, patrol, events>>
\* The status is patched, then taints and labels.  Errors are only logged.
UpdateNode ==
    /\ uws.pc \in {"node", "labels"}
    /\ tenant' = IF Accepts(tenant, uws.call) THEN After(tenant, uws.call) ELSE tenant
    /\ uws' = IF uws.pc = "node" /\ tenant # {} THEN At("labels", PatchSpec(uws.p), uws.p)
              ELSE Idle
    /\ UNCHANGED <<kind, super, caches, related, queues, dws, patrol, events>>
UpdateNodeFails ==
    /\ uws.pc \in {"node", "labels"} /\ uws' = Idle /\ Event
    /\ UNCHANGED <<kind, objects, caches, related, queues, dws, patrol>>

UpwardBackPopulate ==
    \/ PVBackPopulate \/ StorageClassBackPopulate \/ PriorityClassBackPopulate
    \/ CRDBackPopulate \/ EventBackPopulate \/ NodeBackPopulate
UpwardCall == updateClusterNodeForget \/ UpdateNode

-----------------------------------------------------------------------------
(* persistentvolume/checker.go: the volumes of the super cluster are listed *)
(* before those of the tenant, which are deleted if they are not in the     *)
(* first list.                                                              *)
ListPVs == kind = "persistentvolume" /\ patrol = Idle /\ Finds(Listing)
PVDelete(v) == Finds(At("tenant", DeleteUid(v), NoObj))
PVPatrollerDo ==
    LET p == patrol.p
        v == The(VList)
        passes == Exists(p) /\ boundPersistentVolume(p) /\ related
    IN /\ kind = "persistentvolume" /\ patrol.pc \in {"listed", "unlisted"}
       /\ CASE passes /\ ~Exists(v) -> AddToQueue(Idle)
            [] passes /\ Exists(v) /\ v.ref # p.uid -> PVDelete(v)
            [] passes /\ Exists(v) /\ v.ref = p.uid ->
                   IF CheckPVSpecEquality(p, v) # v THEN AddToQueue(Idle) ELSE Finds(Idle)
            [] ~Exists(p) /\ Exists(v) -> PVDelete(v)
            [] OTHER -> Finds(Idle)

(* The checkers of the classes look at the objects of the tenant first: one *)
(* that the super cluster lacks is deleted, by name.                        *)
ClassChecked == At("checked", Nothing, NoObj)
CheckClass(p, v, Public(_), Check(_, _)) ==
    CASE Exists(v) /\ ~Exists(p) -> Finds(At("tenant", RemoveName, NoObj))
      [] Exists(v) /\ Exists(p) /\ Check(p, v) # v /\ Public(p) -> AddToQueue(ClassChecked)
      [] OTHER -> Finds(ClassChecked)

checkStorageClassOfTenantCluster ==
    /\ kind = "storageclass" /\ patrol = Idle
    /\ CheckClass(The(superCache), The(tenantCache), publicStorageClass,
                  CheckStorageClassEquality)
\* Only a class with the label of public ones is looked at.
checkPriorityClassOfTenantCluster ==
    /\ kind = "priorityclass" /\ patrol = Idle
    /\ IF publicPriorityClass(The(tenantCache))
       THEN CheckClass(The(superCache), The(tenantCache), publicPriorityClass,
                       CheckPriorityClassEquality)
       ELSE Finds(ClassChecked)
checkCRDOfTenantCluster ==
    /\ kind = "crd" /\ patrol = Idle
    /\ IF publicCRD(The(tenantCache))
       THEN CheckClass(The(super), The(tenantCache), publicCRD, CheckCRDEquality)
       ELSE Finds(ClassChecked)

\* Then the public ones of the super cluster that the tenant lacks.
PublicObjects(p, Public(_)) ==
    /\ patrol.pc = "checked"
    /\ IF Exists(p) /\ Public(p) /\ loaded /\ tenantCache = {} THEN AddToQueue(Idle)
       ELSE Finds(Idle)
StorageClassPatrollerDo ==
    kind = "storageclass" /\ PublicObjects(The(superCache), publicStorageClass)
PriorityClassPatrollerDo ==
    kind = "priorityclass" /\ PublicObjects(The(superCache), publicPriorityClass)
CRDPatrollerDo == kind = "crd" /\ PublicObjects(The(super), publicCRD)

UpwardPatrollerDo ==
    \/ ListPVs \/ PVPatrollerDo
    \/ checkStorageClassOfTenantCluster \/ StorageClassPatrollerDo
    \/ checkPriorityClassOfTenantCluster \/ PriorityClassPatrollerDo
    \/ checkCRDOfTenantCluster \/ CRDPatrollerDo

-----------------------------------------------------------------------------
(* Which changes of the super object put its key into the upward queue.     *)

enqueuePersistentVolume(old, new) == boundPersistentVolume(old) \/ boundPersistentVolume(new)
enqueueStorageClass(old, new) == publicStorageClass(old) \/ publicStorageClass(new)
enqueuePriorityClass(old, new) == publicPriorityClass(old) \/ publicPriorityClass(new)
enqueueCRD(old, new) == publicCRD(old) \/ publicCRD(new)
enqueueNode(old, new) == ~Exists(old) \/ ~Exists(new) \/ old.status # new.status
enqueueEvent(old, new) == ~Exists(old) /\ Exists(new)
=============================================================================
