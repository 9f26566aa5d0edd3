---------------------------- MODULE VirtualNodes ----------------------------
(***************************************************************************)
(* Virtual nodes, virtualcluster/pkg/syncer/resources/pod: the node object *)
(* that a tenant sees is made when the first of its pods is bound to the   *)
(* node (uws.go), and collected some time after the last one has gone      *)
(* (checker.go).  The two are kept apart by the maps of the pod controller *)
(* (controller.go): which pods a node is known to have, and which nodes    *)
(* are about to go.                                                        *)
(*                                                                         *)
(* One node of one tenant; the super pods are all assigned to it.  What    *)
(* the informer of super pods lags behind is the same as super pods that   *)
(* change later, so pPod is read directly.                                 *)
(***************************************************************************)
EXTENDS Naturals, FiniteSets

CONSTANTS Pods,         \* tenant pods, by UID
          First,        \* one of them
          MaxPodEvents  \* bound: pods, deletions, evictions, failed calls, restarts

VARIABLES
    vPod, pPod,       \* the tenant pods and their super pods in the API servers
    vPodCache,        \* the tenant pods in the syncer's informer
    node, nodeCache,  \* is the virtual node in the API server, and in the informer?
    podMap,           \* clusterVNodePodMap: the pods known to be on the node
    gc,               \* clusterVNodeGCMap; "due": quiescing, and the grace period is over
    podRequests,      \* the downward queue
    podDws, podUws,   \* downward and upward workers, per pod
    podPatrol,        \* the patroller, with the pods it has listed
    slip,             \* was a node that had gone found in the cache, or has the entry of a
                      \* node that is being deleted been overwritten?
    podEvents         \* events so far

pods == <<vPod, pPod>>
maps == <<podMap, gc>>
nodeCaches == <<vPodCache, nodeCache>>
nodeOthers == <<slip, podEvents>>
nodeVars == <<pods, maps, nodeCaches, node, podRequests, podDws, podUws, podPatrol, nodeOthers>>

OnNode == {"bound", "deleting"}
\* Between two pods, or before the first one.
PatrolIdle == [pc |-> "idle", left |-> Pods, uid |-> "none", copy |-> "gone"]
\* Without tenants the patrol gives up at once.
NoTenant == [PatrolIdle EXCEPT !.pc = "none"]

\* No pod; the first one, not yet bound; or the first one is bound and others follow.
NodeInit ==
    /\ vPod \in {[u \in Pods |-> "gone"],
                 [u \in Pods |-> IF u = First THEN "unbound" ELSE "gone"],
                 [u \in Pods |-> IF u = First THEN "bound" ELSE "unbound"]}
    /\ pPod = [u \in Pods |-> IF vPod[u] = "gone" THEN "gone" ELSE "there"] /\ vPodCache = vPod
    /\ node = (vPod[First] = "bound") /\ nodeCache = node
    /\ podMap = (IF node THEN {First} ELSE {}) /\ gc = "none"
    /\ podRequests = {} /\ podDws = [u \in Pods |-> "idle"] /\ podUws = [u \in Pods |-> "idle"]
    /\ podPatrol = IF vPod[First] = "gone" THEN NoTenant ELSE PatrolIdle
    /\ slip = FALSE /\ podEvents = Cardinality({u \in Pods : vPod[u] # "gone"})

PodEvent == podEvents < MaxPodEvents /\ podEvents' = podEvents + 1

-----------------------------------------------------------------------------
(* The two maps, under the controller's lock. *)

\* Mutant of removeQuiescingNode: the entry stays.
removeQuiescingNode_Stays == gc # "deleting" /\ gc' = gc

\* A node that is not yet being deleted is in use again.
removeQuiescingNode == gc # "deleting" /\ gc' = "none"

RecordPod(u) ==
    /\ podMap' = podMap \cup {u}
    /\ removeQuiescingNode \/ (gc = "deleting" /\ gc' = gc)

\* The last pod puts the node up for collection, whatever its entry was.
ForgetPod(u) ==
    LET last == podMap = {u}
    IN /\ podMap' = podMap \ {u}
       /\ gc' = IF last THEN "quiescing" ELSE gc
       /\ slip' = (slip \/ (last /\ gc = "deleting"))

-----------------------------------------------------------------------------
(* The tenant, the super cluster and the informers. *)

Outside == UNCHANGED <<maps, node, nodeCache, podDws, podUws, podPatrol, slip>>

DeletePod(u) ==
    /\ vPod[u] \in {"unbound", "bound"}
    /\ vPod' = [vPod EXCEPT ![u] = IF @ = "bound" THEN "deleting" ELSE "gone"]
    /\ PodEvent /\ Outside /\ UNCHANGED <<pPod, vPodCache, podRequests>>
ForceDeletePod(u) ==
    /\ vPod[u] # "gone" /\ vPod' = [vPod EXCEPT ![u] = "gone"]
    /\ PodEvent /\ Outside /\ UNCHANGED <<pPod, vPodCache, podRequests>>
EvictP(u) ==
    /\ pPod[u] = "there" /\ \E s \in {"deleting", "gone"} : pPod' = [pPod EXCEPT ![u] = s]
    /\ PodEvent /\ Outside /\ UNCHANGED <<vPod, vPodCache, podRequests>>
FinishP(u) ==
    /\ pPod[u] = "deleting" /\ pPod' = [pPod EXCEPT ![u] = "gone"]
    /\ Outside /\ UNCHANGED <<vPod, vPodCache, podRequests, podEvents>>
SeePod(u) ==
    /\ vPodCache[u] # vPod[u] /\ vPodCache' = [vPodCache EXCEPT ![u] = vPod[u]]
    /\ podRequests' = podRequests \cup {u}
    /\ Outside /\ UNCHANGED <<pods, podEvents>>
SeeNode ==
    /\ nodeCache # node /\ nodeCache' = node
    /\ UNCHANGED <<pods, maps, vPodCache, node, podRequests, podDws, podUws, podPatrol, nodeOthers>>

-----------------------------------------------------------------------------
(* Downward: the map is brought up to date after the call.  A request that  *)
(* fails is retried.                                                        *)

DwsNext(u, pc) == podDws' = [podDws EXCEPT ![u] = pc]
SuperIs(u, s) == pPod' = [pPod EXCEPT ![u] = s]

PodReconcile(u) ==
    /\ u \in podRequests /\ podDws[u] = "idle"
    /\ podRequests' = podRequests \ {u}
    /\ CASE vPodCache[u] = "unbound" /\ pPod[u] = "gone" -> SuperIs(u, "there") /\ DwsNext(u, "idle")
         [] vPodCache[u] = "gone" /\ pPod[u] # "gone" -> SuperIs(u, "deleting") /\ DwsNext(u, "remove")
         [] vPodCache[u] = "deleting" /\ pPod[u] # "gone" -> SuperIs(u, "deleting") /\ DwsNext(u, "update")
         [] vPodCache[u] = "bound" /\ pPod[u] # "gone" -> UNCHANGED pPod /\ DwsNext(u, "update")
         [] OTHER -> UNCHANGED <<pPod, podDws>>
    /\ UNCHANGED <<vPod, maps, nodeCaches, node, podUws, podPatrol, nodeOthers>>
ReconcileRecords(u) ==
    /\ \/ podDws[u] = "update" /\ RecordPod(u) /\ UNCHANGED slip
       \/ podDws[u] = "remove" /\ ForgetPod(u)
    /\ DwsNext(u, "idle")
    /\ UNCHANGED <<pods, nodeCaches, node, podRequests, podUws, podPatrol, podEvents>>

-----------------------------------------------------------------------------
(* Upward. *)

UwsNext(u, pc) ==
    podUws' = [podUws EXCEPT ![u] = pc] /\ UNCHANGED <<pPod, nodeCaches, podRequests, podDws, podPatrol>>
Reads(u, state) == podUws[u] = "idle" /\ pPod[u] # "gone" /\ vPodCache[u] = state

\* "We need to handle the race with vNodeGC thread here": a node that is being deleted is
\* an error.  Then the node is looked up in the cache.
BindStarts(u) ==
    /\ Reads(u, "unbound") /\ removeQuiescingNode
    /\ UwsNext(u, IF nodeCache THEN "bind" ELSE "create")
    /\ slip' = (slip \/ (nodeCache /\ ~node))
    /\ UNCHANGED <<vPod, podMap, node, podEvents>>
CreateNode(u) ==
    /\ podUws[u] = "create" /\ node' = TRUE
    /\ UwsNext(u, "bind") /\ UNCHANGED <<vPod, maps, nodeOthers>>
Bind(u) ==
    /\ podUws[u] = "bind"
    /\ vPod' = IF vPod[u] = "unbound" THEN [vPod EXCEPT ![u] = "bound"] ELSE vPod
    /\ UwsNext(u, "idle") /\ UNCHANGED <<maps, node, nodeOthers>>
\* The super pod is going, and the tenant pod with it, once the node is found in the cache.
\* The pod is forgotten after the second deletion, with the grace period of the super pod.
BackDelete(u) ==
    /\ Reads(u, "bound") /\ pPod[u] = "deleting" /\ nodeCache /\ vPod[u] # "gone"
    /\ vPod' = [vPod EXCEPT ![u] = "deleting"]
    /\ UwsNext(u, "idle") /\ UNCHANGED <<maps, node, nodeOthers>>
BackDeleteAgain(u) ==
    /\ Reads(u, "deleting") /\ pPod[u] = "deleting" /\ nodeCache /\ vPod[u] # "gone"
    /\ \E s \in {"deleting", "gone"} : vPod' = [vPod EXCEPT ![u] = s]
    /\ UwsNext(u, "forget") /\ UNCHANGED <<maps, node, nodeOthers>>
UwsForgets(u) ==
    /\ podUws[u] = "forget" /\ ForgetPod(u)
    /\ UwsNext(u, "idle") /\ UNCHANGED <<vPod, node, podEvents>>
PodUwsFails(u) ==
    /\ podUws[u] \in {"create", "bind"} /\ PodEvent
    /\ UwsNext(u, "idle") /\ UNCHANGED <<vPod, maps, node, slip>>

-----------------------------------------------------------------------------
(* The patrol: pods, then nodes, then the collection. *)

PatrolStep == UNCHANGED <<nodeCaches, podDws, podUws>>
PodPatrolAt(pc) == podPatrol' = [podPatrol EXCEPT !.pc = pc] /\ PatrolStep

\* Done with a pod.
PatrolNext == podPatrol' = [PatrolIdle EXCEPT !.left = podPatrol.left] /\ PatrolStep

\* One pod after the other is compared, from the copy that was listed.
ListPods ==
    /\ podPatrol.pc = "idle" /\ podPatrol.left # {}
    /\ LET u == CHOOSE w \in podPatrol.left : TRUE
       IN podPatrol' = [pc |-> "pod", left |-> podPatrol.left \ {u}, uid |-> u, copy |-> vPodCache[u]]
    /\ PatrolStep /\ UNCHANGED <<pods, maps, node, podRequests, nodeOthers>>

\* "Ensure the ClusterVNodePodMap is consistent": of each listed pod, before it is compared.
Unrecorded == podPatrol.copy \in OnNode /\ podPatrol.uid \notin podMap
FilterFunc ==
    /\ podPatrol.pc = "pod" /\ PodPatrolAt("compare")
    /\ IF Unrecorded THEN RecordPod(podPatrol.uid) ELSE UNCHANGED maps
    /\ UNCHANGED <<pods, node, podRequests, nodeOthers>>

\* A pod whose super pod has gone is deleted, or made again if it is not bound; a super pod
\* without a pod is deleted; other differences are left to the downward worker.
PodDifference ==
    /\ podPatrol.pc = "compare"
    /\ LET u == podPatrol.uid
           force == podPatrol.copy \in OnNode /\ pPod[u] = "gone" /\ vPod[u] # "gone"
           grace == podPatrol.copy = "gone" /\ pPod[u] = "there"
           requeue == \/ podPatrol.copy = "deleting" /\ pPod[u] = "there"
                      \/ podPatrol.copy = "unbound" /\ pPod[u] = "gone"
       IN /\ vPod' = IF force THEN [vPod EXCEPT ![u] = "gone"] ELSE vPod
          /\ pPod' = IF grace THEN [pPod EXCEPT ![u] = "deleting"] ELSE pPod
          /\ podRequests' = IF requeue THEN podRequests \cup {u} ELSE podRequests
          /\ IF force THEN PodPatrolAt("forget") ELSE PatrolNext
    /\ UNCHANGED <<maps, node, nodeOthers>>
\* The pod that was deleted by force is forgotten.
forceDeleteVPod ==
    /\ podPatrol.pc = "forget" /\ ForgetPod(podPatrol.uid) /\ PatrolNext
    /\ UNCHANGED <<pods, node, podRequests, podEvents>>

\* Mutant of Orphan: nodes that are in neither map are not looked for.
Orphan_Never == FALSE

\* A node that is in neither map, "which can happen if syncer is restarted".
Orphan == nodeCache /\ podMap = {} /\ gc = "none"
checkNodesOfTenantCluster ==
    /\ podPatrol.pc = "idle" /\ podPatrol.left = {} /\ PodPatrolAt("gc")
    /\ gc' = IF Orphan THEN "quiescing" ELSE gc
    /\ UNCHANGED <<pods, podMap, node, podRequests, nodeOthers>>

\* vNodeGCGracePeriod has passed since the entry was made: it is two patrol intervals, taken
\* to be longer than informers and workers need for what has happened.
GraceOver ==
    /\ gc = "quiescing" /\ gc' = "due"
    /\ vPodCache = vPod /\ nodeCache = node /\ podRequests = {}
    /\ \A u \in Pods : podDws[u] = "idle" /\ podUws[u] = "idle" /\ (vPod[u] = "bound" => pPod[u] # "gone")
    /\ UNCHANGED <<pods, podMap, nodeCaches, node, podRequests, podDws, podUws, podPatrol, nodeOthers>>

vNodeGCDo ==
    /\ podPatrol.pc = "gc"
    /\ IF gc \in {"due", "deleting"} THEN gc' = "deleting" /\ PodPatrolAt("delete")
       ELSE UNCHANGED gc /\ podPatrol' = PatrolIdle /\ PatrolStep
    /\ UNCHANGED <<pods, podMap, node, podRequests, nodeOthers>>

\* Its error is ignored.
DeleteNode ==
    /\ podPatrol.pc = "delete" /\ PodPatrolAt("get")
    /\ (node' = FALSE /\ UNCHANGED podEvents) \/ (PodEvent /\ UNCHANGED node)
    /\ UNCHANGED <<pods, maps, podRequests, slip>>
\* "We need to double check here": unless the node cannot be read, the entry goes, whether
\* the node is there or not.
deleteClusterVNode ==
    /\ podPatrol.pc = "get" /\ podPatrol' = PatrolIdle /\ PatrolStep
    /\ (gc' = "none" /\ UNCHANGED podEvents) \/ (PodEvent /\ UNCHANGED gc)
    /\ UNCHANGED <<pods, podMap, node, podRequests, slip>>

-----------------------------------------------------------------------------
\* The syncer restarts with empty maps and queues; the informers list everything.
NodeRestart ==
    /\ PodEvent /\ UNCHANGED <<pods, node, slip>>
    /\ vPodCache' = vPod /\ nodeCache' = node /\ podMap' = {} /\ gc' = "none"
    /\ podRequests' = {u \in Pods : vPod[u] # "gone"}
    /\ podDws' = [u \in Pods |-> "idle"] /\ podUws' = [u \in Pods |-> "idle"] /\ podPatrol' = PatrolIdle

PodDownward(u) == PodReconcile(u) \/ ReconcileRecords(u)
Binding(u) == BindStarts(u) \/ CreateNode(u) \/ Bind(u)
Backward(u) == BackDelete(u) \/ BackDeleteAgain(u) \/ UwsForgets(u)
Patrol ==
    \/ ListPods \/ FilterFunc \/ PodDifference \/ forceDeleteVPod
    \/ checkNodesOfTenantCluster \/ vNodeGCDo \/ DeleteNode \/ deleteClusterVNode

NodeNext ==
    \/ \E u \in Pods : DeletePod(u) \/ ForceDeletePod(u) \/ EvictP(u) \/ FinishP(u) \/ SeePod(u)
    \/ \E u \in Pods : PodDownward(u) \/ Binding(u) \/ Backward(u) \/ PodUwsFails(u)
    \/ SeeNode \/ Patrol \/ GraceOver \/ NodeRestart

\* Informers, workers, kubelets and the patrol run, and time passes.
NodeFairness ==
    /\ \A u \in Pods : WF_nodeVars(SeePod(u)) /\ WF_nodeVars(FinishP(u)) /\ WF_nodeVars(PodDownward(u))
    /\ \A u \in Pods : WF_nodeVars(Binding(u)) /\ WF_nodeVars(Backward(u))
    /\ WF_nodeVars(SeeNode) /\ WF_nodeVars(Patrol) /\ WF_nodeVars(GraceOver)
NodeSpec == NodeInit /\ [][NodeNext]_nodeVars /\ NodeFairness

-----------------------------------------------------------------------------
\* A tenant pod that is bound has its virtual node: the collector and the workers that bind
\* pods stay out of each other's way, except that a node which has just been collected may
\* still be in the cache that bindPodToNode looks at, and that a pod which is forgotten while
\* the node is being deleted makes the node look as if it were not (addToClusterVNodeGCMap).
BoundHaveNode == ~slip => \A u \in Pods : vPod[u] = "bound" => node

\* A virtual node without pods goes in the end, after failed calls and restarts, too, unless
\* a pod that has gone stays in clusterVNodePodMap.
UnusedGo == <>[](node => podMap # {} \/ \E u \in Pods : vPod[u] \in OnNode)
=============================================================================
