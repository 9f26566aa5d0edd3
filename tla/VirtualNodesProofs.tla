------------------------- MODULE VirtualNodesProofs -------------------------
(***************************************************************************)
(* Proofs about VirtualNodes, for any number of pods and events: a bound   *)
(* pod has its virtual node.                                               *)
(***************************************************************************)
EXTENDS VirtualNodes, TLAPS

(* The shape of the state *)

PodState == {"gone", "unbound", "bound", "deleting"}
PatrolPc == {"none", "idle", "pod", "compare", "forget", "gc", "delete", "get"}

TypeInv ==
    /\ vPod \in [Pods -> PodState] /\ vPodCache \in [Pods -> PodState]
    /\ pPod \in [Pods -> {"gone", "there", "deleting"}]
    /\ gc \in {"none", "quiescing", "due", "deleting"}
    /\ podDws \in [Pods -> {"idle", "update", "remove"}]
    /\ podUws \in [Pods -> {"idle", "create", "bind", "forget"}]
    /\ podPatrol \in [pc : PatrolPc, left : SUBSET Pods, uid : Pods \cup {"none"}, copy : PodState]
    /\ podPatrol.pc \in {"pod", "compare", "forget"} => podPatrol.uid \in Pods
    /\ node \in BOOLEAN /\ nodeCache \in BOOLEAN /\ slip \in BOOLEAN

-----------------------------------------------------------------------------
(* The inductive invariant *)

\* The states a pod may be in that was last seen in state s: it is never unbound again,
\* and never comes back.
Later(s) ==
    CASE s = "unbound" -> PodState
      [] s = "bound" -> {"bound", "deleting", "gone"}
      [] s = "deleting" -> {"deleting", "gone"}
      [] s = "gone" -> {"gone"}
SeenInv == \A u \in Pods : vPod[u] \in Later(vPodCache[u])

\* A pod is forgotten once it is going.
ForgetInv ==
    /\ \A u \in Pods : podDws[u] = "remove" \/ podUws[u] = "forget" => vPod[u] \in {"deleting", "gone"}
    /\ podPatrol.pc = "forget" => vPod[podPatrol.uid] = "gone"

\* A node is up for collection only while it is known to have no pods ...
QuiescingInv == gc \in {"quiescing", "due"} => podMap = {}
\* ... and a bound pod becomes known: the downward queue or worker sees to it.
RecordedInv ==
    \A u \in Pods : vPod[u] = "bound" /\ vPodCache[u] = "bound" /\ pPod[u] # "gone" =>
        u \in podMap \/ u \in podRequests \/ podDws[u] = "update"

\* Once the grace period is over no pod is bound to the node, and none is about to be.
ApartInv ==
    ~slip => /\ \A u \in Pods : vPod[u] = "bound" \/ podUws[u] = "bind" => node
             /\ gc \in {"due", "deleting"} =>
                    \A u \in Pods : vPod[u] # "bound" /\ podUws[u] \notin {"create", "bind"}
             /\ podPatrol.pc = "delete" => gc = "deleting"

NodeInv == TypeInv /\ SeenInv /\ ForgetInv /\ QuiescingInv /\ RecordedInv /\ ApartInv
-----------------------------------------------------------------------------
(* Steps *)

LEMMA DeletePodKeeps ==
    ASSUME NodeInv, NEW u \in Pods, DeletePod(u)
    PROVE  NodeInv'
<1> USE DEF NodeInv, TypeInv, PodState, PatrolPc, DeletePod, Outside, maps, PodEvent
<1>1. TypeInv'
    OBVIOUS
<1>2. SeenInv'
    BY DEF SeenInv, Later
<1>3. ForgetInv'
    BY DEF ForgetInv, SeenInv, Later
<1>4. QuiescingInv'
    BY DEF QuiescingInv
<1>5. RecordedInv'
    BY DEF RecordedInv, ForgetInv, SeenInv, Later
<1>6. ApartInv'
    BY DEF ApartInv
<1> HIDE DEF TypeInv
<1> QED
    BY <1>1, <1>2, <1>3, <1>4, <1>5, <1>6

LEMMA ForceDeletePodKeeps ==
    ASSUME NodeInv, NEW u \in Pods, ForceDeletePod(u)
    PROVE  NodeInv'
<1> USE DEF NodeInv, TypeInv, PodState, PatrolPc, ForceDeletePod, Outside, maps, PodEvent
<1>1. TypeInv'
    OBVIOUS
<1>2. SeenInv'
    BY DEF SeenInv, Later
<1>3. ForgetInv'
    BY DEF ForgetInv, SeenInv, Later
<1>4. QuiescingInv'
    BY DEF QuiescingInv
<1>5. RecordedInv'
    BY DEF RecordedInv, ForgetInv, SeenInv, Later
<1>6. ApartInv'
    BY DEF ApartInv
<1> HIDE DEF TypeInv
<1> QED
    BY <1>1, <1>2, <1>3, <1>4, <1>5, <1>6

LEMMA EvictPKeeps ==
    ASSUME NodeInv, NEW u \in Pods, EvictP(u)
    PROVE  NodeInv'
<1> USE DEF NodeInv, TypeInv, PodState, PatrolPc, EvictP, Outside, maps, PodEvent
<1>1. TypeInv'
    <2>1. PICK s \in {"deleting", "gone"} : pPod' = [pPod EXCEPT ![u] = s]
        OBVIOUS
    <2> QED
        BY <2>1
<1>2. SeenInv'
    BY DEF SeenInv, Later
<1>3. ForgetInv'
    BY DEF ForgetInv, SeenInv, Later
<1>4. QuiescingInv'
    BY DEF QuiescingInv
<1>5. RecordedInv'
    BY DEF RecordedInv, ForgetInv, SeenInv, Later
<1>6. ApartInv'
    BY DEF ApartInv
<1> HIDE DEF TypeInv
<1> QED
    BY <1>1, <1>2, <1>3, <1>4, <1>5, <1>6

LEMMA FinishPKeeps ==
    ASSUME NodeInv, NEW u \in Pods, FinishP(u)
    PROVE  NodeInv'
<1> USE DEF NodeInv, TypeInv, PodState, PatrolPc, FinishP, Outside, maps
<1>1. TypeInv'
    OBVIOUS
<1>2. SeenInv'
    BY DEF SeenInv, Later
<1>3. ForgetInv'
    BY DEF ForgetInv, SeenInv, Later
<1>4. QuiescingInv'
    BY DEF QuiescingInv
<1>5. RecordedInv'
    BY DEF RecordedInv, ForgetInv, SeenInv, Later
<1>6. ApartInv'
    BY DEF ApartInv
<1> HIDE DEF TypeInv
<1> QED
    BY <1>1, <1>2, <1>3, <1>4, <1>5, <1>6

LEMMA SeePodKeeps ==
    ASSUME NodeInv, NEW u \in Pods, SeePod(u)
    PROVE  NodeInv'
<1> USE DEF NodeInv, TypeInv, PodState, PatrolPc, SeePod, Outside, maps, pods
<1>1. TypeInv'
    OBVIOUS
<1>2. SeenInv'
    BY DEF SeenInv, Later
<1>3. ForgetInv'
    BY DEF ForgetInv, SeenInv, Later
<1>4. QuiescingInv'
    BY DEF QuiescingInv
<1>5. RecordedInv'
    BY DEF RecordedInv, ForgetInv, SeenInv, Later
<1>6. ApartInv'
    BY DEF ApartInv
<1> HIDE DEF TypeInv
<1> QED
    BY <1>1, <1>2, <1>3, <1>4, <1>5, <1>6

LEMMA SeeNodeKeeps ==
    ASSUME NodeInv, SeeNode
    PROVE  NodeInv'
<1> USE DEF NodeInv, TypeInv, PodState, PatrolPc, SeeNode, pods, maps, nodeOthers
<1>1. TypeInv'
    OBVIOUS
<1>2. SeenInv'
    BY DEF SeenInv, Later
<1>3. ForgetInv'
    BY DEF ForgetInv, SeenInv, Later
<1>4. QuiescingInv'
    BY DEF QuiescingInv
<1>5. RecordedInv'
    BY DEF RecordedInv, ForgetInv, SeenInv, Later
<1>6. ApartInv'
    BY DEF ApartInv
<1> HIDE DEF TypeInv
<1> QED
    BY <1>1, <1>2, <1>3, <1>4, <1>5, <1>6

LEMMA PodReconcileKeeps ==
    ASSUME NodeInv, NEW u \in Pods, PodReconcile(u)
    PROVE  NodeInv'
<1> USE DEF NodeInv, TypeInv, PodState, PatrolPc, PodReconcile, DwsNext, SuperIs, maps, nodeCaches, nodeOthers
<1>1. TypeInv'
    OBVIOUS
<1>2. SeenInv'
    BY DEF SeenInv, Later
<1>3. ForgetInv'
    <2>1. \A t \in Pods : podDws'[t] = "remove" => podDws[t] = "remove" \/ vPodCache[t] = "gone"
        OBVIOUS
    <2>2. UNCHANGED <<vPod, podUws, podPatrol>>
        OBVIOUS
    <2> HIDE DEF PodReconcile, TypeInv
    <2> QED
        BY <2>1, <2>2 DEF ForgetInv, SeenInv, Later
<1>4. QuiescingInv'
    BY DEF QuiescingInv
<1>5. RecordedInv'
    <2> SUFFICES ASSUME NEW t \in Pods, vPod[t] = "bound", vPodCache[t] = "bound", pPod'[t] # "gone"
                 PROVE  t \in podMap \/ t \in podRequests' \/ podDws'[t] = "update"
        BY DEF RecordedInv
    <2>1. CASE t = u
        BY <2>1
    <2>2. CASE t # u
        <3>1. pPod'[t] = pPod[t] /\ podDws'[t] = podDws[t] /\ (t \in podRequests => t \in podRequests')
            BY <2>2
        <3> QED
            BY <3>1 DEF RecordedInv
    <2> QED
        BY <2>1, <2>2
<1>6. ApartInv'
    BY DEF ApartInv
<1> HIDE DEF TypeInv
<1> QED
    BY <1>1, <1>2, <1>3, <1>4, <1>5, <1>6

LEMMA ReconcileRecordsKeeps ==
    ASSUME NodeInv, NEW u \in Pods, ReconcileRecords(u)
    PROVE  NodeInv'
<1> USE DEF NodeInv, TypeInv, PodState, PatrolPc, ReconcileRecords, DwsNext, RecordPod, ForgetPod, removeQuiescingNode, pods, nodeCaches
<1>1. TypeInv'
    <2>1. gc' \in {"none", "quiescing", "due", "deleting"} /\ slip' \in BOOLEAN
        OBVIOUS
    <2>2. podDws' \in [Pods -> {"idle", "update", "remove"}]
        OBVIOUS
    <2>3. UNCHANGED <<vPod, vPodCache, pPod, podUws, podPatrol, node, nodeCache>>
        OBVIOUS
    <2> HIDE DEF ReconcileRecords
    <2> QED
        BY <2>1, <2>2, <2>3
<1>2. SeenInv'
    BY DEF SeenInv, Later
<1>3. ForgetInv'
    BY DEF ForgetInv, SeenInv, Later
<1>4. QuiescingInv'
    BY DEF QuiescingInv
<1>5. RecordedInv'
    <2> SUFFICES ASSUME NEW t \in Pods, vPod[t] = "bound", vPodCache[t] = "bound", pPod[t] # "gone"
                 PROVE  t \in podMap' \/ t \in podRequests \/ podDws'[t] = "update"
        BY DEF RecordedInv
    <2>1. t \in podMap \/ t \in podRequests \/ podDws[t] = "update"
        BY DEF RecordedInv
    <2>2. CASE t = u
        <3>1. podDws[u] # "remove"
            BY <2>2 DEF ForgetInv
        <3> QED
            BY <2>2, <3>1
    <2>3. CASE t # u
        BY <2>1, <2>3
    <2> QED
        BY <2>2, <2>3
<1>6. ApartInv'
    BY DEF ApartInv
<1> HIDE DEF TypeInv
<1> QED
    BY <1>1, <1>2, <1>3, <1>4, <1>5, <1>6

LEMMA BindStartsKeeps ==
    ASSUME NodeInv, NEW u \in Pods, BindStarts(u)
    PROVE  NodeInv'
<1> USE DEF NodeInv, TypeInv, PodState, PatrolPc, BindStarts, Reads, UwsNext, removeQuiescingNode, nodeCaches
<1>1. TypeInv'
    OBVIOUS
<1>2. SeenInv'
    BY DEF SeenInv, Later
<1>3. ForgetInv'
    BY DEF ForgetInv, SeenInv, Later
<1>4. QuiescingInv'
    BY DEF QuiescingInv
<1>5. RecordedInv'
    BY DEF RecordedInv, ForgetInv, SeenInv, Later
<1>6. ApartInv'
    BY DEF ApartInv
<1> HIDE DEF TypeInv
<1> QED
    BY <1>1, <1>2, <1>3, <1>4, <1>5, <1>6

LEMMA CreateNodeKeeps ==
    ASSUME NodeInv, NEW u \in Pods, CreateNode(u)
    PROVE  NodeInv'
<1> USE DEF NodeInv, TypeInv, PodState, PatrolPc, CreateNode, UwsNext, maps, nodeOthers, nodeCaches
<1>1. TypeInv'
    OBVIOUS
<1>2. SeenInv'
    BY DEF SeenInv, Later
<1>3. ForgetInv'
    BY DEF ForgetInv, SeenInv, Later
<1>4. QuiescingInv'
    BY DEF QuiescingInv
<1>5. RecordedInv'
    BY DEF RecordedInv, ForgetInv, SeenInv, Later
<1>6. ApartInv'
    BY DEF ApartInv
<1> HIDE DEF TypeInv
<1> QED
    BY <1>1, <1>2, <1>3, <1>4, <1>5, <1>6

LEMMA BindKeeps ==
    ASSUME NodeInv, NEW u \in Pods, Bind(u)
    PROVE  NodeInv'
<1> USE DEF NodeInv, TypeInv, PodState, PatrolPc, Bind, UwsNext, maps, nodeOthers, nodeCaches
<1>1. TypeInv'
    OBVIOUS
<1>2. SeenInv'
    BY DEF SeenInv, Later
<1>3. ForgetInv'
    BY DEF ForgetInv, SeenInv, Later
<1>4. QuiescingInv'
    BY DEF QuiescingInv
<1>5. RecordedInv'
    <2> SUFFICES ASSUME NEW t \in Pods, vPod'[t] = "bound", vPodCache[t] = "bound", pPod[t] # "gone"
                 PROVE  t \in podMap \/ t \in podRequests \/ podDws[t] = "update"
        BY DEF RecordedInv
    <2>1. vPod[t] \in {"bound", "deleting", "gone"}
        BY DEF SeenInv, Later
    <2>2. vPod[t] = "bound"
        BY <2>1
    <2> QED
        BY <2>2 DEF RecordedInv
<1>6. ApartInv'
    BY DEF ApartInv
<1> HIDE DEF TypeInv
<1> QED
    BY <1>1, <1>2, <1>3, <1>4, <1>5, <1>6

LEMMA BackDeleteKeeps ==
    ASSUME NodeInv, NEW u \in Pods, BackDelete(u)
    PROVE  NodeInv'
<1> USE DEF NodeInv, TypeInv, PodState, PatrolPc, BackDelete, Reads, UwsNext, maps, nodeOthers, nodeCaches
<1>1. TypeInv'
    OBVIOUS
<1>2. SeenInv'
    BY DEF SeenInv, Later
<1>3. ForgetInv'
    BY DEF ForgetInv, SeenInv, Later
<1>4. QuiescingInv'
    BY DEF QuiescingInv
<1>5. RecordedInv'
    BY DEF RecordedInv, ForgetInv, SeenInv, Later
<1>6. ApartInv'
    BY DEF ApartInv
<1> HIDE DEF TypeInv
<1> QED
    BY <1>1, <1>2, <1>3, <1>4, <1>5, <1>6

LEMMA BackDeleteAgainKeeps ==
    ASSUME NodeInv, NEW u \in Pods, BackDeleteAgain(u)
    PROVE  NodeInv'
<1> USE DEF NodeInv, TypeInv, PodState, PatrolPc, BackDeleteAgain, Reads, UwsNext, maps, nodeOthers, nodeCaches
<1>1. TypeInv'
    <2>1. PICK s \in {"deleting", "gone"} : vPod' = [vPod EXCEPT ![u] = s]
        OBVIOUS
    <2> QED
        BY <2>1
<1>2. SeenInv'
    BY DEF SeenInv, Later
<1>3. ForgetInv'
    <2>1. PICK s \in {"deleting", "gone"} : vPod' = [vPod EXCEPT ![u] = s]
        OBVIOUS
    <2>2. vPod'[u] \in {"deleting", "gone"} /\ \A t \in Pods \ {u} : vPod'[t] = vPod[t]
        BY <2>1
    <2>3. \A t \in Pods \ {u} : podUws'[t] = podUws[t]
        OBVIOUS
    <2>4. UNCHANGED <<podDws, podPatrol>> /\ vPod[u] # "gone"
        OBVIOUS
    <2>5. podPatrol.pc = "forget" => podPatrol.uid \in Pods \ {u}
        BY <2>4 DEF ForgetInv
    <2> HIDE DEF NodeInv, TypeInv, BackDeleteAgain
    <2> QED
        BY <2>2, <2>3, <2>4, <2>5 DEF ForgetInv, NodeInv
<1>4. QuiescingInv'
    BY DEF QuiescingInv
<1>5. RecordedInv'
    BY DEF RecordedInv, ForgetInv, SeenInv, Later
<1>6. ApartInv'
    BY DEF ApartInv
<1> HIDE DEF TypeInv
<1> QED
    BY <1>1, <1>2, <1>3, <1>4, <1>5, <1>6

LEMMA UwsForgetsKeeps ==
    ASSUME NodeInv, NEW u \in Pods, UwsForgets(u)
    PROVE  NodeInv'
<1> USE DEF NodeInv, TypeInv, PodState, PatrolPc, UwsForgets, ForgetPod, UwsNext, nodeCaches
<1>1. TypeInv'
    OBVIOUS
<1>2. SeenInv'
    BY DEF SeenInv, Later
<1>3. ForgetInv'
    BY DEF ForgetInv, SeenInv, Later
<1>4. QuiescingInv'
    BY DEF QuiescingInv
<1>5. RecordedInv'
    BY DEF RecordedInv, ForgetInv, SeenInv, Later
<1>6. ApartInv'
    <2>1. /\ gc' \in {"due", "deleting"} => gc' = gc
          /\ slip \/ (gc = "deleting" => gc' = gc) \/ slip'
          /\ slip => slip'
        OBVIOUS
    <2>2. /\ UNCHANGED <<vPod, node, podPatrol>>
          /\ \A t \in Pods : podUws'[t] \in {"create", "bind"} => podUws'[t] = podUws[t]
        OBVIOUS
    <2> HIDE DEF UwsForgets, TypeInv
    <2> QED
        BY <2>1, <2>2 DEF ApartInv
<1> HIDE DEF TypeInv
<1> QED
    BY <1>1, <1>2, <1>3, <1>4, <1>5, <1>6

LEMMA PodUwsFailsKeeps ==
    ASSUME NodeInv, NEW u \in Pods, PodUwsFails(u)
    PROVE  NodeInv'
<1> USE DEF NodeInv, TypeInv, PodState, PatrolPc, PodUwsFails, UwsNext, maps, nodeCaches
<1>1. TypeInv'
    OBVIOUS
<1>2. SeenInv'
    BY DEF SeenInv, Later
<1>3. ForgetInv'
    BY DEF ForgetInv, SeenInv, Later
<1>4. QuiescingInv'
    BY DEF QuiescingInv
<1>5. RecordedInv'
    BY DEF RecordedInv, ForgetInv, SeenInv, Later
<1>6. ApartInv'
    BY DEF ApartInv
<1> HIDE DEF TypeInv
<1> QED
    BY <1>1, <1>2, <1>3, <1>4, <1>5, <1>6

LEMMA ListPodsKeeps ==
    ASSUME NodeInv, ListPods
    PROVE  NodeInv'
<1> USE DEF NodeInv, TypeInv, PodState, PatrolPc, ListPods, PatrolStep, nodeCaches, pods, maps, nodeOthers
<1>1. TypeInv'
    OBVIOUS
<1>2. SeenInv'
    BY DEF SeenInv, Later
<1>3. ForgetInv'
    BY DEF ForgetInv, SeenInv, Later
<1>4. QuiescingInv'
    BY DEF QuiescingInv
<1>5. RecordedInv'
    BY DEF RecordedInv, ForgetInv, SeenInv, Later
<1>6. ApartInv'
    BY DEF ApartInv
<1> HIDE DEF TypeInv
<1> QED
    BY <1>1, <1>2, <1>3, <1>4, <1>5, <1>6

LEMMA FilterFuncKeeps ==
    ASSUME NodeInv, FilterFunc
    PROVE  NodeInv'
<1> USE DEF NodeInv, TypeInv, PodState, PatrolPc, FilterFunc, PodPatrolAt, PatrolStep, Unrecorded, RecordPod, removeQuiescingNode, nodeCaches, pods, maps, nodeOthers
<1>1. TypeInv'
    OBVIOUS
<1>2. SeenInv'
    BY DEF SeenInv, Later
<1>3. ForgetInv'
    BY DEF ForgetInv, SeenInv, Later
<1>4. QuiescingInv'
    BY DEF QuiescingInv
<1>5. RecordedInv'
    <2>1. podMap \subseteq podMap' /\ UNCHANGED <<vPod, vPodCache, pPod, podRequests, podDws>>
        OBVIOUS
    <2> HIDE DEF FilterFunc, TypeInv
    <2> QED
        BY <2>1 DEF RecordedInv
<1>6. ApartInv'
    BY DEF ApartInv
<1> HIDE DEF TypeInv
<1> QED
    BY <1>1, <1>2, <1>3, <1>4, <1>5, <1>6

LEMMA PodDifferenceKeeps ==
    ASSUME NodeInv, PodDifference
    PROVE  NodeInv'
<1> USE DEF NodeInv, TypeInv, PodState, PatrolPc, PodDifference, OnNode, PodPatrolAt, PatrolNext, PatrolStep, PatrolIdle, nodeCaches, maps, nodeOthers
<1>0. /\ podPatrol.uid \in Pods
      /\ vPod' \in [Pods -> PodState] /\ \A t \in Pods : vPod'[t] \in {vPod[t], "gone"}
      /\ pPod' \in [Pods -> {"gone", "there", "deleting"}]
      /\ \A t \in Pods : pPod'[t] # "gone" => pPod[t] # "gone"
      /\ podRequests \subseteq podRequests'
      /\ podPatrol' \in [pc : PatrolPc, left : SUBSET Pods, uid : Pods \cup {"none"}, copy : PodState]
      /\ podPatrol'.pc \in {"idle", "forget"}
      /\ podPatrol'.pc = "forget" => podPatrol'.uid = podPatrol.uid /\ vPod'[podPatrol.uid] = "gone"
    <2> DEFINE force == podPatrol.copy \in OnNode /\ pPod[podPatrol.uid] = "gone" /\ vPod[podPatrol.uid] # "gone"
    <2>1. CASE force
        BY <2>1
    <2>2. CASE ~force
        BY <2>2
    <2> QED
        BY <2>1, <2>2
<1>1. TypeInv'
    <2>1. UNCHANGED <<vPodCache, gc, podDws, podUws, node, nodeCache, slip>>
        OBVIOUS
    <2> HIDE DEF PodDifference
    <2> QED
        BY <1>0, <2>1
<1>2. SeenInv'
    BY DEF SeenInv, Later
<1>3. ForgetInv'
    <2>1. UNCHANGED <<podDws, podUws>>
        OBVIOUS
    <2>2. \A t \in Pods : vPod[t] \in {"deleting", "gone"} => vPod'[t] \in {"deleting", "gone"}
        BY <1>0
    <2> HIDE DEF PodDifference, TypeInv
    <2> QED
        BY <1>0, <2>1, <2>2 DEF ForgetInv
<1>4. QuiescingInv'
    BY DEF QuiescingInv
<1>5. RecordedInv'
    <2>1. UNCHANGED <<vPodCache, podMap, podDws>>
        OBVIOUS
    <2> HIDE DEF PodDifference, TypeInv
    <2> QED
        BY <1>0, <2>1 DEF RecordedInv
<1>6. ApartInv'
    BY DEF ApartInv
<1> HIDE DEF TypeInv
<1> QED
    BY <1>1, <1>2, <1>3, <1>4, <1>5, <1>6

LEMMA forceDeleteVPodKeeps ==
    ASSUME NodeInv, forceDeleteVPod
    PROVE  NodeInv'
<1> USE DEF NodeInv, TypeInv, PodState, PatrolPc, forceDeleteVPod, ForgetPod, PatrolNext, PatrolStep, PatrolIdle, nodeCaches, pods
<1>1. TypeInv'
    OBVIOUS
<1>2. SeenInv'
    BY DEF SeenInv, Later
<1>3. ForgetInv'
    BY DEF ForgetInv, SeenInv, Later
<1>4. QuiescingInv'
    BY DEF QuiescingInv
<1>5. RecordedInv'
    BY DEF RecordedInv, ForgetInv, SeenInv, Later
<1>6. ApartInv'
    BY DEF ApartInv
<1> HIDE DEF TypeInv
<1> QED
    BY <1>1, <1>2, <1>3, <1>4, <1>5, <1>6

LEMMA checkNodesOfTenantClusterKeeps ==
    ASSUME NodeInv, checkNodesOfTenantCluster
    PROVE  NodeInv'
<1> USE DEF NodeInv, TypeInv, PodState, PatrolPc, checkNodesOfTenantCluster, Orphan, PodPatrolAt, PatrolStep, nodeCaches, pods, nodeOthers
<1>1. TypeInv'
    OBVIOUS
<1>2. SeenInv'
    BY DEF SeenInv, Later
<1>3. ForgetInv'
    BY DEF ForgetInv, SeenInv, Later
<1>4. QuiescingInv'
    BY DEF QuiescingInv
<1>5. RecordedInv'
    BY DEF RecordedInv, ForgetInv, SeenInv, Later
<1>6. ApartInv'
    BY DEF ApartInv
<1> HIDE DEF TypeInv
<1> QED
    BY <1>1, <1>2, <1>3, <1>4, <1>5, <1>6

LEMMA GraceOverKeeps ==
    ASSUME NodeInv, GraceOver
    PROVE  NodeInv'
<1> USE DEF NodeInv, TypeInv, PodState, PatrolPc, GraceOver, nodeCaches, pods, nodeOthers
<1>1. TypeInv'
    OBVIOUS
<1>2. SeenInv'
    BY DEF SeenInv, Later
<1>3. ForgetInv'
    BY DEF ForgetInv, SeenInv, Later
<1>4. QuiescingInv'
    BY DEF QuiescingInv
<1>5. RecordedInv'
    BY DEF RecordedInv, ForgetInv, SeenInv, Later
<1>6. ApartInv'
    <2>1. \A u \in Pods : vPod[u] # "bound"
        BY DEF QuiescingInv, RecordedInv
    <2>2. gc = "quiescing" /\ gc' = "due" /\ UNCHANGED <<vPod, podUws, node, slip, podPatrol>>
          /\ \A u \in Pods : podUws[u] = "idle"
        OBVIOUS
    <2> HIDE DEF GraceOver, TypeInv
    <2> QED
        BY <2>1, <2>2 DEF ApartInv
<1> HIDE DEF TypeInv
<1> QED
    BY <1>1, <1>2, <1>3, <1>4, <1>5, <1>6

LEMMA vNodeGCDoKeeps ==
    ASSUME NodeInv, vNodeGCDo
    PROVE  NodeInv'
<1> USE DEF NodeInv, TypeInv, PodState, PatrolPc, vNodeGCDo, PodPatrolAt, PatrolStep, PatrolIdle, nodeCaches, pods, nodeOthers
<1>0. /\ podPatrol' \in [pc : PatrolPc, left : SUBSET Pods, uid : Pods \cup {"none"}, copy : PodState]
      /\ \/ podPatrol'.pc = "delete" /\ gc \in {"due", "deleting"} /\ gc' = "deleting"
         \/ podPatrol'.pc = "idle" /\ gc' = gc
    <2>1. CASE gc \in {"due", "deleting"}
        BY <2>1
    <2>2. CASE gc \notin {"due", "deleting"}
        <3>1. podPatrol' = PatrolIdle /\ gc' = gc
            BY <2>2
        <3>2. PatrolIdle \in [pc : PatrolPc, left : SUBSET Pods, uid : Pods \cup {"none"}, copy : PodState]
              /\ PatrolIdle.pc = "idle"
            OBVIOUS
        <3> HIDE DEF PatrolIdle
        <3> QED
            BY <3>1, <3>2
    <2> QED
        BY <2>1, <2>2
<1>1. TypeInv'
    BY <1>0
<1>2. SeenInv'
    BY DEF SeenInv, Later
<1>3. ForgetInv'
    BY <1>0 DEF ForgetInv
<1>4. QuiescingInv'
    BY DEF QuiescingInv
<1>5. RecordedInv'
    BY DEF RecordedInv, ForgetInv, SeenInv, Later
<1>6. ApartInv'
    BY <1>0 DEF ApartInv
<1> HIDE DEF TypeInv
<1> QED
    BY <1>1, <1>2, <1>3, <1>4, <1>5, <1>6

LEMMA DeleteNodeKeeps ==
    ASSUME NodeInv, DeleteNode
    PROVE  NodeInv'
<1> USE DEF NodeInv, TypeInv, PodState, PatrolPc, DeleteNode, PodPatrolAt, PatrolStep, nodeCaches, pods, maps
<1>1. TypeInv'
    OBVIOUS
<1>2. SeenInv'
    BY DEF SeenInv, Later
<1>3. ForgetInv'
    BY DEF ForgetInv, SeenInv, Later
<1>4. QuiescingInv'
    BY DEF QuiescingInv
<1>5. RecordedInv'
    BY DEF RecordedInv, ForgetInv, SeenInv, Later
<1>6. ApartInv'
    BY DEF ApartInv
<1> HIDE DEF TypeInv
<1> QED
    BY <1>1, <1>2, <1>3, <1>4, <1>5, <1>6

LEMMA deleteClusterVNodeKeeps ==
    ASSUME NodeInv, deleteClusterVNode
    PROVE  NodeInv'
<1> USE DEF NodeInv, TypeInv, PodState, PatrolPc, deleteClusterVNode, PatrolStep, PatrolIdle, nodeCaches, pods
<1>1. TypeInv'
    OBVIOUS
<1>2. SeenInv'
    BY DEF SeenInv, Later
<1>3. ForgetInv'
    BY DEF ForgetInv, SeenInv, Later
<1>4. QuiescingInv'
    BY DEF QuiescingInv
<1>5. RecordedInv'
    BY DEF RecordedInv, ForgetInv, SeenInv, Later
<1>6. ApartInv'
    BY DEF ApartInv
<1> HIDE DEF TypeInv
<1> QED
    BY <1>1, <1>2, <1>3, <1>4, <1>5, <1>6

LEMMA NodeRestartKeeps ==
    ASSUME NodeInv, NodeRestart
    PROVE  NodeInv'
<1> USE DEF NodeInv, TypeInv, PodState, PatrolPc, NodeRestart, PatrolIdle, pods
<1>1. TypeInv'
    OBVIOUS
<1>2. SeenInv'
    BY DEF SeenInv, Later
<1>3. ForgetInv'
    BY DEF ForgetInv, SeenInv, Later
<1>4. QuiescingInv'
    BY DEF QuiescingInv
<1>5. RecordedInv'
    BY DEF RecordedInv, ForgetInv, SeenInv, Later
<1>6. ApartInv'
    BY DEF ApartInv
<1> HIDE DEF TypeInv
<1> QED
    BY <1>1, <1>2, <1>3, <1>4, <1>5, <1>6

-----------------------------------------------------------------------------
(* The theorems *)

LEMMA InitNodeInv == NodeInit => NodeInv
<1> SUFFICES ASSUME NodeInit PROVE NodeInv
    OBVIOUS
<1>1. /\ vPod \in [Pods -> {"gone", "unbound", "bound"}] /\ vPodCache = vPod
      /\ \A u \in Pods : vPod[u] = "bound" => u = First
      /\ pPod \in [Pods -> {"gone", "there"}]
    BY DEF NodeInit
<1>2. /\ podPatrol \in {PatrolIdle, NoTenant} /\ gc = "none" /\ slip = FALSE
      /\ node = (vPod[First] = "bound") /\ nodeCache = node
      /\ podMap = IF node THEN {First} ELSE {}
      /\ podDws = [u \in Pods |-> "idle"] /\ podUws = [u \in Pods |-> "idle"]
    BY DEF NodeInit
<1>3. /\ podPatrol \in [pc : PatrolPc, left : SUBSET Pods, uid : Pods \cup {"none"}, copy : PodState]
      /\ podPatrol.pc \in {"idle", "none"}
    <2>1. CASE podPatrol = PatrolIdle
        BY <2>1 DEF PatrolIdle, PatrolPc, PodState
    <2>2. CASE podPatrol = NoTenant
        BY <2>2 DEF PatrolIdle, NoTenant, PatrolPc, PodState
    <2> QED
        BY <1>2, <2>1, <2>2
<1>4. TypeInv
    BY <1>1, <1>2, <1>3 DEF TypeInv, PodState
<1>5. SeenInv /\ ForgetInv /\ QuiescingInv
    BY <1>1, <1>2, <1>3 DEF SeenInv, Later, PodState, ForgetInv, QuiescingInv
<1>6. RecordedInv /\ ApartInv
    BY <1>1, <1>2, <1>3 DEF RecordedInv, ApartInv
<1> QED
    BY <1>4, <1>5, <1>6 DEF NodeInv

LEMMA NodeInvStep == NodeInv /\ [NodeNext]_nodeVars => NodeInv'
<1> SUFFICES ASSUME NodeInv, [NodeNext]_nodeVars PROVE NodeInv'
    OBVIOUS
<1>1. CASE UNCHANGED nodeVars
    BY <1>1 DEF nodeVars, pods, maps, nodeCaches, nodeOthers, NodeInv, TypeInv, SeenInv, ForgetInv,
        QuiescingInv, RecordedInv, ApartInv
<1>2. ASSUME NEW u \in Pods,
             DeletePod(u) \/ ForceDeletePod(u) \/ EvictP(u) \/ FinishP(u) \/ SeePod(u)
      PROVE  NodeInv'
    BY <1>2, DeletePodKeeps, ForceDeletePodKeeps, EvictPKeeps, FinishPKeeps, SeePodKeeps
<1>3. ASSUME NEW u \in Pods, PodDownward(u) \/ Binding(u) \/ Backward(u) \/ PodUwsFails(u)
      PROVE  NodeInv'
    BY <1>3, PodReconcileKeeps, ReconcileRecordsKeeps, BindStartsKeeps, CreateNodeKeeps, BindKeeps,
        BackDeleteKeeps, BackDeleteAgainKeeps, UwsForgetsKeeps, PodUwsFailsKeeps
    DEF PodDownward, Binding, Backward
<1>4. CASE Patrol
    BY <1>4, ListPodsKeeps, FilterFuncKeeps, PodDifferenceKeeps, forceDeleteVPodKeeps,
        checkNodesOfTenantClusterKeeps, vNodeGCDoKeeps, DeleteNodeKeeps, deleteClusterVNodeKeeps
    DEF Patrol
<1>5. CASE SeeNode \/ GraceOver \/ NodeRestart
    BY <1>5, SeeNodeKeeps, GraceOverKeeps, NodeRestartKeeps
<1> QED
    BY <1>1, <1>2, <1>3, <1>4, <1>5 DEF NodeNext

\* A bound tenant pod has its virtual node (bindPodToNode and deleteClusterVNode stay out of
\* each other's way), for any number of pods: unless the cache or addToClusterVNodeGCMap
\* slips.
THEOREM BoundPodsHaveNode == NodeSpec => []BoundHaveNode
<1>1. NodeInv => BoundHaveNode
    BY DEF NodeInv, ApartInv, BoundHaveNode
<1> QED
    BY <1>1, InitNodeInv, NodeInvStep, PTL DEF NodeSpec
=============================================================================
