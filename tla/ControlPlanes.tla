---------------------------- MODULE ControlPlanes ----------------------------
(***************************************************************************)
(* The manager of VirtualClusters with one of its provisioners, and, below *)
(* the provisioner "capi", the controllers of a nested control plane: the  *)
(* life of one VirtualCluster and of its control plane, from its creation. *)
(***************************************************************************)
EXTENDS VirtualClusterCtrl, NestedControlPlane

Init ==
    /\ flavour \in Flavours /\ vc = NewVC /\ seen = Gone /\ old = {"seen"}
    /\ w = [Idle EXCEPT !.pc = "boot"] /\ version = 1
    /\ plane = NoPlane /\ cloud = NoCloud
    /\ hook = [on |-> flavour \in Hooks, bundle |-> 0, cert |-> 0]
    /\ cluster \in [there : {flavour = "capi"}, deleting : {FALSE}, infra : {FALSE}, paused : {FALSE},
                   endpoint : IF flavour = "capi" THEN BOOLEAN ELSE {FALSE}]
    /\ ncp = [there |-> flavour = "capi", fin |-> FALSE, deleting |-> FALSE, init |-> FALSE, ready |-> FALSE]
    /\ nested = NoNested /\ parts = [p \in PartNames |-> NewPart]
    /\ reads = "none" /\ spent = 0 /\ faults = {}

Next == SeeVC \/ Provisioning \/ Platforms \/ Manager \/ Users \/ NestedControllers \/ NestedOthers

-----------------------------------------------------------------------------
(* Safety. *)

\* Everything that the native provisioner makes is there, with certificates of one root CA.
Complete ==
    /\ plane.ns
    /\ \A p \in PartNames : plane.sts[p].template # 0
    /\ \A s \in SecretNames :
           /\ plane.secrets[s] # NoPKI
           /\ s = "serviceaccount-rsa" \/ "lag" \in faults \/ plane.secrets[s].ca = plane.secrets["root-ca"].ca
\* Nothing has failed half way, and the worker is not deploying.
Untouched == w.pc \notin {"deploy", "wait"} /\ faults \cap {"call", "crash", "outage"} = {}
Agree ==
    \A p \in {"apiserver", "controller-manager"} :
        plane.sts[p].template = plane.secrets["serviceaccount-rsa"].key

\* A VirtualCluster that is Running has a control plane to be used: with the native provisioner
\* all secrets and StatefulSets; with aliyun the kubeconfig and the annotations; with Cluster
\* API components that were adopted and that all have been given their StatefulSet.
RunningIsServed ==
    vc.there /\ vc.status.phase = "Running" =>
        CASE flavour = "native" -> Complete /\ (Untouched => Agree)
          [] flavour = "aliyun" -> cloud.ns /\ cloud.secret /\ vc.ann = {Annotations[i] : i \in DOMAIN Annotations}
          [] flavour = "capi"   -> /\ ncp.ready
                                   /\ ncp.deleting \/ \A p \in PartNames : parts[p].owned /\ (Sts(p) # "none" \/ "removed" \in faults)

\* When a VirtualCluster is gone, its cloud cluster or its Cluster has been told to go, if it
\* had a finalizer when it was deleted.  Without one there is no cloud cluster either, unless
\* a conflict has dropped the finalizer from the update that registers it.
NothingLeft ==
    ~vc.there =>
        /\ {"unregistered", "early delete"} \subseteq faults \/ cloud.state \in {"none", "deleting"}
        /\ "early delete" \in faults \/ ~cluster.there \/ cluster.deleting

\* A VirtualCluster that is Running is served, and one that is gone leaves no cluster behind.
RunningIsServedAndNothingLeft == RunningIsServed /\ NothingLeft

-----------------------------------------------------------------------------
(* Liveness. *)

\* Deletion waits for ever for a cloud cluster or a Cluster that cannot be found; nothing is
\* done while a Cluster is paused, and no control plane without an endpoint; a component
\* whose Service was made without its StatefulSet never gets one, and one without all its
\* certificates never gets ready.
Stuck ==
    \/ vc.deleting /\ flavour = "aliyun" /\ cloud.state = "none"
    \/ flavour = "capi" /\ (~cluster.there \/ cluster.paused)
    \/ flavour = "capi" /\ ~cluster.endpoint /\ ~cluster.deleting
    \/ faults \cap {"certificate", "service", "removed"} # {}
Ended == ~vc.there \/ (~vc.deleting /\ vc.status.phase \in {"Running", "Error"})

\* A reconcile that starts before the informer has the last change is bad luck that may happen
\* many times but not for ever.
SeeInTime == w.pc = "idle" /\ SeeVC
Fairness ==
    /\ WF_vars(SeeVC) /\ SF_vars(SeeInTime) /\ WF_vars(Manager) /\ WF_vars(Provisioning)
    /\ \A p \in PartNames : WF_vars(StsUp(p)) /\ WF_vars(StatefulSetUp(p)) /\ WF_vars(StatefulSetCounted(p))
    /\ WF_vars(CloudUp) /\ WF_vars(CloudGone)
    /\ WF_vars(CreateParts) /\ WF_vars(ClusterProvisioned) /\ WF_vars(ClusterDeleted)
    /\ WF_vars(NcpRegisters) /\ WF_vars(reconcileDelete) /\ WF_vars(Prepare) /\ WF_vars(NcpFinishes)
    /\ WF_vars(NestedClusterReconcile)
    /\ \A p \in PartNames : WF_vars(createNestedComponentSts(p)) /\ WF_vars(UpdatePhase(p))
Spec == Init /\ [][Next]_vars /\ Fairness

\* In the end a VirtualCluster is running or in error, or gone when it was deleted, and no
\* upgrade is asked for.
Concludes == <>[](Stuck \/ (Ended /\ ~(vc.there /\ vc.status.phase = "Running" /\ vc.labels.upgrade /\ flavour # "capi")))
=============================================================================
