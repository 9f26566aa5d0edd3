-------------------------- MODULE NestedControlPlane --------------------------
(***************************************************************************)
(* controlplane/nested/controllers and controllers/nestedcluster_controller *)
(* .go: the controllers of a nested control plane, the provider of Cluster *)
(* API.  NestedControlPlane prepares certificates and manifests and adopts *)
(* its components; NestedEtcd, NestedAPIServer and NestedControllerManager *)
(* each make a Service and a StatefulSet; NestedCluster reports the result *)
(* to the Cluster.                                                         *)
(*                                                                         *)
(* The kind in the owner reference of a StatefulSet is the component's     *)
(* name, so its changes wake no controller: a reconcile starts when its    *)
(* object changes or with the periodic resync, that is at any time.  The   *)
(* status of a StatefulSet is "new" (no replicas counted yet), "down" or   *)
(* "up".                                                                   *)
(***************************************************************************)
EXTENDS PlaneState

OfNested == flavour = "capi" /\ UNCHANGED <<flavour, vcVars, plane, cloud>>
Alive == ncp.there /\ cluster.there
\* A paused control plane is left alone; those of its components are not.
Active == Alive /\ ~cluster.paused

NoNested == [secrets |-> {}, manifests |-> FALSE, svc |-> {}, infra |-> FALSE]
NewPart == [there |-> FALSE, owned |-> FALSE, phase |-> "unset", sts |-> "none"]
\* NewCertificatesForInitialControlPlane.
Authorities == {"ca", "etcd", "proxy", "sa"}
\* The key pairs that each component's controller makes, in their order.
createEtcdClientCrts == <<"etcd-client", "etcd-health-client">>
createAPIServerClientCrts == <<"apiserver-client", "kubelet-client", "proxy-client">>
KeyPairs == [etcd |-> createEtcdClientCrts, apiserver |-> createAPIServerClientCrts]
\* The secrets that the pods of a component mount.
completeEtcdPodSpec == {"etcd", "etcd-client", "etcd-health-client"}
completeKASPodSpec ==
    {"apiserver-client", "etcd", "etcd-client", "kubelet-client", "ca", "sa", "proxy", "proxy-client"}
completeKCMPodSpec == {"ca", "apiserver-client", "sa", "proxy", "kubeconfig"}
Mounts == [etcd |-> completeEtcdPodSpec, apiserver |-> completeKASPodSpec]
          @@ ("controller-manager" :> completeKCMPodSpec)
HasService(p) == p # "controller-manager"

IsComponentReady(p) == parts[p].phase = "Ready"
Sts(p) == parts[p].sts

-----------------------------------------------------------------------------
(* nestedcontrolplane_controller.go *)

NcpRegisters ==
    /\ Active /\ ~ncp.fin /\ reads = "none"
    /\ ncp' = [ncp EXCEPT !.fin = TRUE]
    /\ NoEvent /\ OfNested /\ UNCHANGED <<cluster, nested, parts, reads>>
reconcileDelete ==
    /\ Active /\ ncp.fin /\ ncp.deleting /\ reads = "none"
    /\ ncp' = [ncp EXCEPT !.there = FALSE, !.fin = FALSE]
    /\ NoEvent /\ OfNested /\ UNCHANGED <<cluster, nested, parts, reads>>

\* Certificates, kubeconfig and the manifests of kubeadm, each made if it is missing, in this
\* order; a call that fails ends it.  Then the components are read.  As long as the Cluster
\* has no ControlPlaneEndpoint, nothing is done after the certificates.
LookupOrGenerate(made) == [made EXCEPT !.secrets = @ \cup Authorities]
reconcileKubeconfig(made) == [made EXCEPT !.secrets = @ \cup {"kubeconfig"}]
\* A ConfigMap of what GenerateTemplates and completeTemplates have made.
createManifestsConfigMap(made) == [made EXCEPT !.manifests = TRUE]
Made == <<LookupOrGenerate(nested), reconcileKubeconfig(LookupOrGenerate(nested)),
          createManifestsConfigMap(reconcileKubeconfig(LookupOrGenerate(nested)))>>
AllReady == \A p \in PartNames : IsComponentReady(p)
Orphans == {p \in PartNames : ~parts[p].owned}
\* A reconcile that would change nothing is left out.
Wanted ==
    IF cluster.endpoint
    THEN nested # Made[3] \/ Orphans # {} \/ ~ncp.init \/ (AllReady /\ ~ncp.ready)
    ELSE nested # Made[1]
Prepare ==
    /\ Active /\ ncp.fin /\ ~ncp.deleting /\ reads = "none" /\ Wanted
    /\ \/ /\ cluster.endpoint /\ nested' = Made[3] /\ NoEvent
          /\ reads' = IF AllReady THEN "ready" ELSE "unready"
       \/ ~cluster.endpoint /\ nested' = Made[1] /\ NoEvent /\ UNCHANGED reads
       \/ /\ nested' \in {nested} \cup IF cluster.endpoint THEN {Made[1], Made[2]} ELSE {}
          /\ nested' # Made[3] /\ Event("call") /\ UNCHANGED reads
    /\ OfNested /\ UNCHANGED <<cluster, ncp, parts>>

Adopted(ps) == [p \in PartNames |-> IF p \in ps THEN [parts[p] EXCEPT !.owned = TRUE] ELSE parts[p]]
\* Components that are not there cannot be updated; the map of components has no order.
reconcileControllerOwners ==
    \/ (\A p \in Orphans : parts[p].there) /\ parts' = Adopted(Orphans) /\ NoEvent
    \/ \E ps \in SUBSET {p \in Orphans : parts[p].there} :
           ps # Orphans /\ parts' = Adopted(ps) /\ (IF \E p \in Orphans : ~parts[p].there THEN NoEvent ELSE Event("call"))
\* Initialized is set in any case, Ready when three components were; it is never taken back.
Finish(adopted) ==
    [ncp EXCEPT !.init = @ \/ adopted, !.ready = @ \/ (adopted /\ reads = "ready")]
NcpFinishes ==
    /\ reads # "none" /\ ncp.there
    /\ reconcileControllerOwners
    /\ ncp' = Finish(\A p \in PartNames : parts'[p].owned)
    /\ reads' = "none" /\ OfNested /\ UNCHANGED <<cluster, nested>>
\* Its status changed meanwhile, or a call fails, or the process ends.
NcpFails ==
    /\ reads # "none" /\ reads' = "none" /\ Event("call")
    /\ OfNested /\ UNCHANGED <<cluster, ncp, nested, parts>>

-----------------------------------------------------------------------------
(* nestedetcd_controller.go, nestedapiserver_controller.go,                *)
(* nestedcontrollermanager_controller.go, controller_util.go               *)

Owned(p) == Alive /\ ~ncp.deleting /\ parts[p].there /\ parts[p].owned

\* SaveGenerated: a secret that exists ends it without an error.
AsSecret(p, k) == {KeyPairs[p][i] : i \in 1..k}
SaveGenerated(p, k) ==
    nested.secrets \cup (IF KeyPairs[p][1] \in nested.secrets THEN {} ELSE AsSecret(p, k))
CreateCrts(p, k) ==
    IF HasService(p) THEN [nested EXCEPT !.secrets = SaveGenerated(p, k)] ELSE nested
Unready(p) == [parts EXCEPT ![p].phase = IF @ = "Ready" THEN "Unready" ELSE @]

\* It is made of the manifest in the ConfigMap.
genStatefulSetObject == nested.manifests
\* The StatefulSet is not there.  A Service that is there already is an error.
createNestedComponentSts(p) ==
    /\ Owned(p) /\ Sts(p) = "none" /\ (HasService(p) => Authorities \subseteq nested.secrets)
    /\ LET crts == CreateCrts(p, IF HasService(p) THEN Len(KeyPairs[p]) ELSE 0)
           blocked == ~genStatefulSetObject \/ (HasService(p) /\ p \in nested.svc)
       IN IF blocked
          THEN nested' = crts /\ parts' = Unready(p)
          ELSE /\ nested' = [crts EXCEPT !.svc = @ \cup {x \in {p} : HasService(x)}]
               /\ parts' = [Unready(p) EXCEPT ![p].sts = "new"]
    /\ NoEvent /\ OfNested /\ UNCHANGED <<cluster, ncp, reads>>
\* A call fails before the certificates, between them, or after the Service was made.
createCrtsFails(p) ==
    /\ Owned(p) /\ Sts(p) = "none" /\ Authorities \subseteq nested.secrets /\ HasService(p)
    /\ KeyPairs[p][1] \notin nested.secrets
    /\ \E k \in 1..(Len(KeyPairs[p]) - 1) : nested' = CreateCrts(p, k)
    /\ parts' = Unready(p) /\ Event("certificate") /\ OfNested /\ UNCHANGED <<cluster, ncp, reads>>
createStsFails(p) ==
    /\ Owned(p) /\ Sts(p) = "none" /\ Authorities \subseteq nested.secrets /\ HasService(p)
    /\ p \notin nested.svc /\ genStatefulSetObject
    /\ nested' = [CreateCrts(p, Len(KeyPairs[p])) EXCEPT !.svc = @ \cup {p}]
    /\ parts' = Unready(p) /\ Event("service") /\ OfNested /\ UNCHANGED <<cluster, ncp, reads>>

\* All replicas that the StatefulSet has counted are ready, if only because there is none.
StsReady(p) == Sts(p) \in {"new", "up"}
UpdatePhase(p) ==
    /\ Owned(p) /\ Sts(p) # "none"
    /\ IF StsReady(p)
       THEN ~IsComponentReady(p) /\ (HasService(p) => p \in nested.svc) /\ parts' = [parts EXCEPT ![p].phase = "Ready"]
       ELSE IsComponentReady(p) /\ parts' = Unready(p)
    /\ NoEvent /\ OfNested /\ UNCHANGED <<cluster, ncp, nested, reads>>

ComponentReconcile(p) ==
    createNestedComponentSts(p) \/ createCrtsFails(p) \/ createStsFails(p) \/ UpdatePhase(p)
NestedEtcdReconcile == ComponentReconcile("etcd")
NestedAPIServerReconcile == ComponentReconcile("apiserver")
NestedControllerManagerReconcile == createNestedComponentSts("controller-manager") \/ UpdatePhase("controller-manager")

\* nestedcluster_controller.go
NestedClusterReconcile ==
    /\ Alive /\ ~nested.infra /\ ncp.ready /\ ncp.init
    /\ nested' = [nested EXCEPT !.infra = TRUE]
    /\ NoEvent /\ OfNested /\ UNCHANGED <<cluster, ncp, parts, reads>>

-----------------------------------------------------------------------------
(* Others: the user, Kubernetes and Cluster API. *)

CreateParts ==
    /\ ~ncp.deleting /\ \E p \in PartNames : ~parts[p].there
    /\ parts' = [p \in PartNames |-> [parts[p] EXCEPT !.there = TRUE]]
    /\ NoEvent /\ OfNested /\ UNCHANGED <<cluster, ncp, nested, reads>>
\* A process gets ready when what it mounts is there and the one it talks to is ready.
Needs == [etcd |-> {}, apiserver |-> {"etcd"}] @@ ("controller-manager" :> {"apiserver"})
StatefulSetUp(p) ==
    /\ Sts(p) \in {"new", "down"} /\ Mounts[p] \subseteq nested.secrets /\ (\A q \in Needs[p] : Sts(q) = "up")
    /\ parts' = [parts EXCEPT ![p].sts = "up"]
    /\ NoEvent /\ OfNested /\ UNCHANGED <<cluster, ncp, nested, reads>>
StatefulSetCounted(p) ==
    /\ Sts(p) = "new" /\ parts' = [parts EXCEPT ![p].sts = "down"]
    /\ NoEvent /\ OfNested /\ UNCHANGED <<cluster, ncp, nested, reads>>
StatefulSetDown(p) ==
    /\ p \in Failing /\ Sts(p) = "up" /\ parts' = [parts EXCEPT ![p].sts = "down"]
    /\ Event("outage") /\ OfNested /\ UNCHANGED <<cluster, ncp, nested, reads>>
StatefulSetDeleted(p) ==
    /\ p \in Failing /\ Sts(p) # "none" /\ parts' = [parts EXCEPT ![p].sts = "none"]
    /\ Event("removed") /\ OfNested /\ UNCHANGED <<cluster, ncp, nested, reads>>
\* Cluster API leaves a Cluster that is paused alone, too.
ClusterProvisioned ==
    /\ cluster.there /\ ~cluster.paused /\ ~cluster.infra /\ nested.infra
    /\ cluster' = [cluster EXCEPT !.infra = TRUE]
    /\ NoEvent /\ OfNested /\ UNCHANGED <<ncp, nested, parts, reads>>
\* The control plane goes first.  What is made of its objects from then on is not followed.
ClusterDeleted ==
    /\ cluster.there /\ ~cluster.paused /\ cluster.deleting
    /\ \/ /\ ncp.there /\ ~ncp.deleting /\ ncp' = [ncp EXCEPT !.deleting = TRUE, !.there = ncp.fin] /\ UNCHANGED cluster
          /\ nested' = NoNested /\ parts' = [p \in PartNames |-> NewPart] /\ reads' = "none"
       \/ ~ncp.there /\ cluster' = [cluster EXCEPT !.there = FALSE] /\ UNCHANGED <<ncp, nested, parts, reads>>
    /\ NoEvent /\ OfNested
\* The templates have the endpoint, but it may come later, or never.
SetEndpoint ==
    /\ cluster.there /\ ~cluster.endpoint /\ cluster' = [cluster EXCEPT !.endpoint = TRUE]
    /\ NoEvent /\ OfNested /\ UNCHANGED <<ncp, nested, parts, reads>>
Pause ==
    /\ cluster.there /\ cluster' = [cluster EXCEPT !.paused = ~@]
    /\ IF cluster.paused THEN NoEvent ELSE Event("pause")
    /\ OfNested /\ UNCHANGED <<ncp, nested, parts, reads>>
DeleteClusterDirectly ==
    /\ cluster.there /\ ~cluster.deleting /\ cluster' = [cluster EXCEPT !.deleting = TRUE]
    /\ Event("cluster") /\ OfNested /\ UNCHANGED <<ncp, nested, parts, reads>>

NestedControllers ==
    \/ NcpRegisters \/ reconcileDelete \/ Prepare \/ NcpFinishes \/ NcpFails \/ NestedClusterReconcile
    \/ NestedEtcdReconcile \/ NestedAPIServerReconcile \/ NestedControllerManagerReconcile
NestedOthers ==
    \/ CreateParts \/ ClusterProvisioned \/ ClusterDeleted \/ DeleteClusterDirectly
    \/ SetEndpoint \/ Pause
    \/ \E p \in PartNames :
           StatefulSetUp(p) \/ StatefulSetCounted(p) \/ StatefulSetDown(p) \/ StatefulSetDeleted(p)
=============================================================================
