---------------------------- MODULE Provisioners ----------------------------
(***************************************************************************)
(* virtualcluster/pkg/controller/controllers/provisioner: how the worker   *)
(* of a VirtualCluster makes, upgrades and deletes its control plane, one  *)
(* step per call that others can come in between (provisioner_native.go,   *)
(* provisioner_aliyun.go).                                                 *)
(*                                                                         *)
(* A certificate is known by the root CA that has signed it and by its     *)
(* key; the keys of one call of createAndApplyPKI are one number.          *)
(***************************************************************************)
EXTENDS PlaneState

At(f, pc) == flavour = f /\ w.pc = pc
Goes(pc) == w' = [w EXCEPT !.pc = pc]
\* What the steps of a provisioner leave alone.
OfNative == UNCHANGED <<flavour, vc, seen, old, version, hook, cloud, nestedVars>>
OfAliyun == UNCHANGED <<flavour, seen, version, hook, plane, nestedVars>>

SetVCStatus(m, phase, retry, note) ==
    [m EXCEPT !.status = [phase |-> phase, retry |-> retry, note |-> note]]
Creating == w.retry > 0
\* Mutant of Failed: a failed attempt to create is not counted.
Failed_NotCounted ==
    IF Creating
    THEN [w EXCEPT !.pc = "status", !.mem = SetVCStatus(@, "Pending", w.retry, "failed")]
    ELSE [w EXCEPT !.pc = "labels", !.mem = SetVCStatus([@ EXCEPT !.labels.upgrade = FALSE],
                                                        "Running", 0, "upgrade failed")]
\* Reconcile: the provisioner has returned, with an error or not.
Failed ==
    IF Creating
    THEN [w EXCEPT !.pc = "status", !.mem = SetVCStatus(@, "Pending", w.retry - 1, "failed")]
    ELSE [w EXCEPT !.pc = "labels", !.mem = SetVCStatus([@ EXCEPT !.labels.upgrade = FALSE],
                                                        "Running", 0, "upgrade failed")]
Fails == w' = Failed
Succeeds ==
    w' = IF Creating
         THEN [w EXCEPT !.pc = "status", !.mem = SetVCStatus(@, "Running", 0, "running")]
         ELSE [w EXCEPT !.pc = "labels", !.mem = SetVCStatus([@ EXCEPT !.labels.upgrade = FALSE],
                                                             "Running", 0, "upgraded")]

-----------------------------------------------------------------------------
(* Native: StatefulSets in the root namespace, described by a ClusterVersion. *)

Secrets == <<"root-ca", "apiserver-ca", "etcd-ca", "front-proxy-ca",
             "controller-manager-kubeconfig", "admin-kubeconfig", "serviceaccount-rsa">>
SecretNames == {Secrets[i] : i \in DOMAIN Secrets}
NoPlane == [ns |-> FALSE, secrets |-> [s \in SecretNames |-> NoPKI],
            sts |-> [p \in PartNames |-> [template |-> 0, up |-> FALSE]]]

fetchClusterVersion == version # 0
\* A namespace that is there already is as good as a new one.
CreateRootNS(made) == [made EXCEPT !.ns = TRUE]
\* The version is recorded before anything of it has been applied.
updateLabelClusterVersionApplied(m) == [m EXCEPT !.labels.applied = version]
CreateVirtualCluster ==
    /\ At("native", "create") /\ OfNative
    /\ \/ /\ fetchClusterVersion /\ NoEvent
          /\ plane' = CreateRootNS(plane)
          /\ w' = [w EXCEPT !.pc = "pki", !.part = 1, !.mem = updateLabelClusterVersionApplied(@)]
       \/ UNCHANGED plane /\ Fails /\ (IF fetchClusterVersion THEN Event("call") ELSE NoEvent)
       \/ /\ fetchClusterVersion /\ UNCHANGED plane /\ Event("call")
          /\ w' = [Failed EXCEPT !.mem = updateLabelClusterVersionApplied(@)]
UpgradeVirtualCluster ==
    /\ At("native", "upgrade") /\ OfNative /\ UNCHANGED plane /\ NoEvent
    /\ \/ ~fetchClusterVersion /\ Fails
       \/ fetchClusterVersion /\ w.mem.labels.applied = version /\ Succeeds
       \/ /\ fetchClusterVersion /\ w.mem.labels.applied # version
          /\ w' = [w EXCEPT !.pc = "pki", !.part = 2, !.mem = updateLabelClusterVersionApplied(@)]

\* Numbers that are not in use; secrets and templates are seven and three.
UsedPKI == {plane.secrets[s] : s \in SecretNames}
UsedKeys == {p.key : p \in UsedPKI} \cup {plane.sts[p].template : p \in PartNames}
NewKey == CHOOSE k \in 1..11 : k \notin UsedKeys
NewCA == CHOOSE k \in 1..8 : k \notin {p.ca : p \in UsedPKI}
\* The root CA is kept when the cache shows its secret; all the rest is made anew.
rootCA(shown) == IF shown /\ plane.secrets["root-ca"] # NoPKI THEN plane.secrets["root-ca"].ca ELSE NewCA
\* A kubeconfig holds the root CA and a certificate that it has signed; the key of the service
\* accounts is signed by nobody.
CrtKeyPairToSecret(ca, key) == [ca |-> ca, key |-> key]
KubeconfigToSecret(ca, key) == [ca |-> ca, key |-> key]
RsaKeyToSecret(key) == [ca |-> 0, key |-> key]
Issued(s, pki) ==
    CASE s = "root-ca" -> CrtKeyPairToSecret(pki.ca, pki.ca)
      [] s \in {"apiserver-ca", "etcd-ca", "front-proxy-ca"} -> CrtKeyPairToSecret(pki.ca, pki.key)
      [] s \in {"controller-manager-kubeconfig", "admin-kubeconfig"} -> KubeconfigToSecret(pki.ca, pki.key)
      [] s = "serviceaccount-rsa" -> RsaKeyToSecret(pki.key)
WithSecrets(k, pki) ==
    [plane EXCEPT !.secrets = [s \in SecretNames |->
        IF \E i \in 1..k : Secrets[i] = s THEN Issued(s, pki) ELSE @[s]]]
\* Mutant of createOrUpdatePKISecrets: a secret that cannot be written is skipped with the rest.
createOrUpdatePKISecrets_Ignores(pki) ==
    \E k \in Cuts \cup {Len(Secrets)} :
        /\ plane' = WithSecrets(k, pki) /\ (IF k < Len(Secrets) THEN Event("call") ELSE NoEvent)
        /\ w' = [w EXCEPT !.pc = "deploy", !.pki = pki]
\* createOrUpdatePKISecrets patches one secret after the other, up to the first failure.
createOrUpdatePKISecrets(pki) ==
    \/ /\ plane' = WithSecrets(Len(Secrets), pki) /\ NoEvent
       /\ w' = [w EXCEPT !.pc = "deploy", !.pki = pki]
    \/ /\ \E k \in Cuts : plane' = WithSecrets(k, pki)
       /\ Event("call") /\ Fails
createAndApplyPKI ==
    /\ At("native", "pki") /\ OfNative
    /\ createOrUpdatePKISecrets([ca |-> rootCA(TRUE), key |-> NewKey])
\* A secret that was made a moment ago may not be in the cache yet.
createAndApplyPKILags ==
    /\ At("native", "pki") /\ OfNative /\ Creating /\ plane.secrets["root-ca"] # NoPKI
    /\ Event("lag") /\ plane' = WithSecrets(Len(Secrets), [ca |-> rootCA(FALSE), key |-> NewKey])
    /\ w' = [w EXCEPT !.pc = "deploy", !.pki = [ca |-> rootCA(FALSE), key |-> NewKey]]

\* The templates of all but etcd carry hashes of the certificates.
complementETCDTemplate == 1
complementAPIServerTemplate == w.pki.key
complementCtrlMgrTemplate == w.pki.key
Complemented(part) ==
    CASE part = "etcd" -> complementETCDTemplate
      [] part = "apiserver" -> complementAPIServerTemplate
      [] part = "controller-manager" -> complementCtrlMgrTemplate
deployComponent ==
    /\ At("native", "deploy") /\ OfNative
    /\ \/ /\ plane' = [plane EXCEPT !.sts[Parts[w.part]].template = Complemented(Parts[w.part])]
          /\ Goes("wait") /\ NoEvent
       \/ /\ plane' \in {plane, [plane EXCEPT !.sts[Parts[w.part]].template = Complemented(Parts[w.part])]}
          /\ Event("call") /\ Fails
WaitStatefulSetReady ==
    /\ At("native", "wait") /\ OfNative /\ UNCHANGED plane /\ NoEvent
    /\ IF ~plane.sts[Parts[w.part]].up
       THEN Fails
       ELSE \/ w.part < Len(Parts) /\ w' = [w EXCEPT !.pc = "deploy", !.part = @ + 1]
            \/ w.part = Len(Parts) /\ Succeeds

-----------------------------------------------------------------------------
(* Aliyun: a cluster of the cloud, found by its name. *)

Annotations == <<"ask.slbID", "ask.clusterID", "admin-kubeconfig", "cluster">>
NoCloud == [state |-> "none", ns |-> FALSE, secret |-> FALSE]

\* What the cloud is asked for and answers.
SendCreationRequest == [cloud EXCEPT !.state = "initial"]
SendDeletionRequest == [cloud EXCEPT !.state = "deleting"]
GetClusterIDByName == cloud.state # "none"
GetASKStateAndSlbID == cloud.state
\* GetAliyunAKPair, GetASKConfigs: the access key or the configuration cannot be read.
AccessFails == Event("call") /\ UNCHANGED cloud
\* A name that is taken is an error of the request; the cluster of that name is then used.
\* After another error of the cloud an empty ID is polled once, which fails (AccessFails).
CreateASK ==
    /\ At("aliyun", "create") /\ OfAliyun /\ UNCHANGED <<vc, old>>
    /\ \/ ~GetClusterIDByName /\ cloud' = SendCreationRequest /\ Goes("poll") /\ NoEvent
       \/ ~GetClusterIDByName /\ cloud' = SendCreationRequest /\ Fails /\ Event("lost")
       \/ /\ GetClusterIDByName /\ NoEvent /\ UNCHANGED cloud
          /\ IF GetASKStateAndSlbID \in {"initial", "running"} THEN Goes("poll") ELSE Fails
       \/ AccessFails /\ Fails
PollASK ==
    /\ At("aliyun", "poll") /\ OfAliyun /\ UNCHANGED <<vc, old, cloud>>
    /\ \/ NoEvent /\ IF GetASKStateAndSlbID = "running" THEN Goes("store") ELSE Fails
       \/ Event("call") /\ Fails
\* The root namespace, then GetASKKubeConfig, then the secret.
StoreKubeconfig ==
    /\ At("aliyun", "store") /\ OfAliyun /\ UNCHANGED <<vc, old>>
    /\ \/ cloud' = [CreateRootNS(cloud) EXCEPT !.secret = TRUE] /\ Goes("annotate") /\ NoEvent
       \/ cloud' \in {cloud, CreateRootNS(cloud)} /\ Fails /\ Event("call")
\* Patches need no version; the object in memory is read again after each.
Annotated(k) == vc.ann \cup {Annotations[i] : i \in 1..k}
AnnotateVC ==
    /\ At("aliyun", "annotate") /\ OfAliyun /\ UNCHANGED cloud
    /\ \/ /\ vc.there /\ Others([vc EXCEPT !.ann = Annotated(Len(Annotations))]) /\ Goes("account") /\ NoEvent
       \/ /\ vc.there /\ \E k \in 1..(Len(Annotations) - 1) : Others([vc EXCEPT !.ann = Annotated(k)])
          /\ Event("call") /\ Fails
       \/ (~vc.there \/ ~Reached) /\ Fails /\ NoEvent /\ UNCHANGED <<vc, old>>
DeleteNodeController ==
    /\ At("aliyun", "account") /\ OfAliyun /\ UNCHANGED <<vc, cloud>>
    /\ old' = (old \ {"mem"}) \cup {"mem" : x \in old \cap {"seen"}}
    /\ LET read == [w EXCEPT !.mem = seen] IN
       \/ NoEvent /\ w' = [read EXCEPT !.pc = "status", !.mem = SetVCStatus(@, "Running", 0, "running")]
       \/ Event("call") /\ w' = [read EXCEPT !.pc = "status", !.mem = SetVCStatus(@, "Pending", w.retry - 1, "failed")]
UpgradeNotImplemented ==
    At("aliyun", "upgrade") /\ OfAliyun /\ UNCHANGED <<vc, old, cloud>> /\ NoEvent /\ Fails

-----------------------------------------------------------------------------
(* Deletion. *)

Unregisters == w' = [w EXCEPT !.pc = "unregister", !.mem.fin = FALSE]
DeleteNative == At("native", "delete") /\ OfNative /\ UNCHANGED plane /\ NoEvent /\ Unregisters
\* Not found by its name: an error, whatever the reason.  The request's answer can be lost.
DeleteVirtualCluster ==
    /\ At("aliyun", "delete") /\ OfAliyun /\ UNCHANGED vc
    /\ \/ GetClusterIDByName /\ cloud' = SendDeletionRequest /\ Unregisters /\ UNCHANGED old /\ NoEvent
       \/ ~GetClusterIDByName /\ UNCHANGED cloud /\ Rest /\ NoEvent
       \/ GetClusterIDByName /\ cloud' = SendDeletionRequest /\ Rest /\ Event("lost")
       \/ AccessFails /\ Rest

-----------------------------------------------------------------------------
(* The platforms.  A component is ready while its pods of any template are. *)

OfPlatform == UNCHANGED <<flavour, vcVars, nestedVars>>
StsUp(p) ==
    /\ plane.sts[p].template # 0 /\ ~plane.sts[p].up
    /\ plane' = [plane EXCEPT !.sts[p].up = TRUE] /\ NoEvent /\ OfPlatform /\ UNCHANGED cloud
StsDown(p) ==
    /\ plane.sts[p].up /\ p \in Failing
    /\ plane' = [plane EXCEPT !.sts[p].up = FALSE] /\ Event("outage") /\ OfPlatform /\ UNCHANGED cloud
CloudUp ==
    /\ cloud.state = "initial"
    /\ cloud' = [cloud EXCEPT !.state = "running"] /\ NoEvent /\ OfPlatform /\ UNCHANGED plane
CloudFails ==
    /\ cloud.state = "initial"
    /\ cloud' = [cloud EXCEPT !.state = "failed"] /\ Event("cloud") /\ OfPlatform /\ UNCHANGED plane
CloudGone ==
    /\ cloud.state = "deleting"
    /\ cloud' = [cloud EXCEPT !.state = "none"] /\ NoEvent /\ OfPlatform /\ UNCHANGED plane

Provisioning ==
    \/ CreateVirtualCluster \/ UpgradeVirtualCluster \/ createAndApplyPKI \/ createAndApplyPKILags
    \/ deployComponent \/ WaitStatefulSetReady
    \/ CreateASK \/ PollASK \/ StoreKubeconfig \/ AnnotateVC \/ DeleteNodeController
    \/ UpgradeNotImplemented \/ DeleteNative \/ DeleteVirtualCluster
Platforms ==
    \/ \E p \in PartNames : StsUp(p) \/ StsDown(p)
    \/ CloudUp \/ CloudFails \/ CloudGone
=============================================================================
