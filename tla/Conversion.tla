----------------------------- MODULE Conversion -----------------------------
(***************************************************************************)
(* virtualcluster/pkg/syncer/conversion (helper.go and equality.go): how   *)
(* the syncer builds the copy of an object on the other side, and how it   *)
(* tells whether the copy is still up to date.  A check of the source that returns nil for equal  *)
(* objects, or else the updated object, is an operator here that returns   *)
(* the object as it should be: it is the old one when nothing differs.     *)
(*                                                                         *)
(* An object is abstracted to its UID, the UID of the object it was built  *)
(* from (ref, 0 if none: annotation LabelUID), its resource version, the   *)
(* content the syncer copies (spec: data, spec, subsets...), its status    *)
(* and its labels and annotations (meta).  Keys of meta stand for classes: *)
(*   plain        an ordinary key                                          *)
(*   domain       a key of DefaultOpaqueMetaDomains, such as kubernetes.io *)
(*   opaque       a key with DefaultOpaqueMetaPrefix or one of             *)
(*                VC.Spec.OpaqueMetaPrefixes, such as PublicObjectKey      *)
(*   transparent  a key with one of VC.Spec.TransparentMetaPrefixes        *)
(*   clusterIP    LabelSuperClusterIP, a key with                          *)
(*                DefaultTransparentMetaPrefix                             *)
(* and the value tells who wrote it: 0 nobody (no such key), 1 the tenant, *)
(* 2 somebody in the super cluster.                                        *)
(***************************************************************************)
EXTENDS Integers

Keys == {"plain", "domain", "opaque", "transparent", "clusterIP"}
KV == [Keys -> 0..2]
NoKeys == [k \in Keys |-> 0]

\* Kinds whose controller is built without the syncer's configuration.
NoConfig == {"secret", "satoken"}

\* The prefixes a check makes exceptions for are given as the set of their keys.
hasPrefixInArray(key, array) == key \in array

\* Mutant of isOpaquedKey: the domains are not looked at.
isOpaquedKeyNever(kind, key) == FALSE

isOpaquedKey(kind, key) == kind \notin NoConfig /\ key = "domain"

\* The tenant is the source of truth, but for the keys that are exceptions: these stay
\* as they are in the super cluster.
checkDWKVEquality(kind, pKV, vKV) ==
    LET exceptionsList == {"opaque", "transparent", "clusterIP"}
    IN [k \in Keys |-> IF hasPrefixInArray(k, exceptionsList) \/ isOpaquedKey(kind, k)
                       THEN pKV[k] ELSE vKV[k]]

\* Transparent keys that the super cluster has go to the tenant; a removal does not.
checkUWKVEquality(pKV, vKV) ==
    [k \in Keys |-> IF hasPrefixInArray(k, {"transparent", "clusterIP"}) /\ pKV[k] # 0
                    THEN pKV[k] ELSE vKV[k]]

CheckDWObjectMetaEquality(kind, p, v) ==
    [p EXCEPT !.meta = checkDWKVEquality(kind, p.meta, v.meta)]
CheckUWObjectMetaEquality(p, v) == [v EXCEPT !.meta = checkUWKVEquality(p.meta, v.meta)]

-----------------------------------------------------------------------------
(* Is a super object what its tenant object asks for?  The result is the    *)
(* super object as it should be.                                            *)

checkMapEquality(p, v) == [p EXCEPT !.spec = v.spec]
CheckBinaryDataEquality(p, v) == [p EXCEPT !.spec = v.spec]

CheckConfigMapEquality(p, v) ==
    checkMapEquality(CheckDWObjectMetaEquality("configmap", p, v), v)

\* Of a service account token, only the labels and annotations are compared.
CheckSecretEquality(kind, p, v) ==
    IF kind = "satoken" THEN CheckDWObjectMetaEquality(kind, p, v)
    ELSE CheckBinaryDataEquality(CheckDWObjectMetaEquality(kind, p, v), v)

CheckEndpointsEquality(p, v) == [p EXCEPT !.spec = v.spec]

\* Cluster IPs and node ports, which are not part of spec here, are those of the super
\* cluster.
CheckServiceEquality(p, v) ==
    [CheckDWObjectMetaEquality("service", p, v) EXCEPT !.spec = v.spec]

CheckPVCEquality(p, v) ==
    [CheckDWObjectMetaEquality("persistentvolumeclaim", p, v) EXCEPT !.spec = v.spec]

CheckNamespaceEquality(p, v) == CheckDWObjectMetaEquality("namespace", p, v)

\* The ingress as it should be is the super cluster's with the metadata of the tenant's.
CheckIngressEquality(p, v) ==
    [v EXCEPT !.spec = p.spec, !.status = p.status]

(* The other direction: the tenant object as it should be. *)

\* A claim without a capacity in the super cluster is left alone.
CheckUWPVCStatusEquality(p, v) ==
    IF p.status = 0 THEN v ELSE [v EXCEPT !.status = p.status]
CheckPVSpecEquality(p, v) == [v EXCEPT !.spec = p.spec]
CheckStorageClassEquality(p, v) == [v EXCEPT !.spec = p.spec]
CheckPriorityClassEquality(p, v) == [v EXCEPT !.spec = p.spec]
CheckCRDEquality(p, v) == [v EXCEPT !.spec = p.spec]

-----------------------------------------------------------------------------
(* Objects to be created.  The API server gives them a UID and a version.   *)

ResetMetadata(obj) == [obj EXCEPT !.uid = 0, !.rv = 0]

\* A key with a transparent prefix of the VirtualCluster is kept.
CleanOpaqueKeys(kind, keyMap) ==
    [k \in Keys |-> IF hasPrefixInArray(k, {"opaque", "clusterIP"}) \/ isOpaquedKey(kind, k)
                    THEN 0 ELSE keyMap[k]]

buildCleanSuperClusterObject(kind, obj) ==
    ResetMetadata([obj EXCEPT !.meta = CleanOpaqueKeys(kind, obj.meta)])

\* The status of a new object is empty, whatever the object that is sent contains.
BuildSuperClusterObject(kind, obj) ==
    [buildCleanSuperClusterObject(kind, obj) EXCEPT !.ref = obj.uid, !.status = 0]
BuildSuperClusterNamespace(obj) ==
    [buildCleanSuperClusterObject("namespace", obj) EXCEPT !.ref = obj.uid, !.status = 0]

BuildVirtualStorageClass(p) == ResetMetadata(p)
BuildVirtualPriorityClass(p) == ResetMetadata(p)
BuildVirtualCRD(p) == ResetMetadata(p)
BuildVirtualPersistentVolume(p) == [ResetMetadata(p) EXCEPT !.ref = p.uid]
BuildVirtualEvent(p) == ResetMetadata(p)
=============================================================================
