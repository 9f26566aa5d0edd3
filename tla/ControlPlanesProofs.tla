------------------------- MODULE ControlPlanesProofs -------------------------
(***************************************************************************)
(* Theorems about ControlPlanes: a VirtualCluster that is Running is       *)
(* served, and one that is gone leaves no cluster behind, whatever fails,  *)
(* lags or crashes, for any bounds.                                        *)
(***************************************************************************)
EXTENDS ControlPlanes, FiniteSetTheorems, TLAPS

-----------------------------------------------------------------------------
(* Types *)

Phases == {"unset", "Pending", "Running", "Error"}
Notes == {"unset", "creating", "failed", "running", "upgrade failed", "upgraded"}
AnnotationNames == {Annotations[i] : i \in DOMAIN Annotations}
VCStatus == [phase : Phases, retry : 0..3, note : Notes]
VCLabels == [upgrade : BOOLEAN, applied : 0..2]
VCObject == [there : BOOLEAN, fin : BOOLEAN, deleting : BOOLEAN, status : VCStatus,
             labels : VCLabels, ann : SUBSET AnnotationNames]

Resting == {"idle", "boot", "register"}
Making == {"create", "upgrade", "pki", "deploy", "wait", "poll", "store", "annotate", "account"}
Pcs == Resting \cup Making \cup {"delete"} \cup Updates
PKI == [ca : 0..8, key : 0..11]
Worker == [pc : Pcs, mem : VCObject, retry : 0..3, part : 0..3, pki : PKI]
StatefulSet == [template : 0..11, up : BOOLEAN]
Plane == [ns : BOOLEAN, secrets : [SecretNames -> PKI], sts : [PartNames -> StatefulSet]]
Cloud == [state : {"none", "initial", "running", "failed", "deleting"}, ns : BOOLEAN, secret : BOOLEAN]

ManagerTypes ==
    /\ flavour \in {"native", "aliyun", "capi"} /\ version \in 0..2
    /\ vc \in VCObject /\ seen \in VCObject /\ w \in Worker
PlaneTypes == plane \in Plane /\ cloud \in Cloud
NestedShape(n) ==
    /\ n.infra \in BOOLEAN
    /\ n = [secrets |-> n.secrets, manifests |-> n.manifests, svc |-> n.svc, infra |-> n.infra]
Part == [there : BOOLEAN, owned : BOOLEAN, phase : {"unset", "Unready", "Ready"},
         sts : {"none", "new", "down", "up"}]
Cluster == [there : BOOLEAN, deleting : BOOLEAN, infra : BOOLEAN, endpoint : BOOLEAN,
            paused : BOOLEAN]
NestedTypes ==
    /\ cluster \in Cluster
    /\ ncp \in [there : BOOLEAN, fin : BOOLEAN, deleting : BOOLEAN, init : BOOLEAN, ready : BOOLEAN]
    /\ NestedShape(nested)
    /\ parts \in [PartNames -> Part]

-----------------------------------------------------------------------------
(* Copies of the VirtualCluster *)

Working == w.pc \notin Resting

\* An object that is gone has no finalizer and is not being deleted; one that is being deleted
\* is there only while it has its finalizer.
Sound(c) == (~c.there => ~c.fin /\ ~c.deleting) /\ (c.deleting => c.fin)

\* The informer's copy is the object unless it is outdated; it is never ahead.
SeenInv ==
    /\ Sound(vc) /\ Sound(seen)
    /\ "seen" \notin old => seen = vc
    /\ seen.deleting => vc.deleting \/ ~vc.there
\* What a worker writes differs from the object only in what the worker has changed.
MemInv ==
    Working =>
        /\ "mem" \notin old =>
               /\ w.mem.there = vc.there /\ w.mem.deleting = vc.deleting /\ w.mem.ann = vc.ann
               /\ w.pc \notin {"register finalizer", "unregister"} => w.mem.fin = vc.fin
               /\ w.pc = "register finalizer" => (vc.fin => w.mem.fin)
        /\ w.pc \in {"delete", "unregister"} =>
               (vc.there => vc.deleting) /\ (seen.there => seen.deleting)

-----------------------------------------------------------------------------
(* Clusters that must be told to go *)

\* The finalizer is there, or it has done its work, or a conflict has lost it.
Registered ==
    vc.fin \/ (~vc.there /\ "early delete" \notin faults) \/ "unregistered" \in faults
Dropped == cloud.state \in {"none", "deleting"} /\ (cluster.there => cluster.deleting)
FinalizerInv ==
    /\ "early delete" \in faults => ~vc.there
    /\ seen.fin => Registered
    /\ cloud.state # "none" => Registered
    /\ w.pc \in Making => Registered
    /\ w.pc = "register finalizer" => w.mem.fin \/ "unregistered" \in faults
    /\ w.pc = "unregister" => Dropped
    /\ ~vc.there /\ "early delete" \notin faults =>
           /\ Dropped /\ (seen.there => seen.deleting)
           /\ w.pc \in Resting \cup {"delete", "unregister"}
    /\ flavour # "aliyun" => cloud.state = "none"
    /\ flavour # "capi" => ~cluster.there

-----------------------------------------------------------------------------
(* Control planes *)

Running(c) == c.status.phase = "Running"
AnyRunning == Running(vc) \/ Running(seen) \/ Running(w.mem)
\* A worker that does not count down its attempts works for an upgrade.
RetryInv ==
    /\ w.pc \in {"create", "poll", "store", "annotate", "account"} => w.retry > 0
    /\ w.pc \in {"pki", "deploy", "wait"} => w.retry > 0 \/ Running(w.mem)
    /\ w.pc = "upgrade" => w.retry = 0 /\ Running(w.mem)

NoOutage == "outage" \notin faults
Unhurt == faults \cap {"call", "crash", "outage"} = {}
Before(i) == i < w.part
Up(i) == plane.sts[Parts[i]].up
Template(i) == plane.sts[Parts[i]].template
SecretsMade == \A s \in SecretNames : plane.secrets[s] # NoPKI
\* How far the native provisioner has come.
NativeInv ==
    /\ plane.secrets["root-ca"] # NoPKI => plane.secrets["root-ca"].ca # 0
    /\ "lag" \in faults \/ \A s \in SecretNames \ {"serviceaccount-rsa"} :
           plane.secrets[s] # NoPKI =>
               plane.secrets["root-ca"] # NoPKI /\ plane.secrets[s].ca = plane.secrets["root-ca"].ca
    /\ w.pc \in {"pki", "deploy", "wait"} =>
           /\ plane.ns /\ w.part \in 1..3 /\ (w.pc = "pki" => w.part # 3)
           /\ \A i \in 1..3 : Before(i) => Template(i) # 0 /\ (NoOutage => Up(i))
    /\ w.pc \in {"deploy", "wait"} =>
           /\ SecretsMade /\ w.pki.key # 0 /\ plane.secrets["serviceaccount-rsa"].key = w.pki.key
           /\ \A i \in 2..3 : Before(i) => Template(i) = w.pki.key
    /\ w.pc = "wait" => /\ Template(w.part) # 0
                        /\ w.part # 1 => Template(w.part) = w.pki.key
AliyunInv ==
    /\ w.pc \in {"annotate", "account"} => cloud.ns /\ cloud.secret
    /\ w.pc = "account" => (vc.there => vc.ann = AnnotationNames)
Kept(p) == parts[p].sts # "none" \/ "removed" \in faults
CapiInv ==
    /\ nested.infra => ncp.ready
    /\ cluster.infra => ncp.ready
    /\ ~ncp.deleting =>
           /\ \A p \in PartNames : parts[p].phase = "Ready" => Kept(p)
           /\ reads = "ready" => \A p \in PartNames : Kept(p)
           /\ ncp.ready => \A p \in PartNames : parts[p].owned /\ Kept(p)

\* What every copy with the phase Running promises.
ServedNative ==
    /\ Complete
    /\ NoOutage => \A i \in 1..3 : Up(i)
    /\ Untouched => Agree
ServedAliyun == cloud.ns /\ cloud.secret /\ (vc.there => vc.ann = AnnotationNames)
ServedInv ==
    AnyRunning => CASE flavour = "native" -> ServedNative
                    [] flavour = "aliyun" -> ServedAliyun
                    [] flavour = "capi"   -> ncp.ready

PlaneInv ==
    /\ ManagerTypes /\ PlaneTypes /\ NestedTypes
    /\ SeenInv /\ MemInv /\ FinalizerInv /\ RetryInv
    /\ NativeInv /\ AliyunInv /\ CapiInv /\ ServedInv

-----------------------------------------------------------------------------
(* Names *)

LEMMA NamesOfParts == PartNames = {"etcd", "apiserver", "controller-manager"}
                      /\ Parts[1] = "etcd" /\ Parts[2] = "apiserver" /\ Parts[3] = "controller-manager"
                      /\ Len(Parts) = 3
<1>1. DOMAIN Parts = 1..3
    BY DEF Parts
<1>2. \A i \in 1..3 : i = 1 \/ i = 2 \/ i = 3
    OBVIOUS
<1> QED
    BY <1>1, <1>2 DEF PartNames, Parts

LEMMA NamesOfSecrets ==
    /\ SecretNames = {"root-ca", "apiserver-ca", "etcd-ca", "front-proxy-ca",
                      "controller-manager-kubeconfig", "admin-kubeconfig", "serviceaccount-rsa"}
    /\ Len(Secrets) = 7
<1>1. DOMAIN Secrets = 1..7
    BY DEF Secrets
<1>2. \A i \in 1..7 : i = 1 \/ i = 2 \/ i = 3 \/ i = 4 \/ i = 5 \/ i = 6 \/ i = 7
    OBVIOUS
<1> QED
    BY <1>1, <1>2 DEF SecretNames, Secrets

\* Of one number more than there are slots, one is in no slot.
LEMMA Unused ==
    \A n, m \in Nat : m = n + 1 => \A slot : \E k \in 1..m : \A i \in 1..n : slot[i] # k
<1> SUFFICES ASSUME NEW n \in Nat, NEW m \in Nat, m = n + 1, NEW slot
             PROVE  \E k \in 1..m : \A i \in 1..n : slot[i] # k
    OBVIOUS
<1> SUFFICES ASSUME \A k \in 1..m : \E i \in 1..n : slot[i] = k PROVE FALSE
    OBVIOUS
<1> DEFINE S == 1..m
           T == 1..n
           f == [k \in S |-> CHOOSE i \in T : slot[i] = k]
<1>1. \A k \in S : f[k] \in T /\ slot[f[k]] = k
    OBVIOUS
<1>2. f \in [S -> T]
    BY <1>1
<1> HIDE DEF f
<1>3. IsFiniteSet(S) /\ Cardinality(S) = m
    BY FS_Interval
<1>4. IsFiniteSet(T) /\ Cardinality(T) = n
    BY FS_Interval
<1>5. Cardinality(T) < Cardinality(S)
    BY <1>3, <1>4
<1> HIDE DEF S, T
<1>6. \E x, y \in S : x # y /\ f[x] = f[y]
    BY <1>2, <1>3, <1>4, <1>5, FS_PigeonHole
<1> QED
    BY <1>1, <1>6

LEMMA NewCAType == NewCA \in 1..8
<1> DEFINE slot == [i \in 1..7 |-> plane.secrets[Secrets[i]].ca]
<1>0. \E k \in 1..8 : \A i \in 1..7 : slot[i] # k
    <2> HIDE DEF slot
    <2> QED
        BY Unused
<1>1. PICK k \in 1..8 : \A i \in 1..7 : slot[i] # k
    BY <1>0
<1>2. k \notin {p.ca : p \in UsedPKI}
    BY <1>1, NamesOfSecrets DEF UsedPKI, SecretNames
<1> QED
    BY <1>2 DEF NewCA

LEMMA NewKeyType == NewKey \in 1..11
<1> DEFINE slot == [i \in 1..10 |-> IF i <= 7 THEN plane.secrets[Secrets[i]].key
                                    ELSE plane.sts[Parts[i - 7]].template]
<1>0. \E k \in 1..11 : \A i \in 1..10 : slot[i] # k
    <2>1. 10 \in Nat /\ 11 \in Nat /\ 11 = 10 + 1
        OBVIOUS
    <2>2. \A any : \E k \in 1..11 : \A i \in 1..10 : any[i] # k
        BY <2>1, Unused
    <2> HIDE DEF slot
    <2> QED
        BY <2>2
<1>1. PICK k \in 1..11 : \A i \in 1..10 : slot[i] # k
    BY <1>0
<1>2. \A i \in 1..7 : plane.secrets[Secrets[i]].key # k
    BY <1>1
<1>3. \A i \in 1..3 : plane.sts[Parts[i]].template # k
    <2> TAKE i \in 1..3
    <2>1. i + 7 \in 1..10 /\ ~(i + 7 <= 7) /\ (i + 7) - 7 = i
        OBVIOUS
    <2> QED
        BY <1>1, <2>1
<1> HIDE DEF slot
<1>4. k \notin UsedKeys
    BY <1>2, <1>3, NamesOfSecrets, NamesOfParts DEF UsedKeys, UsedPKI, SecretNames, PartNames
<1> QED
    BY <1>4 DEF NewKey

-----------------------------------------------------------------------------
(* What steps do to the worker and to the count of events *)

LEMMA IdleFacts ==
    /\ Gone \in VCObject /\ ~Gone.there /\ ~Gone.fin /\ ~Gone.deleting /\ ~Running(Gone)
    /\ Idle \in Worker /\ Idle.pc = "idle" /\ Idle.mem = Gone
BY DEF Gone, NoStatus, VCObject, VCStatus, VCLabels, Phases, Notes, Running, Idle, Worker, NoPKI, PKI, Pcs, Resting

\* Two copies are alike in all that is not the worker's to change.
SameCopy(a, b) == a.there = b.there /\ a.fin = b.fin /\ a.deleting = b.deleting /\ a.ann = b.ann

LEMMA GoesFacts ==
    ASSUME w \in Worker, NEW pc \in Pcs, Goes(pc)
    PROVE  w' \in Worker /\ w'.pc = pc /\ w'.mem = w.mem /\ w'.retry = w.retry /\ w'.part = w.part /\ w'.pki = w.pki
BY DEF Goes, Worker

LEMMA StatusFacts ==
    ASSUME NEW m \in VCObject, NEW phase \in Phases, NEW retry \in 0..3, NEW note \in Notes
    PROVE  LET set == SetVCStatus(m, phase, retry, note)
           IN  set \in VCObject /\ SameCopy(set, m) /\ set.status.phase = phase
BY DEF SetVCStatus, SameCopy, VCObject, VCStatus

LEMMA UpgradeLabelFacts ==
    ASSUME NEW m \in VCObject, NEW asked \in BOOLEAN
    PROVE  LET set == [m EXCEPT !.labels.upgrade = asked]
           IN  set \in VCObject /\ SameCopy(set, m) /\ set.status = m.status
BY DEF SameCopy, VCObject, VCLabels

LEMMA FailedFacts ==
    ASSUME w \in Worker, w.retry > 0 \/ Running(w.mem)
    PROVE  /\ Failed \in Worker /\ Failed.pc \in {"status", "labels"} /\ SameCopy(Failed.mem, w.mem)
           /\ Running(Failed.mem) => Running(w.mem)
<1> w.mem \in VCObject
    BY DEF Worker
<1>1. CASE Creating
    <2> DEFINE m == SetVCStatus(w.mem, "Pending", w.retry - 1, "failed")
    <2>1. w.retry - 1 \in 0..3
        BY <1>1 DEF Creating, Worker
    <2>2. m \in VCObject /\ SameCopy(m, w.mem) /\ m.status.phase = "Pending"
        <3>1. "Pending" \in Phases /\ "failed" \in Notes
            BY DEF Phases, Notes
        <3> QED
            BY <2>1, <3>1, StatusFacts
    <2>3. Failed = [w EXCEPT !.pc = "status", !.mem = m]
        BY <1>1 DEF Failed
    <2> QED
        BY <2>2, <2>3 DEF Worker, Running, Pcs, Updates
<1>2. CASE ~Creating
    <2> DEFINE l == [w.mem EXCEPT !.labels.upgrade = FALSE]
               m == SetVCStatus(l, "Running", 0, "upgrade failed")
    <2>1. l \in VCObject /\ SameCopy(l, w.mem)
        BY UpgradeLabelFacts
    <2>2. m \in VCObject /\ SameCopy(m, l)
        <3>1. "Running" \in Phases /\ 0 \in 0..3 /\ "upgrade failed" \in Notes
            BY DEF Phases, Notes
        <3> QED
            BY <2>1, <3>1, StatusFacts
    <2>3. Failed = [w EXCEPT !.pc = "labels", !.mem = m]
        BY <1>2 DEF Failed
    <2> HIDE DEF l, m
    <2>4. Running(w.mem)
        BY <1>2 DEF Creating
    <2> QED
        BY <2>1, <2>2, <2>3, <2>4 DEF Worker, SameCopy, Pcs, Updates
<1> QED
    BY <1>1, <1>2

LEMMA FailsFacts ==
    ASSUME w \in Worker, Fails, w.retry > 0 \/ Running(w.mem)
    PROVE  /\ w' \in Worker /\ w'.pc \in {"status", "labels"} /\ SameCopy(w'.mem, w.mem)
           /\ Running(w'.mem) => Running(w.mem)
BY FailedFacts DEF Fails

LEMMA SucceedsFacts ==
    ASSUME w \in Worker, Succeeds
    PROVE  /\ w' \in Worker /\ w'.pc \in {"status", "labels"} /\ SameCopy(w'.mem, w.mem)
           /\ Running(w'.mem)
<1> w.mem \in VCObject
    BY DEF Worker
<1>1. CASE Creating
    <2> DEFINE m == SetVCStatus(w.mem, "Running", 0, "running")
    <2>1. m \in VCObject /\ SameCopy(m, w.mem) /\ m.status.phase = "Running"
        <3>1. "Running" \in Phases /\ 0 \in 0..3 /\ "running" \in Notes
            BY DEF Phases, Notes
        <3> QED
            BY <3>1, StatusFacts
    <2>2. w' = [w EXCEPT !.pc = "status", !.mem = m]
        BY <1>1 DEF Succeeds
    <2> QED
        BY <2>1, <2>2 DEF Worker, Running, Pcs, Updates
<1>2. CASE ~Creating
    <2> DEFINE l == [w.mem EXCEPT !.labels.upgrade = FALSE]
               m == SetVCStatus(l, "Running", 0, "upgraded")
    <2>1. l \in VCObject /\ SameCopy(l, w.mem)
        BY UpgradeLabelFacts
    <2>2. m \in VCObject /\ SameCopy(m, l) /\ m.status.phase = "Running"
        <3>1. "Running" \in Phases /\ 0 \in 0..3 /\ "upgraded" \in Notes
            BY DEF Phases, Notes
        <3> QED
            BY <2>1, <3>1, StatusFacts
    <2>3. w' = [w EXCEPT !.pc = "labels", !.mem = m]
        BY <1>2 DEF Succeeds
    <2> HIDE DEF l, m
    <2> QED
        BY <2>1, <2>2, <2>3 DEF Worker, SameCopy, Running, Pcs, Updates
<1> QED
    BY <1>1, <1>2

\* A step by which nothing is counted but kinds.
Counted(kinds) == faults \subseteq faults' /\ faults' \subseteq faults \cup kinds
LEMMA CountedFacts ==
    /\ NoEvent => Counted({}) /\ faults' = faults
    /\ \A kind : Event(kind) => Counted({kind}) /\ kind \in faults'
BY DEF NoEvent, counts, Event, Counted

-----------------------------------------------------------------------------
(* What a step keeps because of what it leaves alone *)

LEMMA KeepNested ==
    ASSUME NestedTypes, CapiInv, UNCHANGED nestedVars, faults \subseteq faults'
    PROVE  NestedTypes' /\ CapiInv'
BY DEF NestedTypes, CapiInv, nestedVars, Kept

LEMMA KeepCopies ==
    ASSUME ManagerTypes, SeenInv, MemInv, RetryInv, UNCHANGED <<flavour, vcVars>>
    PROVE  ManagerTypes' /\ SeenInv' /\ MemInv' /\ RetryInv'
<1>1. UNCHANGED <<flavour, vc, seen, old, w, version>>
    BY DEF vcVars
<1>2. ManagerTypes' /\ SeenInv'
    BY <1>1 DEF ManagerTypes, SeenInv, Sound
<1>3. MemInv'
    BY <1>1 DEF MemInv, Working
<1>4. RetryInv'
    BY <1>1 DEF RetryInv, Running
<1> QED
    BY <1>2, <1>3, <1>4

LEMMA KeepNative ==
    ASSUME NativeInv, UNCHANGED plane, faults \subseteq faults',
           w' = w \/ w'.pc \notin {"pki", "deploy", "wait"}
    PROVE  NativeInv'
BY DEF NativeInv, Before, Up, Template, NoOutage, SecretsMade

LEMMA KeepServed ==
    ASSUME ManagerTypes, ManagerTypes', ServedInv, UNCHANGED <<flavour, plane>>, faults \subseteq faults',
           cloud.ns => cloud'.ns, cloud.secret => cloud'.secret, ncp.ready => ncp'.ready,
           vc'.there => vc.there /\ vc.ann \subseteq vc'.ann,
           AnyRunning' => AnyRunning, Untouched' => Untouched
    PROVE  ServedInv'
<1> SUFFICES ASSUME AnyRunning' PROVE ServedInv'
    BY DEF ServedInv
<1>1. CASE flavour = "native"
    <2>1. ServedNative
        BY <1>1 DEF ServedInv
    <2>2. ServedNative'
        BY <2>1 DEF ServedNative, Complete, NoOutage, Up, Agree
    <2> QED
        BY <1>1, <2>2 DEF ServedInv
<1>2. CASE flavour = "aliyun"
    <2>1. ServedAliyun
        BY <1>2 DEF ServedInv
    <2>2. vc'.ann \subseteq AnnotationNames
        BY DEF ManagerTypes, VCObject
    <2>3. ServedAliyun'
        BY <2>1, <2>2 DEF ServedAliyun, AnnotationNames
    <2> QED
        BY <1>2, <2>3 DEF ServedInv
<1>3. CASE flavour = "capi"
    BY <1>3 DEF ServedInv
<1> QED
    BY <1>1, <1>2, <1>3 DEF ManagerTypes

\* A worker that makes something goes on or gives up: the copies of the object stay as they are.
LEMMA WorkerStep ==
    ASSUME ManagerTypes, SeenInv, MemInv, FinalizerInv,
           UNCHANGED <<flavour, vc, seen, old, version, cluster>>,
           faults \subseteq faults', \A k \in {"early delete", "unregistered"} : k \in faults' => k \in faults,
           w.pc \in Making, w' \in Worker, w'.pc \in Making \cup {"status", "labels"},
           SameCopy(w'.mem, w.mem),
           flavour # "aliyun" => cloud' = cloud
    PROVE  ManagerTypes' /\ SeenInv' /\ MemInv' /\ FinalizerInv'
<1>1. ManagerTypes'
    BY DEF ManagerTypes
<1>2. SeenInv'
    BY DEF SeenInv, Sound
<1>3. w'.pc \notin Resting \cup {"register finalizer", "unregister", "delete"}
      /\ w.pc \notin Resting \cup {"register finalizer", "unregister", "delete"}
    BY DEF Resting, Making
<1>4. MemInv'
    BY <1>3 DEF MemInv, Working, SameCopy
<1>5. FinalizerInv'
    <2>1. Registered /\ Registered'
        BY DEF FinalizerInv, Registered
    <2>2. vc.there \/ "early delete" \in faults
        BY <1>3 DEF FinalizerInv
    <2> QED
        BY <1>3, <2>1, <2>2 DEF FinalizerInv
<1> QED
    BY <1>1, <1>2, <1>4, <1>5

-----------------------------------------------------------------------------
(* The native provisioner *)

\* What is common to its steps.
LEMMA NativeStep ==
    ASSUME PlaneInv, flavour = "native", OfNative,
           Counted({}) \/ Counted({"call"}) \/ Counted({"lag"}),
           w.pc \in Making, w' \in Worker, w'.pc \in Making \cup {"status", "labels"},
           SameCopy(w'.mem, w.mem)
    PROVE  ManagerTypes' /\ SeenInv' /\ MemInv' /\ FinalizerInv' /\ NestedTypes' /\ CapiInv'
<1>1. faults \subseteq faults' /\ \A k \in {"early delete", "unregistered"} : k \in faults' => k \in faults
    BY DEF Counted
<1>2. UNCHANGED <<flavour, vc, seen, old, version, cluster>> /\ cloud' = cloud /\ UNCHANGED nestedVars
    BY DEF OfNative, nestedVars
<1>3. ManagerTypes /\ SeenInv /\ MemInv /\ FinalizerInv /\ NestedTypes /\ CapiInv
    BY DEF PlaneInv
<1>4. NestedTypes' /\ CapiInv'
    BY <1>1, <1>2, <1>3, KeepNested
<1>5. ManagerTypes' /\ SeenInv' /\ MemInv' /\ FinalizerInv'
    BY <1>1, <1>2, <1>3, WorkerStep
<1> QED
    BY <1>4, <1>5

\* The version to be applied is noted in a copy.
LEMMA AppliedLabel ==
    ASSUME ManagerTypes, NEW c \in VCObject
    PROVE  LET m == updateLabelClusterVersionApplied(c)
           IN  m \in VCObject /\ SameCopy(m, c) /\ m.status = c.status
BY DEF updateLabelClusterVersionApplied, ManagerTypes, VCObject, VCLabels, SameCopy

FailsAfterLabel == w' = [Failed EXCEPT !.mem = updateLabelClusterVersionApplied(@)]

\* It fails before it has changed anything.
LEMMA NativeFailsEarly ==
    ASSUME PlaneInv, flavour = "native", OfNative, UNCHANGED plane, Counted({}) \/ Counted({"call"}),
           w.pc \in Making, w.retry > 0 \/ Running(w.mem), Fails \/ FailsAfterLabel,
           w.pc \notin {"deploy", "wait"} \/ (AnyRunning => ~Unhurt')
    PROVE  PlaneInv'
<1>1. w' \in Worker /\ w'.pc \in {"status", "labels"} /\ SameCopy(w'.mem, w.mem)
      /\ (Running(w'.mem) => Running(w.mem))
    <2>1. CASE Fails
        BY <2>1, FailsFacts DEF PlaneInv, ManagerTypes
    <2>2. CASE FailsAfterLabel
        <3>1. /\ Failed \in Worker /\ Failed.pc \in {"status", "labels"}
              /\ SameCopy(Failed.mem, w.mem) /\ (Running(Failed.mem) => Running(w.mem))
            BY FailedFacts DEF PlaneInv, ManagerTypes
        <3> DEFINE m == updateLabelClusterVersionApplied(Failed.mem)
        <3>2. m \in VCObject /\ SameCopy(m, Failed.mem) /\ m.status = Failed.mem.status
            BY <3>1, AppliedLabel DEF PlaneInv, Worker
        <3>3. w' = [Failed EXCEPT !.mem = m]
            BY <2>2 DEF FailsAfterLabel
        <3> HIDE DEF m
        <3> QED
            BY <3>1, <3>2, <3>3 DEF Worker, SameCopy, Running
    <2> QED
        BY <2>1, <2>2
<1>2. ManagerTypes' /\ SeenInv' /\ MemInv' /\ FinalizerInv' /\ NestedTypes' /\ CapiInv'
    BY <1>1, NativeStep
<1>3. RetryInv' /\ AliyunInv' /\ w'.pc \notin {"pki", "deploy", "wait"}
    BY <1>1 DEF RetryInv, AliyunInv
<1>4. faults \subseteq faults'
    BY DEF Counted
<1>5. NativeInv'
    BY <1>3, <1>4, KeepNative DEF PlaneInv
<1>6. PlaneTypes'
    BY DEF PlaneInv, PlaneTypes, OfNative
<1>7. AnyRunning' => AnyRunning
    BY <1>1 DEF AnyRunning, OfNative, Running
<1>8. AnyRunning => (Untouched' => Untouched)
    BY <1>4 DEF Untouched, Unhurt
<1>9. ServedInv'
    <2>1. CASE AnyRunning
        BY <2>1, <1>2, <1>4, <1>7, <1>8, KeepServed DEF PlaneInv, OfNative, nestedVars
    <2>2. CASE ~AnyRunning
        BY <2>2, <1>7 DEF ServedInv
    <2> QED
        BY <2>1, <2>2
<1> QED
    BY <1>2, <1>3, <1>5, <1>6, <1>9 DEF PlaneInv

LEMMA AppliedFacts ==
    ASSUME ManagerTypes, NEW part \in 1..2,
           w' = [w EXCEPT !.pc = "pki", !.part = part, !.mem = updateLabelClusterVersionApplied(@)]
    PROVE  /\ w' \in Worker /\ w'.pc = "pki" /\ w'.part = part /\ w'.retry = w.retry
           /\ SameCopy(w'.mem, w.mem) /\ w'.mem.status = w.mem.status
<1> DEFINE m == updateLabelClusterVersionApplied(w.mem)
<1>1. m \in VCObject /\ SameCopy(m, w.mem) /\ m.status = w.mem.status
    BY AppliedLabel DEF ManagerTypes, Worker
<1>2. w' = [w EXCEPT !.pc = "pki", !.part = part, !.mem = m]
    OBVIOUS
<1> HIDE DEF m
<1>3. part \in 0..3
    OBVIOUS
<1> QED
    BY <1>1, <1>2, <1>3 DEF ManagerTypes, Worker, Pcs, Making

LEMMA CreateVirtualClusterKeeps ==
    ASSUME PlaneInv, CreateVirtualCluster
    PROVE  PlaneInv'
<1>0. flavour = "native" /\ w.pc = "create" /\ OfNative /\ w.pc \in Making /\ w.retry > 0
    BY DEF CreateVirtualCluster, At, Making, PlaneInv, RetryInv
<1>1. CASE UNCHANGED plane /\ (Fails \/ FailsAfterLabel) /\ (Event("call") \/ NoEvent)
    BY <1>0, <1>1, NativeFailsEarly, CountedFacts
<1>2. CASE /\ fetchClusterVersion /\ NoEvent
           /\ plane' = CreateRootNS(plane)
           /\ w' = [w EXCEPT !.pc = "pki", !.part = 1, !.mem = updateLabelClusterVersionApplied(@)]
    <2>1. /\ w' \in Worker /\ w'.pc = "pki" /\ w'.part = 1 /\ w'.retry = w.retry
          /\ SameCopy(w'.mem, w.mem) /\ w'.mem.status = w.mem.status
        <3>1. 1 \in 1..2
            OBVIOUS
        <3> QED
            BY <1>2, <3>1, AppliedFacts DEF PlaneInv
    <2>2. Counted({}) /\ faults' = faults
        BY <1>2, CountedFacts
    <2>3. ManagerTypes' /\ SeenInv' /\ MemInv' /\ FinalizerInv' /\ NestedTypes' /\ CapiInv'
        BY <1>0, <2>1, <2>2, NativeStep DEF Making
    <2>4. RetryInv' /\ AliyunInv'
        BY <1>0, <2>1 DEF RetryInv, AliyunInv
    <2>5. plane' \in Plane /\ plane'.ns /\ plane'.secrets = plane.secrets /\ plane'.sts = plane.sts
        BY <1>2 DEF CreateRootNS, PlaneInv, PlaneTypes, Plane
    <2>6. PlaneTypes'
        BY <1>0, <2>5 DEF PlaneTypes, PlaneInv, OfNative
    <2>7. NativeInv'
        <3>1. \A i \in 1..3 : ~Before(i)'
            BY <2>1 DEF Before
        <3> QED
            BY <2>1, <2>2, <2>5, <3>1 DEF PlaneInv, NativeInv
    <2>8. ServedInv'
        <3> SUFFICES ASSUME AnyRunning' PROVE ServedNative'
            BY <1>0 DEF ServedInv, OfNative
        <3>1. AnyRunning
            BY <1>0, <2>1 DEF AnyRunning, Running, OfNative
        <3>2. ServedNative
            BY <1>0, <3>1 DEF PlaneInv, ServedInv
        <3>3. Untouched' => Untouched
            BY <1>0, <2>1, <2>2 DEF Untouched
        <3> QED
            BY <2>2, <2>5, <3>2, <3>3 DEF ServedNative, Complete, NoOutage, Up, Agree
    <2> QED
        BY <2>3, <2>4, <2>6, <2>7, <2>8 DEF PlaneInv
<1> QED
    BY <1>1, <1>2 DEF CreateVirtualCluster, FailsAfterLabel

LEMMA UpgradeVirtualClusterKeeps ==
    ASSUME PlaneInv, UpgradeVirtualCluster
    PROVE  PlaneInv'
<1>0. flavour = "native" /\ w.pc = "upgrade" /\ OfNative /\ w.pc \in Making /\ w.retry = 0 /\ Running(w.mem)
    BY DEF UpgradeVirtualCluster, At, Making, PlaneInv, RetryInv
<1>1. Counted({}) /\ faults' = faults /\ plane' = plane
    BY CountedFacts DEF UpgradeVirtualCluster
<1>2. AnyRunning /\ ServedNative
    BY <1>0 DEF AnyRunning, PlaneInv, ServedInv
<1>3. CASE Fails
    BY <1>0, <1>1, <1>3, NativeFailsEarly
<1>4. ASSUME w' \in Worker, SameCopy(w'.mem, w.mem), w'.pc \in {"status", "labels", "pki"},
             RetryInv', NativeInv'
      PROVE  PlaneInv'
    <2>1. ManagerTypes' /\ SeenInv' /\ MemInv' /\ FinalizerInv' /\ NestedTypes' /\ CapiInv'
        BY <1>0, <1>1, <1>4, NativeStep DEF Making
    <2>2. AliyunInv' /\ PlaneTypes'
        BY <1>0, <1>1, <1>4 DEF AliyunInv, PlaneTypes, PlaneInv, OfNative
    <2>3. Untouched' => Untouched
        BY <1>0, <1>1 DEF Untouched
    <2>4. ServedInv'
        BY <1>0, <1>1, <1>2, <2>1, <2>3, KeepServed DEF PlaneInv, OfNative, nestedVars
    <2> QED
        BY <1>4, <2>1, <2>2, <2>4 DEF PlaneInv
<1>5. CASE Succeeds
    <2>1. w' \in Worker /\ SameCopy(w'.mem, w.mem) /\ w'.pc \in {"status", "labels"}
        BY <1>5, SucceedsFacts DEF PlaneInv, ManagerTypes
    <2>2. RetryInv'
        BY <2>1 DEF RetryInv
    <2>3. NativeInv'
        BY <1>1, <2>1, KeepNative DEF PlaneInv
    <2> QED
        BY <1>4, <2>1, <2>2, <2>3
<1>6. CASE w' = [w EXCEPT !.pc = "pki", !.part = 2, !.mem = updateLabelClusterVersionApplied(@)]
    <2>1. /\ w' \in Worker /\ w'.pc = "pki" /\ w'.part = 2 /\ w'.retry = w.retry
          /\ SameCopy(w'.mem, w.mem) /\ w'.mem.status = w.mem.status
        <3>1. 2 \in 1..2
            OBVIOUS
        <3> QED
            BY <1>6, <3>1, AppliedFacts DEF PlaneInv
    <2>2. RetryInv'
        BY <1>0, <2>1 DEF RetryInv, Running
    <2>3. NativeInv'
        <3>1. plane.ns /\ Template(1) # 0 /\ (NoOutage => Up(1))
            BY <1>2, NamesOfParts DEF ServedNative, Complete, Template, Up
        <3>2. \A i \in 1..3 : Before(i)' => i = 1
            BY <2>1 DEF Before
        <3> QED
            BY <1>1, <2>1, <3>1, <3>2 DEF PlaneInv, NativeInv, Template, Up, NoOutage
    <2> QED
        BY <1>4, <2>1, <2>2, <2>3
<1> QED
    BY <1>3, <1>5, <1>6 DEF UpgradeVirtualCluster

\* What one call of createAndApplyPKI issues.
FreshPKI == [ca : 1..8, key : 1..11]
LEMMA IssuedFacts ==
    ASSUME NEW pki \in FreshPKI, NEW s \in SecretNames
    PROVE  /\ Issued(s, pki) \in PKI /\ Issued(s, pki) # NoPKI
           /\ s # "serviceaccount-rsa" => Issued(s, pki).ca = pki.ca
           /\ s = "serviceaccount-rsa" => Issued(s, pki).key = pki.key
BY NamesOfSecrets DEF Issued, CrtKeyPairToSecret, KubeconfigToSecret, RsaKeyToSecret, PKI, NoPKI, FreshPKI

\* The root CA and the new key, whatever the cache shows.
LEMMA RootCAFacts ==
    ASSUME PlaneTypes, NativeInv, NEW shown \in BOOLEAN
    PROVE  /\ rootCA(shown) \in 1..8 /\ NewKey \in 1..11
           /\ shown /\ plane.secrets["root-ca"] # NoPKI => rootCA(shown) = plane.secrets["root-ca"].ca
<1>1. plane.secrets["root-ca"] \in PKI
    BY NamesOfSecrets DEF PlaneTypes, Plane
<1> QED
    BY <1>1, NewCAType, NewKeyType DEF rootCA, PKI, NativeInv

LEMMA WithSecretsFacts ==
    ASSUME PlaneTypes, NEW pki \in FreshPKI, NEW k \in 0..7, plane' = WithSecrets(k, pki)
    PROVE  /\ plane' \in Plane /\ plane'.ns = plane.ns /\ plane'.sts = plane.sts
           /\ \A s \in SecretNames : plane'.secrets[s] \in {plane.secrets[s], Issued(s, pki)}
           /\ k # 0 => plane'.secrets["root-ca"] = Issued("root-ca", pki)
           /\ k = 7 => \A s \in SecretNames : plane'.secrets[s] = Issued(s, pki)
           /\ k = 0 => plane'.secrets = plane.secrets
<1> DEFINE new == [s \in SecretNames |-> IF \E i \in 1..k : Secrets[i] = s THEN Issued(s, pki) ELSE plane.secrets[s]]
<1>1. plane' = [plane EXCEPT !.secrets = new]
    BY DEF WithSecrets
<1>2. \A s \in SecretNames : Issued(s, pki) \in PKI
    BY IssuedFacts
<1>3. new \in [SecretNames -> PKI]
    BY <1>2 DEF PlaneTypes, Plane
<1>4. k # 0 => new["root-ca"] = Issued("root-ca", pki)
    <2>1. k # 0 => 1 \in 1..k
        OBVIOUS
    <2>2. Secrets[1] = "root-ca"
        BY DEF Secrets
    <2> QED
        BY <2>1, <2>2, NamesOfSecrets
<1>5. k = 7 => \A s \in SecretNames : new[s] = Issued(s, pki)
    BY NamesOfSecrets DEF SecretNames
<1>6. k = 0 => new = plane.secrets
    BY DEF PlaneTypes, Plane
<1>7. \A s \in SecretNames : new[s] \in {plane.secrets[s], Issued(s, pki)}
    OBVIOUS
<1> HIDE DEF new
<1>8. plane' \in Plane /\ plane'.ns = plane.ns /\ plane'.sts = plane.sts /\ plane'.secrets = new
    BY <1>1, <1>3 DEF PlaneTypes, Plane
<1> QED
    BY <1>4, <1>5, <1>6, <1>7, <1>8

\* All secrets have been written: the components are deployed with them.
LEMMA DeployStarts ==
    ASSUME PlaneInv, flavour = "native", w.pc = "pki", OfNative, Counted({}) \/ Counted({"lag"}),
           NEW pki \in FreshPKI, plane' = WithSecrets(7, pki),
           w' = [w EXCEPT !.pc = "deploy", !.pki = pki]
    PROVE  PlaneInv'
<1>1. /\ w' \in Worker /\ w'.pc = "deploy" /\ w'.mem = w.mem /\ w'.retry = w.retry /\ w'.part = w.part
      /\ w'.pki = pki /\ pki.ca # 0 /\ pki.key # 0
    <2>1. pki \in PKI /\ pki.ca # 0 /\ pki.key # 0
        BY DEF PKI, FreshPKI
    <2> QED
        BY <2>1 DEF PlaneInv, ManagerTypes, Worker, Pcs, Making
<1>2. ManagerTypes' /\ SeenInv' /\ MemInv' /\ FinalizerInv' /\ NestedTypes' /\ CapiInv'
    BY <1>1, NativeStep DEF Making, SameCopy
<1>3. RetryInv' /\ AliyunInv'
    BY <1>1 DEF RetryInv, AliyunInv, PlaneInv
<1>4. /\ plane' \in Plane /\ plane'.ns = plane.ns /\ plane'.sts = plane.sts
      /\ \A s \in SecretNames : plane'.secrets[s] = Issued(s, pki)
    <2>1. 7 \in 0..7
        OBVIOUS
    <2> QED
        BY <2>1, WithSecretsFacts DEF PlaneInv
<1>5. \A s \in SecretNames :
          /\ plane'.secrets[s] # NoPKI
          /\ s # "serviceaccount-rsa" => plane'.secrets[s].ca = pki.ca
          /\ s = "serviceaccount-rsa" => plane'.secrets[s].key = pki.key
    BY <1>4, IssuedFacts
<1>6. PlaneTypes'
    BY <1>4 DEF PlaneTypes, PlaneInv, OfNative
<1>7. faults \subseteq faults' /\ ("outage" \in faults' => "outage" \in faults)
    BY DEF Counted
<1>8. NativeInv'
    <2>1. /\ plane'.secrets["root-ca"].ca # 0
          /\ \A s \in SecretNames \ {"serviceaccount-rsa"} :
                 plane'.secrets["root-ca"] # NoPKI /\ plane'.secrets[s].ca = plane'.secrets["root-ca"].ca
        BY <1>1, <1>5, NamesOfSecrets
    <2>2. plane'.ns /\ w'.part \in 1..2
          /\ \A i \in 1..3 : Before(i)' => Template(i)' # 0 /\ (NoOutage' => Up(i)')
        BY <1>1, <1>4, <1>7 DEF PlaneInv, NativeInv, Before, Template, Up, NoOutage
    <2>3. SecretsMade' /\ w'.pki.key # 0 /\ plane'.secrets["serviceaccount-rsa"].key = w'.pki.key
        BY <1>1, <1>5, NamesOfSecrets DEF SecretsMade
    <2>4. \A i \in 2..3 : ~Before(i)'
        BY <2>2 DEF Before
    <2> QED
        BY <1>1, <2>1, <2>2, <2>3, <2>4 DEF NativeInv
<1>9. ServedInv'
    <2> SUFFICES ASSUME AnyRunning' PROVE ServedNative'
        BY DEF ServedInv, OfNative
    <2>1. ServedNative
        BY <1>1 DEF AnyRunning, Running, OfNative, PlaneInv, ServedInv
    <2>2. ~Untouched'
        BY <1>1 DEF Untouched
    <2>3. Complete'
        <3>1. plane'.secrets["root-ca"].ca = pki.ca
            BY <1>5, NamesOfSecrets
        <3>2. \A s \in SecretNames : s = "serviceaccount-rsa" \/ plane'.secrets[s].ca = plane'.secrets["root-ca"].ca
            BY <1>5, <3>1
        <3>3. plane'.ns /\ \A p \in PartNames : plane'.sts[p].template # 0
            BY <1>4, <2>1 DEF ServedNative, Complete
        <3> QED
            BY <1>5, <3>2, <3>3 DEF Complete
    <2> QED
        BY <1>4, <1>7, <2>1, <2>2, <2>3 DEF ServedNative, NoOutage, Up
<1> QED
    BY <1>2, <1>3, <1>6, <1>8, <1>9 DEF PlaneInv

\* A call has failed after some of the secrets.
LEMMA PKIFails ==
    ASSUME PlaneInv, flavour = "native", w.pc = "pki", OfNative, Event("call"), Fails,
           NEW k \in Cuts, plane' = WithSecrets(k, [ca |-> rootCA(TRUE), key |-> NewKey])
    PROVE  PlaneInv'
<1>1. Counted({"call"}) /\ "call" \in faults'
    BY CountedFacts
<1>2. /\ w' \in Worker /\ w'.pc \in {"status", "labels"} /\ SameCopy(w'.mem, w.mem)
      /\ Running(w'.mem) => Running(w.mem)
    BY FailsFacts DEF PlaneInv, ManagerTypes, RetryInv
<1>3. ManagerTypes' /\ SeenInv' /\ MemInv' /\ FinalizerInv' /\ NestedTypes' /\ CapiInv'
    BY <1>1, <1>2, NativeStep DEF Making
<1>4. RetryInv' /\ AliyunInv'
    BY <1>2 DEF RetryInv, AliyunInv
<1> DEFINE pki == [ca |-> rootCA(TRUE), key |-> NewKey]
           ca == pki.ca
<1>5. /\ pki \in FreshPKI /\ ca \in 1..8
      /\ plane.secrets["root-ca"] # NoPKI => ca = plane.secrets["root-ca"].ca
    BY RootCAFacts DEF PlaneInv, FreshPKI
<1>6. /\ plane' \in Plane /\ plane'.ns = plane.ns /\ plane'.sts = plane.sts
      /\ \A s \in SecretNames : plane'.secrets[s] \in {plane.secrets[s], Issued(s, pki)}
      /\ k # 0 => plane'.secrets["root-ca"] = Issued("root-ca", pki)
      /\ k = 0 => plane'.secrets = plane.secrets
    <2>1. k \in 0..7
        BY BoundAssumption
    <2>2. plane' = WithSecrets(k, pki) /\ PlaneTypes
        BY DEF PlaneInv
    <2> HIDE DEF pki
    <2> QED
        BY <1>5, <2>1, <2>2, WithSecretsFacts
<1> HIDE DEF pki
<1>7. \A s \in SecretNames : Issued(s, pki) # NoPKI /\ (s # "serviceaccount-rsa" => Issued(s, pki).ca = ca)
    BY <1>5, IssuedFacts
<1> HIDE DEF ca
<1>8. PlaneTypes'
    BY <1>6 DEF PlaneTypes, PlaneInv, OfNative
<1>9. "lag" \in faults' <=> "lag" \in faults
    BY <1>1 DEF Counted
<1>10. /\ plane'.secrets["root-ca"] # NoPKI => plane'.secrets["root-ca"].ca = ca /\ ca # 0
       /\ "lag" \in faults \/ \A s \in SecretNames \ {"serviceaccount-rsa"} :
              plane'.secrets[s] # NoPKI => plane'.secrets["root-ca"] # NoPKI /\ plane'.secrets[s].ca = ca
    <2>1. plane'.secrets["root-ca"] # NoPKI => plane'.secrets["root-ca"].ca = ca /\ ca # 0
        BY <1>5, <1>6, <1>7, NamesOfSecrets
    <2>2. ASSUME "lag" \notin faults, NEW s \in SecretNames \ {"serviceaccount-rsa"}, plane'.secrets[s] # NoPKI
          PROVE  plane'.secrets["root-ca"] # NoPKI /\ plane'.secrets[s].ca = ca
        <3>1. plane.secrets[s] # NoPKI => plane.secrets["root-ca"] # NoPKI /\ plane.secrets[s].ca = ca
            BY <1>5, <2>2 DEF PlaneInv, NativeInv
        <3>2. CASE k = 0
            BY <1>6, <2>2, <3>1, <3>2
        <3>3. CASE k # 0
            BY <1>6, <1>7, <2>2, <3>1, <3>3, NamesOfSecrets
        <3> QED
            BY <3>2, <3>3
    <2> QED
        BY <2>1, <2>2
<1>11. NativeInv'
    BY <1>2, <1>9, <1>10 DEF NativeInv
<1>12. ServedInv'
    <2> SUFFICES ASSUME AnyRunning' PROVE ServedNative'
        BY DEF ServedInv, OfNative
    <2>1. ServedNative
        BY <1>2 DEF AnyRunning, Running, OfNative, PlaneInv, ServedInv
    <2>2. ~Untouched' /\ (NoOutage' => NoOutage)
        BY <1>1 DEF Untouched, NoOutage, Counted
    <2>3. \A s \in SecretNames : plane'.secrets[s] # NoPKI
        BY <1>6, <1>7, <2>1 DEF ServedNative, Complete
    <2>4. Complete'
        <3>1. \A s \in SecretNames : s = "serviceaccount-rsa" \/ "lag" \in faults'
                                     \/ plane'.secrets[s].ca = plane'.secrets["root-ca"].ca
            BY <1>9, <1>10, <2>3, NamesOfSecrets
        <3> QED
            BY <1>6, <2>1, <2>3, <3>1 DEF ServedNative, Complete
    <2> QED
        BY <1>6, <2>1, <2>2, <2>4 DEF ServedNative, Up
<1> QED
    BY <1>3, <1>4, <1>8, <1>11, <1>12 DEF PlaneInv

LEMMA createAndApplyPKIKeeps ==
    ASSUME PlaneInv, createAndApplyPKI \/ createAndApplyPKILags
    PROVE  PlaneInv'
<1>1. flavour = "native" /\ w.pc = "pki" /\ OfNative
    BY DEF createAndApplyPKI, createAndApplyPKILags, At
<1>2. \A shown \in BOOLEAN : [ca |-> rootCA(shown), key |-> NewKey] \in FreshPKI
    BY RootCAFacts DEF PlaneInv, FreshPKI
<1>3. ASSUME NEW shown \in BOOLEAN, Counted({}) \/ Counted({"lag"}),
             plane' = WithSecrets(Len(Secrets), [ca |-> rootCA(shown), key |-> NewKey]),
             w' = [w EXCEPT !.pc = "deploy", !.pki = [ca |-> rootCA(shown), key |-> NewKey]]
      PROVE  PlaneInv'
    <2> DEFINE pki == [ca |-> rootCA(shown), key |-> NewKey]
    <2>1. pki \in FreshPKI /\ plane' = WithSecrets(7, pki) /\ w' = [w EXCEPT !.pc = "deploy", !.pki = pki]
        BY <1>2, <1>3, NamesOfSecrets
    <2> HIDE DEF pki
    <2> QED
        BY <1>1, <1>3, <2>1, DeployStarts
<1>4. CASE createAndApplyPKILags
    BY <1>3, <1>4, CountedFacts DEF createAndApplyPKILags
<1>5. CASE createAndApplyPKI
    <2>1. \/ /\ plane' = WithSecrets(Len(Secrets), [ca |-> rootCA(TRUE), key |-> NewKey]) /\ NoEvent
             /\ w' = [w EXCEPT !.pc = "deploy", !.pki = [ca |-> rootCA(TRUE), key |-> NewKey]]
          \/ /\ \E k \in Cuts : plane' = WithSecrets(k, [ca |-> rootCA(TRUE), key |-> NewKey])
             /\ Event("call") /\ Fails
        BY <1>5 DEF createAndApplyPKI, createOrUpdatePKISecrets
    <2> QED
        BY <1>1, <1>3, <2>1, CountedFacts, PKIFails
<1> QED
    BY <1>4, <1>5

\* The template of the component is set; nothing else of the plane changes.
LEMMA DeployFacts ==
    ASSUME PlaneInv, w.pc = "deploy",
           plane' = [plane EXCEPT !.sts[Parts[w.part]].template = Complemented(Parts[w.part])]
    PROVE  /\ plane' \in Plane /\ plane'.ns = plane.ns /\ plane'.secrets = plane.secrets
           /\ \A p \in PartNames : plane'.sts[p].up = plane.sts[p].up
           /\ \A p \in PartNames \ {Parts[w.part]} : plane'.sts[p] = plane.sts[p]
           /\ Parts[w.part] \in PartNames /\ w.part \in 1..3
           /\ plane'.sts[Parts[w.part]].template # 0
           /\ w.part # 1 => plane'.sts[Parts[w.part]].template = w.pki.key
<1> DEFINE p == Parts[w.part]
           t == Complemented(p)
<1>1. w.part \in 1..3 /\ w.pki.key # 0 /\ w.pki.key \in 0..11
    BY DEF PlaneInv, NativeInv, ManagerTypes, Worker, PKI
<1>2. p \in PartNames /\ (w.part # 1 => p # "etcd")
    <2>1. w.part = 1 \/ w.part = 2 \/ w.part = 3
        BY <1>1
    <2> QED
        BY <2>1, NamesOfParts
<1>3. t \in 1..11 /\ t # 0 /\ (w.part # 1 => t = w.pki.key)
    BY <1>1, <1>2, NamesOfParts
    DEF Complemented, complementETCDTemplate, complementAPIServerTemplate, complementCtrlMgrTemplate
<1>4. plane.sts \in [PartNames -> StatefulSet] /\ plane \in Plane
    BY DEF PlaneInv, PlaneTypes, Plane
<1> DEFINE sts == [plane.sts EXCEPT ![p].template = t]
<1>5. plane' = [plane EXCEPT !.sts = sts]
    BY <1>4 DEF Plane
<1> HIDE DEF t
<1>6. /\ sts \in [PartNames -> StatefulSet] /\ sts[p].template = t
      /\ \A q \in PartNames : sts[q].up = plane.sts[q].up
      /\ \A q \in PartNames \ {p} : sts[q] = plane.sts[q]
    BY <1>2, <1>3, <1>4 DEF StatefulSet
<1> HIDE DEF sts, p
<1>7. plane' \in Plane /\ plane'.ns = plane.ns /\ plane'.secrets = plane.secrets /\ plane'.sts = sts
    BY <1>4, <1>5, <1>6 DEF Plane
<1>8. plane'.sts[p].template = t
    BY <1>6, <1>7
<1> QED
    BY <1>1, <1>2, <1>3, <1>6, <1>7, <1>8 DEF p

\* The components that have templates keep some.
LEMMA DeployServes ==
    ASSUME PlaneInv, flavour = "native", OfNative, w.pc = "deploy", ~Untouched', Counted({}) \/ Counted({"call"}),
           plane' = [plane EXCEPT !.sts[Parts[w.part]].template = Complemented(Parts[w.part])],
           Running(w'.mem) => Running(w.mem)
    PROVE  ServedInv'
<1> SUFFICES ASSUME AnyRunning' PROVE ServedNative'
    BY DEF ServedInv, OfNative
<1>1. ServedNative
    BY DEF AnyRunning, Running, OfNative, PlaneInv, ServedInv
<1>2. faults \subseteq faults' /\ (NoOutage' => NoOutage)
    BY DEF Counted, NoOutage
<1>3. \A p \in PartNames : plane'.sts[p].template # 0 /\ plane'.sts[p].up = plane.sts[p].up
    BY <1>1, DeployFacts DEF ServedNative, Complete
<1>4. Complete'
    BY <1>1, <1>2, <1>3, DeployFacts DEF ServedNative, Complete
<1>5. NoOutage' => \A i \in 1..3 : Up(i)'
    <2>1. \A i \in 1..3 : Parts[i] \in PartNames
        BY NamesOfParts
    <2> QED
        BY <1>1, <1>2, <1>3, <2>1 DEF ServedNative, Up
<1> QED
    BY <1>4, <1>5 DEF ServedNative

LEMMA deployComponentKeeps ==
    ASSUME PlaneInv, deployComponent
    PROVE  PlaneInv'
<1>0. flavour = "native" /\ w.pc = "deploy" /\ OfNative /\ w.pc \in Making /\ (w.retry > 0 \/ Running(w.mem))
    BY DEF deployComponent, At, Making, PlaneInv, RetryInv
<1> DEFINE Deployed == plane' = [plane EXCEPT !.sts[Parts[w.part]].template = Complemented(Parts[w.part])]
<1>1. CASE Deployed /\ Goes("wait") /\ NoEvent
    <2>1. w' \in Worker /\ w'.pc = "wait" /\ w'.mem = w.mem /\ w'.retry = w.retry /\ w'.part = w.part /\ w'.pki = w.pki
        BY <1>1, GoesFacts DEF PlaneInv, ManagerTypes, Pcs, Making
    <2>2. Counted({}) /\ faults' = faults
        BY <1>1, CountedFacts
    <2>3. ManagerTypes' /\ SeenInv' /\ MemInv' /\ FinalizerInv' /\ NestedTypes' /\ CapiInv'
        BY <1>0, <2>1, <2>2, NativeStep DEF Making, SameCopy
    <2>4. RetryInv' /\ AliyunInv'
        BY <1>0, <2>1 DEF RetryInv, AliyunInv
    <2>5. PlaneTypes'
        BY <1>0, <1>1, DeployFacts DEF PlaneTypes, PlaneInv, OfNative
    <2>6. NativeInv'
        <3>1. \A i \in 1..3 : Before(i)' => Template(i)' = Template(i) /\ Up(i)' = Up(i) /\ Before(i)
            <4>1. \A i \in 1..3 : i < w.part => Parts[i] \in PartNames \ {Parts[w.part]}
                BY <1>0, <1>1, DeployFacts, NamesOfParts
            <4> QED
                BY <1>0, <1>1, <2>1, <4>1, DeployFacts DEF Before, Template, Up
        <3>2. Template(w.part)' # 0 /\ (w.part # 1 => Template(w.part)' = w.pki.key)
            BY <1>0, <1>1, <2>1, DeployFacts DEF Template
        <3>3. plane'.secrets = plane.secrets /\ plane'.ns = plane.ns
            BY <1>0, <1>1, DeployFacts
        <3>4. \A i \in 1..3 : Before(i)' => Template(i)' # 0 /\ (NoOutage' => Up(i)')
            BY <1>0, <2>2, <3>1 DEF PlaneInv, NativeInv, NoOutage
        <3>5. \A i \in 2..3 : Before(i)' => Template(i)' = w'.pki.key
            BY <1>0, <2>1, <3>1 DEF PlaneInv, NativeInv
        <3> QED
            BY <1>0, <2>1, <2>2, <3>2, <3>3, <3>4, <3>5 DEF PlaneInv, NativeInv, SecretsMade, Template
    <2>7. ServedInv'
        BY <1>0, <1>1, <2>1, <2>2, DeployServes DEF Untouched
    <2> QED
        BY <2>3, <2>4, <2>5, <2>6, <2>7 DEF PlaneInv
<1>2. CASE (Deployed \/ plane' = plane) /\ Event("call") /\ Fails
    <2>1. Counted({"call"}) /\ "call" \in faults'
        BY <1>2, CountedFacts
    <2>2. ~Unhurt' /\ ~Untouched'
        BY <2>1 DEF Unhurt, Untouched
    <2>3. CASE plane' = plane
        BY <1>0, <1>2, <2>1, <2>2, <2>3, NativeFailsEarly
    <2>4. CASE Deployed
        <3>1. /\ w' \in Worker /\ w'.pc \in {"status", "labels"} /\ SameCopy(w'.mem, w.mem)
              /\ Running(w'.mem) => Running(w.mem)
            BY <1>0, <1>2, FailsFacts DEF PlaneInv, ManagerTypes
        <3>2. ManagerTypes' /\ SeenInv' /\ MemInv' /\ FinalizerInv' /\ NestedTypes' /\ CapiInv'
            BY <1>0, <2>1, <3>1, NativeStep
        <3>3. RetryInv' /\ AliyunInv'
            BY <3>1 DEF RetryInv, AliyunInv
        <3>4. PlaneTypes'
            BY <1>0, <2>4, DeployFacts DEF PlaneTypes, PlaneInv, OfNative
        <3>5. plane'.secrets = plane.secrets
            BY <1>0, <2>4, DeployFacts
        <3>6. NativeInv'
            BY <2>1, <3>1, <3>5 DEF PlaneInv, NativeInv, Counted
        <3>7. ServedInv'
            BY <1>0, <2>1, <2>2, <2>4, <3>1, DeployServes
        <3> QED
            BY <3>2, <3>3, <3>4, <3>6, <3>7 DEF PlaneInv
    <2> QED
        BY <1>2, <2>3, <2>4
<1> QED
    BY <1>1, <1>2 DEF deployComponent

LEMMA WaitStatefulSetReadyKeeps ==
    ASSUME PlaneInv, WaitStatefulSetReady
    PROVE  PlaneInv'
<1>0. /\ flavour = "native" /\ w.pc = "wait" /\ OfNative /\ w.pc \in Making /\ (w.retry > 0 \/ Running(w.mem))
      /\ plane' = plane /\ w.part \in 1..3
    BY DEF WaitStatefulSetReady, At, Making, PlaneInv, RetryInv, NativeInv
<1>1. Counted({}) /\ faults' = faults
    BY CountedFacts DEF WaitStatefulSetReady
<1>2. CASE ~Up(w.part)
    <2>1. Fails
        BY <1>2 DEF WaitStatefulSetReady, Up
    <2>2. AnyRunning => ~Unhurt'
        BY <1>0, <1>1, <1>2 DEF PlaneInv, ServedInv, ServedNative, NoOutage, Unhurt
    <2> QED
        BY <1>0, <1>1, <2>1, <2>2, NativeFailsEarly
<1>3. CASE w.part < Len(Parts) /\ w' = [w EXCEPT !.pc = "deploy", !.part = @ + 1] /\ Up(w.part)
    <2>1. /\ w' \in Worker /\ w'.pc = "deploy" /\ w'.mem = w.mem /\ w'.retry = w.retry /\ w'.pki = w.pki
          /\ w'.part = w.part + 1 /\ w'.part \in 1..3
        <3>1. w.part + 1 \in 1..3
            BY <1>0, <1>3, NamesOfParts
        <3> DEFINE next == w.part + 1
        <3>2. next \in 1..3 /\ next \in 0..3 /\ w' = [w EXCEPT !.pc = "deploy", !.part = next]
            BY <1>3, <3>1
        <3> HIDE DEF next
        <3>3. /\ w' \in Worker /\ w'.pc = "deploy" /\ w'.mem = w.mem /\ w'.retry = w.retry /\ w'.pki = w.pki
              /\ w'.part = next
            BY <3>2 DEF PlaneInv, ManagerTypes, Worker, Pcs, Making
        <3> QED
            BY <3>2, <3>3 DEF next
    <2>2. ManagerTypes' /\ SeenInv' /\ MemInv' /\ FinalizerInv' /\ NestedTypes' /\ CapiInv'
        BY <1>0, <1>1, <2>1, NativeStep DEF Making, SameCopy
    <2>3. RetryInv' /\ AliyunInv' /\ PlaneTypes'
        BY <1>0, <2>1 DEF RetryInv, AliyunInv, PlaneTypes, PlaneInv, OfNative
    <2>4. NativeInv'
        <3>1. \A i \in 1..3 : Before(i)' => Before(i) \/ i = w.part
            BY <1>0, <2>1 DEF Before
        <3>2. \A i \in 1..3 : Before(i)' => Template(i)' # 0 /\ (NoOutage' => Up(i)')
            BY <1>0, <1>1, <1>3, <3>1 DEF PlaneInv, NativeInv, Template, Up, NoOutage
        <3>3. \A i \in 2..3 : Before(i)' => Template(i)' = w'.pki.key
            BY <1>0, <2>1, <3>1 DEF PlaneInv, NativeInv, Template
        <3> QED
            BY <1>0, <1>1, <2>1, <3>2, <3>3 DEF PlaneInv, NativeInv, SecretsMade
    <2>5. ServedInv'
        <3>1. AnyRunning' => AnyRunning
            BY <1>0, <2>1 DEF AnyRunning, OfNative, Running
        <3>2. ~Untouched'
            BY <2>1 DEF Untouched
        <3> QED
            BY <1>0, <1>1, <2>2, <3>1, <3>2, KeepServed DEF PlaneInv, OfNative, nestedVars
    <2> QED
        BY <2>2, <2>3, <2>4, <2>5 DEF PlaneInv
<1>4. CASE w.part = Len(Parts) /\ Succeeds /\ Up(w.part)
    <2>1. /\ w' \in Worker /\ w'.pc \in {"status", "labels"} /\ SameCopy(w'.mem, w.mem)
        BY <1>4, SucceedsFacts DEF PlaneInv, ManagerTypes
    <2>2. ManagerTypes' /\ SeenInv' /\ MemInv' /\ FinalizerInv' /\ NestedTypes' /\ CapiInv'
        BY <1>0, <1>1, <2>1, NativeStep
    <2>3. RetryInv' /\ AliyunInv' /\ PlaneTypes'
        BY <1>0, <2>1 DEF RetryInv, AliyunInv, PlaneTypes, PlaneInv, OfNative
    <2>4. NativeInv'
        BY <1>0, <1>1, <2>1, KeepNative DEF PlaneInv
    <2>5. w.part = 3 /\ Before(1) /\ Before(2)
        BY <1>4, NamesOfParts DEF Before
    <2>6. \A i \in 1..3 : Template(i) # 0 /\ (NoOutage => Up(i))
        BY <1>0, <1>4, <2>5 DEF PlaneInv, NativeInv
    <2>7. Complete
        <3>1. \A p \in PartNames : \E i \in 1..3 : p = Parts[i]
            BY NamesOfParts
        <3>2. \A p \in PartNames : plane.sts[p].template # 0
            BY <2>6, <3>1 DEF Template
        <3> QED
            BY <1>0, <3>2 DEF PlaneInv, NativeInv, SecretsMade, Complete
    <2>8. Agree
        <3>1. Template(2) = w.pki.key /\ Template(3) = w.pki.key
            BY <1>0, <2>5 DEF PlaneInv, NativeInv
        <3> QED
            BY <1>0, <3>1, NamesOfParts DEF PlaneInv, NativeInv, Template, Agree
    <2>9. ServedInv'
        BY <1>0, <1>1, <2>6, <2>7, <2>8 DEF ServedInv, ServedNative, Complete, Agree, NoOutage, Up, OfNative
    <2> QED
        BY <2>2, <2>3, <2>4, <2>9 DEF PlaneInv
<1> QED
    BY <1>2, <1>3, <1>4 DEF WaitStatefulSetReady, Up

-----------------------------------------------------------------------------
(* The provisioner of the cloud *)

LEMMA AliyunStep ==
    ASSUME PlaneInv, flavour = "aliyun", OfAliyun, UNCHANGED <<vc, old>>,
           Counted({}) \/ Counted({"call"}) \/ Counted({"lost"}),
           w.pc \in {"create", "upgrade", "poll", "store", "annotate"},
           w' \in Worker, w'.pc \in {"poll", "store", "annotate", "status", "labels"},
           SameCopy(w'.mem, w.mem), Running(w'.mem) => Running(w.mem),
           w'.pc \in {"poll", "store", "annotate"} => w'.retry > 0,
           cloud' \in Cloud, cloud.ns => cloud'.ns, cloud.secret => cloud'.secret,
           w'.pc = "annotate" => cloud'.ns /\ cloud'.secret
    PROVE  PlaneInv'
<1>1. faults \subseteq faults' /\ \A k \in {"early delete", "unregistered"} : k \in faults' => k \in faults
    BY DEF Counted
<1>2. UNCHANGED <<flavour, vc, seen, old, version, cluster, plane, ncp>> /\ UNCHANGED nestedVars
    BY DEF OfAliyun, nestedVars
<1>3. NestedTypes' /\ CapiInv'
    BY <1>1, <1>2, KeepNested DEF PlaneInv
<1>4. ManagerTypes' /\ SeenInv' /\ MemInv' /\ FinalizerInv'
    BY <1>1, <1>2, WorkerStep DEF PlaneInv, Making
<1>5. RetryInv' /\ AliyunInv' /\ PlaneTypes'
    BY <1>2 DEF RetryInv, AliyunInv, PlaneTypes, PlaneInv
<1>6. NativeInv'
    BY <1>1, <1>2, KeepNative DEF PlaneInv
<1>7. AnyRunning' => AnyRunning
    BY <1>2 DEF AnyRunning, Running
<1>8. Untouched' => Untouched
    BY <1>1 DEF Untouched
<1>9. ServedInv'
    BY <1>1, <1>2, <1>4, <1>7, <1>8, KeepServed DEF PlaneInv
<1> QED
    BY <1>3, <1>4, <1>5, <1>6, <1>9 DEF PlaneInv

LEMMA AliyunFails ==
    ASSUME PlaneInv, flavour = "aliyun", OfAliyun, UNCHANGED <<vc, old>>, Fails,
           NoEvent \/ Event("call") \/ Event("lost"),
           w.pc \in {"create", "upgrade", "poll", "store", "annotate"},
           cloud' \in Cloud, cloud.ns => cloud'.ns, cloud.secret => cloud'.secret
    PROVE  PlaneInv'
<1>1. w.retry > 0 \/ Running(w.mem)
    BY DEF PlaneInv, RetryInv
<1>2. /\ w' \in Worker /\ w'.pc \in {"status", "labels"} /\ SameCopy(w'.mem, w.mem)
      /\ Running(w'.mem) => Running(w.mem)
    BY <1>1, FailsFacts DEF PlaneInv, ManagerTypes
<1>3. Counted({}) \/ Counted({"call"}) \/ Counted({"lost"})
    BY CountedFacts
<1> QED
    BY <1>2, <1>3, AliyunStep

LEMMA AliyunGoes ==
    ASSUME PlaneInv, flavour = "aliyun", OfAliyun, UNCHANGED <<vc, old>>, NoEvent,
           w.pc \in {"create", "poll", "store", "annotate"},
           NEW pc \in {"poll", "store", "annotate"}, Goes(pc),
           cloud' \in Cloud, cloud.ns => cloud'.ns, cloud.secret => cloud'.secret,
           pc = "annotate" => cloud'.ns /\ cloud'.secret
    PROVE  PlaneInv'
<1>1. w.retry > 0
    BY DEF PlaneInv, RetryInv
<1>2. w' \in Worker /\ w'.pc = pc /\ w'.mem = w.mem /\ w'.retry = w.retry
    BY GoesFacts DEF PlaneInv, ManagerTypes, Pcs, Making
<1>3. Counted({}) /\ SameCopy(w'.mem, w.mem)
    BY <1>2, CountedFacts DEF SameCopy
<1> QED
    BY <1>1, <1>2, <1>3, AliyunStep

LEMMA CreateASKKeeps ==
    ASSUME PlaneInv, CreateASK
    PROVE  PlaneInv'
<1>1. flavour = "aliyun" /\ w.pc = "create" /\ OfAliyun /\ UNCHANGED <<vc, old>>
    BY DEF CreateASK, At
<1>2. cloud' = cloud \/ cloud' = SendCreationRequest
    BY DEF CreateASK, AccessFails
<1>3. cloud' \in Cloud /\ cloud'.ns = cloud.ns /\ cloud'.secret = cloud.secret
    BY <1>2 DEF SendCreationRequest, PlaneInv, PlaneTypes, Cloud
<1>4. CASE Fails /\ (NoEvent \/ Event("call") \/ Event("lost"))
    BY <1>1, <1>3, <1>4, AliyunFails
<1>5. CASE Goes("poll") /\ NoEvent
    BY <1>1, <1>3, <1>5, AliyunGoes
<1> QED
    BY <1>4, <1>5 DEF CreateASK, AccessFails

LEMMA PollASKKeeps ==
    ASSUME PlaneInv, PollASK \/ UpgradeNotImplemented
    PROVE  PlaneInv'
<1>1. flavour = "aliyun" /\ w.pc \in {"poll", "upgrade"} /\ OfAliyun /\ UNCHANGED <<vc, old, cloud>> /\ cloud' \in Cloud
    BY DEF PollASK, UpgradeNotImplemented, At, PlaneInv, PlaneTypes
<1>2. CASE Fails /\ (NoEvent \/ Event("call"))
    BY <1>1, <1>2, AliyunFails
<1>3. CASE w.pc = "poll" /\ Goes("store") /\ NoEvent
    BY <1>1, <1>3, AliyunGoes
<1> QED
    BY <1>2, <1>3 DEF PollASK, UpgradeNotImplemented, At

LEMMA StoreKubeconfigKeeps ==
    ASSUME PlaneInv, StoreKubeconfig
    PROVE  PlaneInv'
<1>1. flavour = "aliyun" /\ w.pc = "store" /\ OfAliyun /\ UNCHANGED <<vc, old>>
    BY DEF StoreKubeconfig, At
<1>2. CASE cloud' = [CreateRootNS(cloud) EXCEPT !.secret = TRUE] /\ Goes("annotate") /\ NoEvent
    <2>1. cloud' \in Cloud /\ cloud'.ns /\ cloud'.secret
        BY <1>2 DEF CreateRootNS, PlaneInv, PlaneTypes, Cloud
    <2> QED
        BY <1>1, <1>2, <2>1, AliyunGoes
<1>3. CASE cloud' \in {cloud, CreateRootNS(cloud)} /\ Fails /\ Event("call")
    <2>1. cloud' \in Cloud /\ (cloud.ns => cloud'.ns) /\ (cloud.secret => cloud'.secret)
        BY <1>3 DEF CreateRootNS, PlaneInv, PlaneTypes, Cloud
    <2> QED
        BY <1>1, <1>3, <2>1, AliyunFails
<1> QED
    BY <1>2, <1>3 DEF StoreKubeconfig

\* A write by others makes the copies outdated, unless it changes nothing.
OldFollows == (vc' = vc /\ old' = old) \/ ("seen" \in old' /\ (Working => "mem" \in old'))
LEMMA OthersFacts ==
    ASSUME NEW v, Others(v)
    PROVE  vc' = Stored(v) /\ OldFollows
<1>1. Working => {"mem" : x \in {w.pc} \ {"idle", "boot", "register"}} = {"mem"}
    BY DEF Working, Resting
<1> QED
    BY <1>1 DEF Others, OldFollows

\* The object is changed in what no finalizer depends on.
LEMMA ObjectStep ==
    ASSUME ManagerTypes, SeenInv, MemInv, FinalizerInv,
           UNCHANGED <<flavour, seen, cluster, cloud>>, OldFollows,
           vc'.there = vc.there, vc'.fin = vc.fin, vc'.deleting = vc.deleting,
           faults \subseteq faults', \A k \in {"early delete", "unregistered"} : k \in faults' => k \in faults,
           \/ w' = w
           \/ /\ w.pc \in Making /\ w'.pc \in Making \cup {"status", "labels"}
              /\ SameCopy(w'.mem, w.mem)
    PROVE  SeenInv' /\ MemInv' /\ FinalizerInv'
<1>1. SeenInv'
    BY DEF SeenInv, Sound, OldFollows
<1>2. CASE w' = w
    <2>1. MemInv'
        BY <1>2 DEF MemInv, OldFollows, Working
    <2>2. FinalizerInv'
        BY <1>2 DEF FinalizerInv, Registered, Dropped
    <2> QED
        BY <1>1, <2>1, <2>2
<1>3. CASE /\ w.pc \in Making /\ w'.pc \in Making \cup {"status", "labels"}
           /\ SameCopy(w'.mem, w.mem)
    <2>1. w'.pc \notin Resting \cup {"register finalizer", "unregister", "delete"}
          /\ w.pc \notin Resting \cup {"register finalizer", "unregister", "delete"}
        BY <1>3 DEF Resting, Making
    <2>2. MemInv'
        BY <1>3, <2>1 DEF MemInv, OldFollows, Working, SameCopy
    <2>3. Registered /\ Registered'
        BY <1>3 DEF FinalizerInv, Registered
    <2>4. vc.there \/ "early delete" \in faults
        BY <2>1 DEF FinalizerInv
    <2>5. FinalizerInv'
        BY <2>1, <2>3, <2>4 DEF FinalizerInv
    <2> QED
        BY <1>1, <2>2, <2>5
<1> QED
    BY <1>2, <1>3

LEMMA AnnotatedFacts ==
    /\ \A k \in 1..3 : Annotated(k) \subseteq vc.ann \cup AnnotationNames /\ vc.ann \subseteq Annotated(k)
    /\ Annotated(Len(Annotations)) = vc.ann \cup AnnotationNames
    /\ Len(Annotations) = 4
<1>1. Len(Annotations) = 4 /\ DOMAIN Annotations = 1..4
    BY DEF Annotations
<1> QED
    BY <1>1 DEF Annotated, AnnotationNames

\* The object gets annotations.
LEMMA AnnotateStep ==
    ASSUME PlaneInv, flavour = "aliyun", OfAliyun, UNCHANGED cloud, w.pc = "annotate", vc.there,
           NEW ann \in SUBSET AnnotationNames, vc.ann \subseteq ann, Others([vc EXCEPT !.ann = ann]),
           Counted({}) \/ Counted({"call"}),
           w' \in Worker, w'.pc \in {"account", "status", "labels"},
           SameCopy(w'.mem, w.mem), Running(w'.mem) => Running(w.mem),
           w'.pc = "account" => w'.retry > 0 /\ ann = AnnotationNames
    PROVE  PlaneInv'
<1> DEFINE v == [vc EXCEPT !.ann = ann]
<1>1. v \in VCObject /\ v.there = vc.there /\ v.fin = vc.fin /\ v.deleting = vc.deleting
      /\ v.status = vc.status /\ v.ann = ann
    BY DEF PlaneInv, ManagerTypes, VCObject
<1> HIDE DEF v
<1>2. vc' = v /\ OldFollows
    <2>1. Others(v)
        BY DEF v
    <2>2. Stored(v) = v
        BY <1>1 DEF Stored, PlaneInv, SeenInv, Sound
    <2> QED
        BY <2>1, <2>2, OthersFacts
<1>3. faults \subseteq faults' /\ \A k \in {"early delete", "unregistered"} : k \in faults' => k \in faults
    BY DEF Counted
<1>4. UNCHANGED <<flavour, seen, version, cluster, plane, ncp>> /\ UNCHANGED nestedVars
    BY DEF OfAliyun, nestedVars
<1>5. NestedTypes' /\ CapiInv'
    BY <1>3, <1>4, KeepNested DEF PlaneInv
<1>6. ManagerTypes'
    BY <1>1, <1>2, <1>4 DEF PlaneInv, ManagerTypes
<1>7. SeenInv' /\ MemInv' /\ FinalizerInv'
    BY <1>1, <1>2, <1>3, <1>4, ObjectStep DEF PlaneInv, Making
<1>8. RetryInv' /\ AliyunInv' /\ PlaneTypes'
    BY <1>1, <1>2, <1>4 DEF RetryInv, AliyunInv, PlaneTypes, PlaneInv
<1>9. NativeInv'
    BY <1>3, <1>4, KeepNative DEF PlaneInv
<1>10. AnyRunning' => AnyRunning
    BY <1>1, <1>2, <1>4 DEF AnyRunning, Running
<1>11. Untouched' => Untouched
    BY <1>3 DEF Untouched
<1>12. ServedInv'
    BY <1>1, <1>2, <1>3, <1>4, <1>6, <1>10, <1>11, KeepServed DEF PlaneInv
<1> QED
    BY <1>5, <1>6, <1>7, <1>8, <1>9, <1>12 DEF PlaneInv

LEMMA AnnotateVCKeeps ==
    ASSUME PlaneInv, AnnotateVC
    PROVE  PlaneInv'
<1>1. flavour = "aliyun" /\ w.pc = "annotate" /\ OfAliyun /\ UNCHANGED cloud /\ cloud' \in Cloud /\ w.retry > 0
    BY DEF AnnotateVC, At, PlaneInv, PlaneTypes, RetryInv
<1>2. vc.ann \subseteq AnnotationNames /\ w \in Worker
    BY DEF PlaneInv, ManagerTypes, VCObject
<1>3. CASE /\ vc.there /\ Others([vc EXCEPT !.ann = Annotated(Len(Annotations))]) /\ Goes("account") /\ NoEvent
    <2>1. w' \in Worker /\ w'.pc = "account" /\ w'.mem = w.mem /\ w'.retry = w.retry
        BY <1>2, <1>3, GoesFacts DEF Pcs, Making
    <2>2. Annotated(Len(Annotations)) = AnnotationNames
        BY <1>2, AnnotatedFacts
    <2>3. Counted({}) /\ SameCopy(w'.mem, w.mem)
        BY <1>3, <2>1, CountedFacts DEF SameCopy
    <2>4. Others([vc EXCEPT !.ann = AnnotationNames])
        BY <1>3, <2>2
    <2> QED
        BY <1>1, <1>2, <1>3, <2>1, <2>3, <2>4, AnnotateStep
<1>4. CASE /\ vc.there /\ \E k \in 1..(Len(Annotations) - 1) : Others([vc EXCEPT !.ann = Annotated(k)])
           /\ Event("call") /\ Fails
    <2>1. PICK k \in 1..3 : Others([vc EXCEPT !.ann = Annotated(k)])
        BY <1>4, AnnotatedFacts
    <2>2. Annotated(k) \in SUBSET AnnotationNames /\ vc.ann \subseteq Annotated(k)
        BY <1>2, AnnotatedFacts
    <2>3. /\ w' \in Worker /\ w'.pc \in {"status", "labels"} /\ SameCopy(w'.mem, w.mem)
          /\ Running(w'.mem) => Running(w.mem)
        BY <1>1, <1>2, <1>4, FailsFacts
    <2>4. Counted({"call"})
        BY <1>4, CountedFacts
    <2> QED
        BY <1>1, <1>4, <2>1, <2>2, <2>3, <2>4, AnnotateStep
<1>5. CASE Fails /\ NoEvent /\ UNCHANGED <<vc, old>>
    BY <1>1, <1>5, AliyunFails
<1> QED
    BY <1>3, <1>4, <1>5 DEF AnnotateVC

LEMMA DeleteNodeControllerKeeps ==
    ASSUME PlaneInv, DeleteNodeController
    PROVE  PlaneInv'
<1>1. /\ flavour = "aliyun" /\ w.pc = "account" /\ OfAliyun /\ UNCHANGED <<vc, cloud>> /\ w.retry > 0
      /\ old' = (old \ {"mem"}) \cup {"mem" : x \in old \cap {"seen"}}
    BY DEF DeleteNodeController, At, PlaneInv, RetryInv
<1>2. Counted({}) \/ Counted({"call"})
    BY CountedFacts DEF DeleteNodeController
<1>3. faults \subseteq faults' /\ \A k \in {"early delete", "unregistered"} : k \in faults' => k \in faults
    BY <1>2 DEF Counted
<1>4. UNCHANGED <<flavour, vc, seen, version, cluster, plane, ncp, cloud>> /\ UNCHANGED nestedVars
    BY <1>1 DEF OfAliyun, nestedVars
<1>5. w' \in Worker /\ w'.pc = "status" /\ SameCopy(w'.mem, seen)
    <2>1. ASSUME NEW phase \in Phases, NEW retry \in 0..3, NEW note \in Notes,
                 w' = [[w EXCEPT !.mem = seen] EXCEPT !.pc = "status", !.mem = SetVCStatus(@, phase, retry, note)]
          PROVE  w' \in Worker /\ w'.pc = "status" /\ SameCopy(w'.mem, seen)
        <3> DEFINE m == SetVCStatus(seen, phase, retry, note)
        <3>1. m \in VCObject /\ SameCopy(m, seen)
            BY StatusFacts DEF PlaneInv, ManagerTypes
        <3>2. w' = [w EXCEPT !.pc = "status", !.mem = m]
            BY <2>1 DEF PlaneInv, ManagerTypes, Worker
        <3> HIDE DEF m
        <3> QED
            BY <3>1, <3>2 DEF PlaneInv, ManagerTypes, Worker, Pcs, Updates
    <2>2. {"Running", "Pending"} \subseteq Phases /\ {"running", "failed"} \subseteq Notes /\ 0 \in 0..3 /\ w.retry - 1 \in 0..3
        BY <1>1 DEF Phases, Notes, PlaneInv, ManagerTypes, Worker
    <2>3. \E phase \in Phases, retry \in 0..3, note \in Notes :
             w' = [[w EXCEPT !.mem = seen] EXCEPT !.pc = "status", !.mem = SetVCStatus(@, phase, retry, note)]
        BY <2>2 DEF DeleteNodeController
    <2> QED
        BY <2>1, <2>3
<1>6. NestedTypes' /\ CapiInv'
    BY <1>3, <1>4, KeepNested DEF PlaneInv
<1>7. ManagerTypes' /\ SeenInv'
    BY <1>1, <1>4, <1>5 DEF PlaneInv, ManagerTypes, SeenInv, Sound
<1>8. MemInv'
    <2>1. "mem" \notin old' => "seen" \notin old
        BY <1>1
    <2> QED
        BY <1>4, <1>5, <2>1 DEF PlaneInv, SeenInv, MemInv, SameCopy
<1>9. FinalizerInv'
    <2>1. vc.there \/ "early delete" \in faults
        BY <1>1 DEF PlaneInv, FinalizerInv, Resting
    <2> QED
        BY <1>3, <1>4, <1>5, <2>1 DEF PlaneInv, FinalizerInv, Registered, Making
<1>10. RetryInv' /\ AliyunInv' /\ PlaneTypes'
    BY <1>4, <1>5 DEF RetryInv, AliyunInv, PlaneTypes, PlaneInv
<1>11. NativeInv'
    BY <1>3, <1>4, <1>5, KeepNative DEF PlaneInv
<1>12. ServedInv'
    <2>1. ServedAliyun
        BY <1>1 DEF PlaneInv, AliyunInv, ServedAliyun
    <2> QED
        BY <1>1, <1>4, <2>1 DEF ServedInv, ServedAliyun, AnnotationNames
<1> QED
    BY <1>6, <1>7, <1>8, <1>9, <1>10, <1>11, <1>12 DEF PlaneInv

-----------------------------------------------------------------------------
(* The end of a reconcile, and deletion *)

\* What a cloud or a Cluster may do without the worker: it is told to go, or goes.
Fading ==
    /\ cloud' \in Cloud /\ cloud'.ns = cloud.ns /\ cloud'.secret = cloud.secret
    /\ cloud'.state # "none" => cloud.state # "none"
    /\ cloud' = cloud \/ cloud'.state \in {"none", "deleting"}
    /\ cluster' = cluster \/ (cluster' = [cluster EXCEPT !.deleting = TRUE] /\ cluster.there)

\* A worker rests, or is about to unregister.
LEMMA RestStep ==
    ASSUME PlaneInv, UNCHANGED <<flavour, vc, seen, version, plane, ncp, nested, parts, reads>>, Fading,
           "seen" \in old' <=> "seen" \in old, "mem" \in old => "mem" \in old' \/ w'.pc \in Resting,
           faults \subseteq faults', \A k \in {"early delete", "unregistered"} : k \in faults' => k \in faults,
           w.pc \notin {"deploy", "wait"}, w' \in Worker, Running(w'.mem) => Running(w.mem),
           \/ w'.pc \in Resting
           \/ /\ w.pc = "delete" /\ w'.pc = "unregister" /\ Dropped'
              /\ w'.mem.there = w.mem.there /\ w'.mem.deleting = w.mem.deleting /\ w'.mem.ann = w.mem.ann
    PROVE  PlaneInv'
<1>1. /\ w'.pc \notin Making \cup {"register finalizer", "delete"}
      /\ "unregister" \notin Resting /\ "delete" \notin Resting
    BY DEF Resting, Making
<1>2. ManagerTypes' /\ PlaneTypes' /\ SeenInv'
    BY DEF PlaneInv, ManagerTypes, PlaneTypes, SeenInv, Sound, Fading
<1>3. MemInv'
    BY <1>1 DEF PlaneInv, MemInv, Working
<1>4. /\ cluster' \in Cluster
      /\ cluster'.there = cluster.there /\ cluster'.infra = cluster.infra
      /\ cluster.deleting => cluster'.deleting
    BY DEF PlaneInv, NestedTypes, Fading, Cluster
<1>5. NestedTypes' /\ CapiInv'
    BY <1>4 DEF PlaneInv, NestedTypes, CapiInv, Kept
<1>6. FinalizerInv'
    <2>1. Registered => Registered'
        BY DEF Registered
    <2>2. Dropped => Dropped'
        BY <1>4 DEF Dropped, Fading
    <2> QED
        BY <1>1, <1>4, <2>1, <2>2 DEF PlaneInv, FinalizerInv, Fading
<1>7. RetryInv' /\ AliyunInv'
    BY <1>1 DEF RetryInv, AliyunInv, Making
<1>8. NativeInv'
    BY <1>1, KeepNative DEF PlaneInv, Making
<1>9. AnyRunning' => AnyRunning
    BY DEF AnyRunning, Running
<1>10. Untouched' => Untouched
    BY DEF Untouched
<1>11. ServedInv'
    BY <1>2, <1>9, <1>10, KeepServed DEF PlaneInv, Fading
<1> QED
    BY <1>2, <1>3, <1>5, <1>6, <1>7, <1>8, <1>11 DEF PlaneInv

LEMMA UnregistersFacts ==
    ASSUME w \in Worker, Unregisters
    PROVE  /\ w' \in Worker /\ w'.pc = "unregister" /\ (Running(w'.mem) => Running(w.mem))
           /\ w'.mem.there = w.mem.there /\ w'.mem.deleting = w.mem.deleting /\ w'.mem.ann = w.mem.ann
<1> DEFINE m == [w.mem EXCEPT !.fin = FALSE]
<1>1. m \in VCObject /\ m.there = w.mem.there /\ m.deleting = w.mem.deleting /\ m.ann = w.mem.ann
      /\ m.status = w.mem.status
    BY DEF Worker, VCObject
<1>2. w' = [w EXCEPT !.pc = "unregister", !.mem = m]
    BY DEF Unregisters, Worker
<1> HIDE DEF m
<1> QED
    BY <1>1, <1>2 DEF Worker, Running, Pcs, Updates

LEMMA RestFacts ==
    ASSUME w' = Idle \/ Rest
    PROVE  w' \in Worker /\ w'.pc \in Resting /\ ~Running(w'.mem) /\ (Rest => ("seen" \in old' <=> "seen" \in old))
BY IdleFacts DEF Rest, Resting

\* What no step of the manager or of a provisioner counts.
LEMMA Calm ==
    ASSUME NoEvent \/ Event("call") \/ Event("lost")
    PROVE  faults \subseteq faults' /\ \A k \in {"early delete", "unregistered"} : k \in faults' => k \in faults
BY DEF NoEvent, counts, Event

LEMMA DeletionKeeps ==
    ASSUME PlaneInv, DeleteNative \/ DeleteVirtualCluster \/ DeleteCluster
    PROVE  PlaneInv'
<1>1. UNCHANGED <<flavour, vc, seen, version, plane, ncp, nested, parts, reads>> /\ w.pc = "delete"
    BY DEF DeleteNative, DeleteVirtualCluster, DeleteCluster, OfNative, OfAliyun, OfCtrl, nestedVars, At
<1>2. faults \subseteq faults' /\ \A k \in {"early delete", "unregistered"} : k \in faults' => k \in faults
    BY Calm DEF DeleteNative, DeleteVirtualCluster, DeleteCluster, AccessFails
<1>3. Fading
    <2>1. cloud \in Cloud
        BY DEF PlaneInv, PlaneTypes
    <2>2. CASE cloud' = SendDeletionRequest /\ GetClusterIDByName /\ cluster' = cluster
        BY <2>1, <2>2 DEF SendDeletionRequest, GetClusterIDByName, Cloud, Fading
    <2>3. CASE cloud' = cloud
        BY <2>1, <2>3 DEF DeleteNative, DeleteVirtualCluster, DeleteCluster, OfNative, OfAliyun, nestedVars, Fading
    <2> QED
        BY <2>2, <2>3 DEF DeleteNative, DeleteVirtualCluster, DeleteCluster, OfNative, OfAliyun, OfCtrl, AccessFails, nestedVars
<1>4. CASE Rest
    BY <1>1, <1>2, <1>3, <1>4, RestFacts, RestStep
<1>5. CASE Unregisters /\ old' = old
    <2>1. Dropped'
        <3>1. CASE DeleteNative
            BY <3>1 DEF DeleteNative, At, OfNative, nestedVars, PlaneInv, FinalizerInv, Dropped
        <3>2. CASE DeleteVirtualCluster
            <4>1. cloud'.state = "deleting" \/ w' = Idle
                BY <3>2 DEF DeleteVirtualCluster, SendDeletionRequest, Rest, PlaneInv, PlaneTypes, Cloud
            <4>2. w'.pc = "unregister"
                BY <1>5, UnregistersFacts DEF PlaneInv, ManagerTypes
            <4>3. cluster' = cluster /\ ~cluster.there
                BY <3>2 DEF DeleteVirtualCluster, At, OfAliyun, nestedVars, PlaneInv, FinalizerInv
            <4> QED
                BY <4>1, <4>2, <4>3, IdleFacts DEF Dropped
        <3>3. CASE DeleteCluster
            <4>1. cluster'.deleting \/ w' = Idle
                BY <3>3 DEF DeleteCluster, Rest, PlaneInv, NestedTypes, Cluster
            <4>2. w'.pc = "unregister"
                BY <1>5, UnregistersFacts DEF PlaneInv, ManagerTypes
            <4>3. cloud' = cloud /\ cloud.state = "none"
                BY <3>3 DEF DeleteCluster, At, OfCtrl, PlaneInv, FinalizerInv
            <4> QED
                BY <4>1, <4>2, <4>3, IdleFacts DEF Dropped
        <3> QED
            BY <3>1, <3>2, <3>3
    <2> QED
        BY <1>1, <1>2, <1>3, <1>5, <2>1, UnregistersFacts, RestStep DEF PlaneInv, ManagerTypes
<1> QED
    BY <1>4, <1>5 DEF DeleteNative, DeleteVirtualCluster, DeleteCluster, OfNative

-----------------------------------------------------------------------------
(* Reconciles and updates of the object *)

\* The work that a reconcile with a copy m may go on with.
Onward(m, n) ==
    /\ n \in Worker
    /\ n = Idle \/ (n.pc \in {"status", "create", "upgrade"} /\ SameCopy(n.mem, m))
    /\ Running(n.mem) => Running(m) \/ (flavour = "capi" /\ Provisioned)
    /\ n.pc = "create" => n.retry > 0
    /\ n.pc = "upgrade" => n.retry = 0 /\ Running(n.mem)

LEMMA IdleOnward == \A m : Onward(m, Idle)
BY IdleFacts DEF Onward

StatusWork(m, phase, retry, note) == [Idle EXCEPT !.pc = "status", !.mem = SetVCStatus(m, phase, retry, note)]
LEMMA StatusOnward ==
    ASSUME NEW m \in VCObject, NEW phase \in Phases, NEW retry \in 0..3, NEW note \in Notes,
           phase = "Running" => flavour = "capi" /\ Provisioned
    PROVE  Onward(m, StatusWork(m, phase, retry, note))
<1> DEFINE set == SetVCStatus(m, phase, retry, note)
           n == StatusWork(m, phase, retry, note)
<1>1. set \in VCObject /\ SameCopy(set, m) /\ set.status.phase = phase
    BY StatusFacts
<1>2. n = [Idle EXCEPT !.pc = "status", !.mem = set]
    BY DEF StatusWork
<1> HIDE DEF set, n
<1>3. n \in Worker /\ n.pc = "status" /\ n.mem = set
    BY <1>1, <1>2, IdleFacts DEF Worker, Pcs, Updates
<1>4. Onward(m, n)
    BY <1>1, <1>3 DEF Onward, Running
<1> QED
    BY <1>4 DEF n

LEMMA DispatchOnward ==
    ASSUME NEW m \in VCObject
    PROVE  Onward(m, Dispatch(m))
<1> DEFINE work == [Idle EXCEPT !.mem = m]
           status(phase, retry, note) == [work EXCEPT !.pc = "status", !.mem = SetVCStatus(m, phase, retry, note)]
<1>1. work \in Worker /\ work.mem = m /\ work.retry = 0
    BY IdleFacts DEF Worker, Idle
<1>2. \A phase, retry, note : status(phase, retry, note)
                              = StatusWork(m, phase, retry, note)
    BY IdleFacts DEF Worker, StatusWork
<1>3. m.status.phase \in Phases /\ m.status.retry \in 0..3
    BY DEF VCObject, VCStatus
<1>4. CASE m.status.phase = "unset"
    <2>1. Dispatch(m) = StatusWork(m, "Pending", 3, "creating")
        BY <1>2, <1>4 DEF Dispatch
    <2>2. "Pending" \in Phases /\ 3 \in 0..3 /\ "creating" \in Notes
        BY DEF Phases, Notes
    <2> QED
        BY <2>1, <2>2, StatusOnward
<1>5. CASE m.status.phase = "Pending" /\ m.status.retry > 0
    <2> DEFINE n == [work EXCEPT !.pc = "create", !.retry = m.status.retry]
    <2>1. Dispatch(m) = n
        BY <1>5 DEF Dispatch
    <2> HIDE DEF work
    <2>2. n \in Worker /\ n.pc = "create" /\ n.mem = m /\ n.retry > 0
        BY <1>1, <1>3, <1>5 DEF Worker, Pcs, Making
    <2> QED
        BY <2>1, <2>2 DEF Onward, SameCopy
<1>6. CASE m.status.phase = "Pending" /\ m.status.retry = 0
    <2>1. Dispatch(m) = status("Error", 0, "failed")
        BY <1>6 DEF Dispatch
    <2>3. status("Error", 0, "failed") = StatusWork(m, "Error", 0, "failed")
        BY <1>2
    <2>2. "Error" \in Phases /\ 0 \in 0..3 /\ "failed" \in Notes
        BY DEF Phases, Notes
    <2> QED
        BY <2>1, <2>2, <2>3, StatusOnward
<1>7. CASE m.status.phase = "Running" /\ m.labels.upgrade
    <2> DEFINE n == [work EXCEPT !.pc = "upgrade"]
    <2>1. Dispatch(m) = n
        BY <1>7 DEF Dispatch
    <2> HIDE DEF work
    <2>2. n \in Worker /\ n.pc = "upgrade" /\ n.mem = m /\ n.retry = 0
        BY <1>1 DEF Worker, Pcs, Making
    <2> QED
        BY <1>7, <2>1, <2>2 DEF Onward, SameCopy, Running
<1>8. CASE m.status.phase = "Error" \/ (m.status.phase = "Running" /\ ~m.labels.upgrade)
    <2>1. Dispatch(m) = Idle
        BY <1>8 DEF Dispatch
    <2> QED
        BY <2>1, IdleOnward
<1> QED
    BY <1>3, <1>4, <1>5, <1>6, <1>7, <1>8 DEF Phases

LEMMA DispatchCAPIOnward ==
    ASSUME NEW m \in VCObject, flavour = "capi"
    PROVE  Onward(m, DispatchCAPI(m))
<1>1. {"Pending", "Running"} \subseteq Phases /\ 3 \in 0..3 /\ 0 \in 0..3 /\ {"creating", "running"} \subseteq Notes
    BY DEF Phases, Notes
<1>2. CASE m.status.phase = "unset"
    <2>1. DispatchCAPI(m) = StatusWork(m, "Pending", 3, "creating")
        BY <1>2 DEF DispatchCAPI, StatusWork
    <2> QED
        BY <1>1, <2>1, StatusOnward
<1>3. CASE m.status.phase = "Pending" /\ Provisioned
    <2>1. DispatchCAPI(m) = StatusWork(m, "Running", 0, "running")
        BY <1>3 DEF DispatchCAPI, StatusWork
    <2> QED
        BY <1>1, <1>3, <2>1, StatusOnward
<1>4. CASE m.status.phase # "unset" /\ ~(m.status.phase = "Pending" /\ Provisioned)
    <2>1. DispatchCAPI(m) = Idle
        BY <1>4 DEF DispatchCAPI
    <2> QED
        BY <2>1, IdleOnward
<1> QED
    BY <1>2, <1>3, <1>4

LEMMA ContinueOnward ==
    ASSUME NEW m \in VCObject
    PROVE  Onward(m, Continue(m))
BY DispatchOnward, DispatchCAPIOnward DEF Continue

\* A copy that work goes on with keeps what is served.
LEMMA OnwardServes ==
    ASSUME PlaneInv, UNCHANGED <<flavour, seen, plane, cloud, cluster, ncp, faults>>,
           vc'.there => vc.there /\ vc.ann \subseteq vc'.ann, ManagerTypes',
           Running(vc') => AnyRunning,
           Running(w'.mem) => AnyRunning \/ (flavour = "capi" /\ Provisioned),
           w.pc \notin {"deploy", "wait"}
    PROVE  ServedInv'
<1>1. CASE AnyRunning' => AnyRunning
    <2>1. Untouched' => Untouched
        BY DEF Untouched
    <2> QED
        BY <1>1, <2>1, KeepServed DEF PlaneInv
<1>2. CASE flavour = "capi" /\ Provisioned
    BY <1>2 DEF ServedInv, PlaneInv, CapiInv, Provisioned
<1> QED
    BY <1>1, <1>2 DEF AnyRunning, Running

LEMMA StartKeeps ==
    ASSUME PlaneInv, Start
    PROVE  PlaneInv'
<1>1. /\ w.pc = "idle" /\ seen.there /\ faults' = faults
      /\ UNCHANGED <<flavour, vc, seen, version, plane, cloud, cluster, ncp>> /\ UNCHANGED nestedVars
      /\ w' = FirstStep(seen) /\ old' = old \cup Outdated(w')
    BY DEF Start, OfCtrl, nestedVars, NoEvent, counts
<1>2. seen \in VCObject /\ seen.fin \in BOOLEAN /\ seen.deleting \in BOOLEAN
    BY DEF PlaneInv, ManagerTypes, VCObject
<1>3. \/ w' = Idle
      \/ /\ ~seen.deleting /\ w' = [Idle EXCEPT !.pc = "register finalizer", !.mem = [seen EXCEPT !.fin = TRUE]]
      \/ ~seen.deleting /\ seen.fin /\ w' = Continue(seen)
      \/ seen.deleting /\ seen.fin /\ w' = [Idle EXCEPT !.pc = "delete", !.mem = seen]
    BY <1>1, <1>2 DEF FirstStep
<1> DEFINE Registering == /\ w'.pc = "register finalizer" /\ ~seen.deleting /\ w'.mem.fin
                          /\ w'.mem.there = seen.there /\ w'.mem.deleting = seen.deleting /\ w'.mem.ann = seen.ann
           Going == /\ w'.pc \in {"status", "create", "upgrade"} /\ SameCopy(w'.mem, seen)
                    /\ ~seen.deleting /\ seen.fin
           Deleting == w'.pc = "delete" /\ SameCopy(w'.mem, seen) /\ seen.deleting /\ seen.fin
<1>4. /\ w' \in Worker /\ (w' = Idle \/ Registering \/ Going \/ Deleting)
      /\ Running(w'.mem) => AnyRunning \/ (flavour = "capi" /\ Provisioned)
      /\ w'.pc = "create" => w'.retry > 0
      /\ w'.pc = "upgrade" => w'.retry = 0 /\ Running(w'.mem)
    <2>1. CASE w' = Idle
        BY <2>1, IdleFacts
    <2>2. CASE ~seen.deleting /\ w' = [Idle EXCEPT !.pc = "register finalizer", !.mem = [seen EXCEPT !.fin = TRUE]]
        <3> DEFINE m == [seen EXCEPT !.fin = TRUE]
        <3>1. m \in VCObject /\ m.there = seen.there /\ m.deleting = seen.deleting /\ m.ann = seen.ann /\ m.fin
              /\ m.status = seen.status
            BY <1>2 DEF VCObject
        <3> HIDE DEF m
        <3>2. w' = [Idle EXCEPT !.pc = "register finalizer", !.mem = m]
            BY <2>2 DEF m
        <3>3. w' \in Worker /\ w'.pc = "register finalizer" /\ w'.mem = m
            BY <3>1, <3>2, IdleFacts DEF Worker, Pcs, Updates
        <3> QED
            BY <2>2, <3>1, <3>3 DEF AnyRunning, Running
    <2>3. CASE ~seen.deleting /\ seen.fin /\ w' = Continue(seen)
        <3>1. Onward(seen, w')
            BY <1>2, <2>3, ContinueOnward
        <3> QED
            BY <2>3, <3>1 DEF Onward, AnyRunning
    <2>4. CASE seen.deleting /\ seen.fin /\ w' = [Idle EXCEPT !.pc = "delete", !.mem = seen]
        <3>1. w' \in Worker /\ w'.pc = "delete" /\ w'.mem = seen
            BY <1>2, <2>4, IdleFacts DEF Worker, Pcs
        <3> QED
            BY <2>4, <3>1 DEF SameCopy, AnyRunning
    <2> QED
        BY <1>3, <2>1, <2>2, <2>3, <2>4
<1>5. ("seen" \in old' <=> "seen" \in old) /\ (w' # Idle /\ "mem" \notin old' => "seen" \notin old)
    BY <1>1 DEF Outdated
<1>6. ManagerTypes' /\ PlaneTypes' /\ SeenInv'
    BY <1>1, <1>4, <1>5 DEF PlaneInv, ManagerTypes, PlaneTypes, SeenInv, Sound
<1>7. MemInv'
    <2>1. "mem" \notin old' /\ w' # Idle => seen = vc
        BY <1>5 DEF PlaneInv, SeenInv
    <2>2. CASE w' = Idle
        BY <2>2, IdleFacts DEF MemInv, Working, Resting
    <2>3. CASE Registering
        <3>1. w' # Idle
            BY <2>3, IdleFacts
        <3> QED
            BY <1>1, <1>2, <2>1, <2>3, <3>1 DEF MemInv
    <2>4. CASE Going
        <3>1. w' # Idle
            BY <2>4, IdleFacts
        <3> QED
            BY <1>1, <2>1, <2>4, <3>1 DEF MemInv, SameCopy
    <2>5. CASE Deleting
        <3>1. w' # Idle
            BY <2>5, IdleFacts
        <3>2. (vc.there => vc.deleting) /\ (seen.there => seen.deleting)
            BY <2>5 DEF PlaneInv, SeenInv
        <3> QED
            BY <1>1, <2>1, <2>5, <3>1, <3>2 DEF MemInv, SameCopy
    <2> QED
        BY <1>4, <2>2, <2>3, <2>4, <2>5
<1>8. FinalizerInv'
    <2>1. ~seen.deleting => vc.there \/ "early delete" \in faults
        BY <1>1 DEF PlaneInv, FinalizerInv
    <2>2. seen.fin => Registered
        BY DEF PlaneInv, FinalizerInv
    <2>3. (Registered' <=> Registered) /\ (Dropped' <=> Dropped)
        BY <1>1 DEF Registered, Dropped
    <2>4. /\ w'.pc \in Making => Registered
          /\ w'.pc = "register finalizer" => w'.mem.fin
          /\ w'.pc # "unregister"
          /\ w'.pc \in Resting \cup {"delete"} \/ vc.there \/ "early delete" \in faults
        BY <1>4, <2>1, <2>2, IdleFacts DEF Making, Resting
    <2> QED
        BY <1>1, <2>3, <2>4 DEF PlaneInv, FinalizerInv
<1>9. RetryInv' /\ AliyunInv' /\ w'.pc \notin {"pki", "deploy", "wait"}
    BY <1>4, IdleFacts DEF RetryInv, AliyunInv
<1>10. NativeInv'
    BY <1>1, <1>9, KeepNative DEF PlaneInv
<1>11. NestedTypes' /\ CapiInv'
    BY <1>1, KeepNested DEF PlaneInv
<1>12. ServedInv'
    BY <1>1, <1>4, <1>6, OnwardServes DEF AnyRunning
<1> QED
    BY <1>6, <1>7, <1>8, <1>9, <1>10, <1>11, <1>12 DEF PlaneInv

LEMMA RetryUpdateKeeps ==
    ASSUME PlaneInv, RetryUpdateVCStatusOnConflict
    PROVE  PlaneInv'
<1>1. /\ w.pc \in Updates /\ vc.there /\ "mem" \notin old /\ faults' = faults
      /\ UNCHANGED <<flavour, seen, version, plane, cloud, cluster, ncp>> /\ UNCHANGED nestedVars
      /\ vc' = Stored(w.mem) /\ w' = AfterUpdate(w.mem)
      /\ old' = IF vc' = vc THEN old ELSE {"seen"}
    BY DEF RetryUpdateVCStatusOnConflict, OfUpdate, OfCtrl, nestedVars, NoEvent, counts
<1>2. /\ vc \in VCObject /\ w \in Worker /\ w.mem \in VCObject /\ w.pc \notin Resting
      /\ w.mem.fin \in BOOLEAN /\ vc.fin \in BOOLEAN
    BY <1>1 DEF PlaneInv, ManagerTypes, Worker, VCObject, Updates, Resting
<1>3. /\ w.mem.there = vc.there /\ w.mem.deleting = vc.deleting /\ w.mem.ann = vc.ann
      /\ w.pc \notin {"register finalizer", "unregister"} => w.mem.fin = vc.fin
      /\ w.pc = "register finalizer" => (vc.fin => w.mem.fin)
      /\ w.pc = "unregister" => vc.deleting /\ (seen.there => seen.deleting)
    BY <1>1, <1>2 DEF PlaneInv, MemInv, Working
<1>4. (vc.deleting => vc.fin) /\ "early delete" \notin faults
    BY <1>1 DEF PlaneInv, SeenInv, Sound, FinalizerInv
<1>5. \/ vc' = w.mem /\ (w.mem.deleting => w.mem.fin) /\ (w.pc = "unregister" => w.mem.fin)
      \/ vc' = Gone /\ w.pc = "unregister"
    BY <1>1, <1>3, <1>4 DEF Stored
<1>6. /\ w' \in Worker
      /\ \/ w' = Idle
         \/ w.pc = "register finalizer" /\ w'.pc \in {"status", "create", "upgrade"} /\ SameCopy(w'.mem, w.mem)
      /\ Running(w'.mem) => AnyRunning \/ (flavour = "capi" /\ Provisioned)
      /\ w'.pc = "create" => w'.retry > 0
      /\ w'.pc = "upgrade" => w'.retry = 0 /\ Running(w'.mem)
    <2>1. Onward(w.mem, Continue(w.mem)) /\ Onward(w.mem, Idle)
        BY <1>2, ContinueOnward, IdleOnward
    <2>2. CASE w.pc = "register finalizer"
        BY <1>1, <2>1, <2>2 DEF AfterUpdate, Onward, AnyRunning
    <2>3. CASE w.pc # "register finalizer"
        BY <1>1, <2>3, IdleFacts DEF AfterUpdate
    <2> QED
        BY <2>2, <2>3
<1>7. /\ vc' \in VCObject /\ Sound(vc') /\ (vc'.there => vc' = w.mem) /\ (~vc'.there => vc' = Gone)
      /\ (vc'.deleting = vc.deleting \/ ~vc'.there)
    BY <1>1, <1>2, <1>3, <1>5, IdleFacts DEF Sound
<1>8. ManagerTypes' /\ PlaneTypes' /\ SeenInv'
    <2>1. "seen" \notin old' => seen = vc'
        BY <1>1 DEF PlaneInv, SeenInv
    <2>2. seen.deleting => vc'.deleting \/ ~vc'.there
        BY <1>1, <1>7 DEF PlaneInv, SeenInv
    <2> QED
        BY <1>1, <1>6, <1>7, <2>1, <2>2 DEF PlaneInv, ManagerTypes, PlaneTypes, SeenInv, Sound
<1>9. MemInv'
    <2>1. CASE w' = Idle
        BY <2>1, IdleFacts DEF MemInv, Working, Resting
    <2>2. CASE w.pc = "register finalizer" /\ w'.pc \in {"status", "create", "upgrade"} /\ SameCopy(w'.mem, w.mem)
        BY <1>5, <2>2 DEF MemInv, SameCopy
    <2> QED
        BY <1>6, <2>1, <2>2
<1>10. FinalizerInv'
    <2>1. ~vc'.there => w.pc = "unregister" /\ w' = Idle /\ Dropped /\ (seen.there => seen.deleting)
        BY <1>1, <1>3, <1>5, <1>6, <1>7 DEF PlaneInv, FinalizerInv
    <2>2. (Dropped' <=> Dropped) /\ faults' = faults
        BY <1>1 DEF Dropped
    <2>3. Registered => Registered'
        BY <1>1, <1>3, <1>4, <1>5, IdleFacts DEF PlaneInv, FinalizerInv, Registered
    <2>4. w'.pc \in Making => Registered'
        <3> SUFFICES ASSUME w'.pc \in Making PROVE Registered'
            OBVIOUS
        <3>1. w.pc = "register finalizer" /\ vc' = w.mem
            BY <1>5, <1>6, IdleFacts DEF Making
        <3> QED
            BY <1>1, <3>1 DEF PlaneInv, FinalizerInv, Registered
    <2>5. w'.pc \notin {"register finalizer", "unregister"}
        BY <1>6, IdleFacts
    <2>6. w' = Idle => w'.pc \in Resting
        BY IdleFacts DEF Resting
    <2> QED
        BY <1>1, <1>4, <2>1, <2>2, <2>3, <2>4, <2>5, <2>6 DEF PlaneInv, FinalizerInv
<1>11. RetryInv' /\ AliyunInv' /\ w'.pc \notin {"pki", "deploy", "wait"}
    BY <1>6, IdleFacts DEF RetryInv, AliyunInv
<1>12. NativeInv'
    BY <1>1, <1>11, KeepNative DEF PlaneInv
<1>13. NestedTypes' /\ CapiInv'
    BY <1>1, KeepNested DEF PlaneInv
<1>14. ServedInv'
    <2>1. Running(vc') => AnyRunning
        BY <1>5, IdleFacts DEF AnyRunning
    <2>2. vc'.there => vc.there /\ vc.ann \subseteq vc'.ann
        BY <1>1, <1>3, <1>7
    <2>3. w.pc \notin {"deploy", "wait"}
        BY <1>1 DEF Updates
    <2> QED
        BY <1>1, <1>6, <1>8, <2>1, <2>2, <2>3, OnwardServes
<1> QED
    BY <1>8, <1>9, <1>10, <1>11, <1>12, <1>13, <1>14 DEF PlaneInv

LEMMA ConflictKeeps ==
    ASSUME PlaneInv, Conflict
    PROVE  PlaneInv'
<1>1. /\ w.pc \in Updates /\ vc.there
      /\ UNCHANGED <<flavour, vc, seen, version, plane, cloud, cluster, ncp>> /\ UNCHANGED nestedVars
      /\ w' = [w EXCEPT !.mem = Merged]
      /\ old' = (old \ {"mem"}) \cup {"mem" : x \in old \cap {"seen"}}
      /\ faults' = faults \cup {"unregistered" : x \in {w.pc} \cap {"register finalizer"}}
    BY DEF Conflict, OfUpdate, OfCtrl, nestedVars
<1>2. Merged \in VCObject /\ SameCopy(Merged, seen) /\ Merged.status = w.mem.status
    BY DEF PlaneInv, ManagerTypes, Worker, VCObject, Merged, SameCopy
<1>3. w' \in Worker /\ w'.pc = w.pc /\ w'.mem = Merged /\ w'.retry = w.retry
    BY <1>1, <1>2 DEF PlaneInv, ManagerTypes, Worker
<1>4. /\ faults \subseteq faults' /\ faults' \subseteq faults \cup {"unregistered"}
      /\ w.pc = "register finalizer" => "unregistered" \in faults'
      /\ "seen" \in old' <=> "seen" \in old
      /\ "mem" \notin old' => "seen" \notin old
    BY <1>1
<1>5. ManagerTypes' /\ PlaneTypes' /\ SeenInv'
    BY <1>1, <1>3, <1>4 DEF PlaneInv, ManagerTypes, PlaneTypes, SeenInv, Sound
<1>6. MemInv'
    <2>1. Working' => Working
        BY <1>3 DEF Working
    <2> QED
        BY <1>1, <1>2, <1>3, <1>4, <2>1 DEF PlaneInv, SeenInv, MemInv, SameCopy
<1>7. FinalizerInv'
    <2>1. (Registered => Registered') /\ (Dropped => Dropped')
        BY <1>1, <1>4 DEF Registered, Dropped
    <2>2. "early delete" \in faults' => "early delete" \in faults
        BY <1>4
    <2> QED
        BY <1>1, <1>3, <1>4, <2>1, <2>2 DEF PlaneInv, FinalizerInv
<1>8. RetryInv' /\ AliyunInv' /\ w'.pc \notin {"pki", "deploy", "wait"}
    BY <1>1, <1>3 DEF RetryInv, AliyunInv, Updates
<1>9. NativeInv'
    BY <1>1, <1>4, <1>8, KeepNative DEF PlaneInv
<1>10. NestedTypes' /\ CapiInv'
    BY <1>1, <1>4, KeepNested DEF PlaneInv
<1>11. ServedInv'
    <2>1. AnyRunning' => AnyRunning
        BY <1>1, <1>2, <1>3 DEF AnyRunning, Running
    <2>2. Untouched' => Untouched
        BY <1>3, <1>4 DEF Untouched
    <2> QED
        BY <1>1, <1>4, <1>5, <2>1, <2>2, KeepServed DEF PlaneInv
<1> QED
    BY <1>5, <1>6, <1>7, <1>8, <1>9, <1>10, <1>11 DEF PlaneInv

LEMMA UpdateFailsKeeps ==
    ASSUME PlaneInv, UpdateFails
    PROVE  PlaneInv'
<1>1. /\ UNCHANGED <<flavour, vc, seen, version, plane, ncp, nested, parts, reads, cloud, cluster>>
      /\ w.pc \in Updates /\ Rest
    BY DEF UpdateFails, OfUpdate, OfCtrl, nestedVars
<1>2. Fading /\ w.pc \notin {"deploy", "wait"}
    BY <1>1 DEF Fading, PlaneInv, PlaneTypes, Updates
<1>3. faults \subseteq faults' /\ \A k \in {"early delete", "unregistered"} : k \in faults' => k \in faults
    BY Calm DEF UpdateFails
<1> QED
    BY <1>1, <1>2, <1>3, RestFacts, RestStep

LEMMA BootKeeps ==
    ASSUME PlaneInv, genCertificate \/ createValidatingWebhookConfiguration
    PROVE  PlaneInv'
<1>1. /\ UNCHANGED <<flavour, vc, seen, old, version, plane, ncp, nested, parts, reads, cloud, cluster>>
      /\ w.pc \in {"boot", "register"} /\ NoEvent
      /\ w' = Idle \/ w' = [w EXCEPT !.pc = "register"] \/ w' = w
    BY DEF genCertificate, createValidatingWebhookConfiguration, OfCtrl, nestedVars
<1>2. Fading
    BY <1>1 DEF Fading, PlaneInv, PlaneTypes
<1>3. w' \in Worker /\ w'.pc \in Resting /\ (Running(w'.mem) => Running(w.mem))
    BY <1>1, IdleFacts DEF PlaneInv, ManagerTypes, Worker, Pcs, Resting
<1>4. faults \subseteq faults' /\ \A k \in {"early delete", "unregistered"} : k \in faults' => k \in faults
    BY <1>1, Calm
<1> QED
    BY <1>1, <1>2, <1>3, <1>4, RestStep

LEMMA CrashKeeps ==
    ASSUME PlaneInv, Crash
    PROVE  PlaneInv'
<1>1. /\ UNCHANGED <<flavour, vc, version, plane, cloud, cluster, ncp>> /\ UNCHANGED nestedVars
      /\ w' = [Idle EXCEPT !.pc = "boot"] /\ seen' = vc /\ old' = {}
      /\ faults' = faults \cup {"crash"}
    BY DEF Crash, nestedVars, Event
<1>2. w' \in Worker /\ w'.pc = "boot" /\ ~Running(w'.mem)
    BY <1>1, IdleFacts DEF Worker, Pcs, Resting
<1>3. ManagerTypes' /\ PlaneTypes' /\ SeenInv'
    BY <1>1, <1>2 DEF PlaneInv, ManagerTypes, PlaneTypes, SeenInv, Sound
<1>4. MemInv' /\ RetryInv' /\ AliyunInv'
    BY <1>2 DEF MemInv, RetryInv, AliyunInv, Working, Resting
<1>5. FinalizerInv'
    <2>1. (Registered => Registered') /\ (Dropped => Dropped') /\ (seen'.fin => Registered')
        BY <1>1 DEF Registered, Dropped
    <2> QED
        BY <1>1, <1>2, <2>1 DEF PlaneInv, FinalizerInv, Making, Resting
<1>6. NativeInv'
    BY <1>1, <1>2, KeepNative DEF PlaneInv
<1>7. NestedTypes' /\ CapiInv'
    BY <1>1, KeepNested DEF PlaneInv
<1>8. ServedInv'
    <2>1. AnyRunning' => AnyRunning
        BY <1>1, <1>2 DEF AnyRunning, Running
    <2>2. ~Untouched'
        BY <1>1 DEF Untouched
    <2> QED
        BY <1>1, <1>3, <2>1, <2>2, KeepServed DEF PlaneInv
<1> QED
    BY <1>3, <1>4, <1>5, <1>6, <1>7, <1>8 DEF PlaneInv

\* What a step of a user or of the informer keeps: the worker goes on as it was.
LEMMA UserStep ==
    ASSUME PlaneInv, UNCHANGED <<flavour, w, plane, cloud, cluster, ncp>>, UNCHANGED nestedVars,
           faults \subseteq faults', ManagerTypes', SeenInv', MemInv', FinalizerInv',
           vc'.there => vc.there /\ vc'.ann = vc.ann,
           Running(vc') => Running(vc), Running(seen') => Running(seen) \/ Running(vc)
    PROVE  PlaneInv'
<1>1. PlaneTypes' /\ RetryInv' /\ AliyunInv'
    BY DEF PlaneInv, PlaneTypes, RetryInv, AliyunInv, Running
<1>2. NativeInv'
    BY KeepNative DEF PlaneInv
<1>3. NestedTypes' /\ CapiInv'
    BY KeepNested DEF PlaneInv
<1>4. AnyRunning' => AnyRunning
    BY DEF AnyRunning, Running
<1>5. Untouched' => Untouched
    BY DEF Untouched
<1>6. ServedInv'
    BY <1>4, <1>5, KeepServed DEF PlaneInv
<1> QED
    BY <1>1, <1>2, <1>3, <1>6 DEF PlaneInv

LEMMA DeleteVCKeeps ==
    ASSUME PlaneInv, DeleteVC
    PROVE  PlaneInv'
<1>1. /\ UNCHANGED <<flavour, seen, w, version, plane, cloud, cluster, ncp>> /\ UNCHANGED nestedVars
      /\ vc.there /\ ~vc.deleting /\ Others([vc EXCEPT !.deleting = TRUE])
      /\ faults' = faults \cup {IF vc.fin THEN "delete" ELSE "early delete"}
    BY DEF DeleteVC, OfUser, nestedVars, Event
<1> DEFINE v == [vc EXCEPT !.deleting = TRUE]
<1>2. v \in VCObject /\ v.there = vc.there /\ v.deleting /\ v.fin = vc.fin /\ v.ann = vc.ann /\ v.status = vc.status
    BY DEF PlaneInv, ManagerTypes, VCObject
<1> HIDE DEF v
<1>3. vc' = Stored(v) /\ OldFollows
    BY <1>1, OthersFacts DEF v
<1>4. CASE vc.fin
    <2>1. vc' = v /\ vc' # vc /\ faults' = faults \cup {"delete"}
        BY <1>1, <1>2, <1>3, <1>4 DEF Stored
    <2>2. ManagerTypes' /\ SeenInv'
        BY <1>1, <1>2, <1>3, <1>4, <2>1 DEF PlaneInv, ManagerTypes, SeenInv, Sound, OldFollows
    <2>3. MemInv'
        BY <1>1, <1>2, <1>3, <2>1 DEF PlaneInv, MemInv, OldFollows, Working
    <2>4. FinalizerInv'
        BY <1>1, <1>2, <1>4, <2>1 DEF PlaneInv, FinalizerInv, Registered, Dropped
    <2> QED
        BY <1>1, <1>2, <2>1, <2>2, <2>3, <2>4, UserStep DEF Running
<1>5. CASE ~vc.fin
    <2>1. vc' = Gone /\ vc' # vc /\ faults' = faults \cup {"early delete"}
        BY <1>1, <1>2, <1>3, <1>5, IdleFacts DEF Stored
    <2>2. ManagerTypes' /\ SeenInv'
        BY <1>1, <1>3, <2>1, IdleFacts DEF PlaneInv, ManagerTypes, SeenInv, Sound, OldFollows
    <2>3. MemInv'
        BY <1>1, <1>3, <2>1, IdleFacts DEF PlaneInv, MemInv, OldFollows, Working
    <2>4. FinalizerInv'
        <3>1. Registered => Registered'
            BY <1>1, <1>5, <2>1 DEF Registered
        <3> QED
            BY <1>1, <2>1, <3>1, IdleFacts DEF PlaneInv, FinalizerInv, Dropped
    <2> QED
        BY <1>1, <2>1, <2>2, <2>3, <2>4, UserStep, IdleFacts
<1> QED
    BY <1>4, <1>5

LEMMA EditVCKeeps ==
    ASSUME PlaneInv, EditVC
    PROVE  PlaneInv'
<1>1. /\ UNCHANGED <<flavour, vc, seen, w, version, plane, cloud, cluster, ncp>> /\ UNCHANGED nestedVars
      /\ faults' = faults \cup {"edit"}
      /\ old' = {"seen"} \cup {"mem" : x \in {w.pc} \ {"idle", "boot", "register"}}
    BY DEF EditVC, OfUser, nestedVars, Event
<1>2. OldFollows
    <2>1. Working => {"mem" : x \in {w.pc} \ {"idle", "boot", "register"}} = {"mem"}
        BY DEF Working, Resting
    <2> QED
        BY <1>1, <2>1 DEF OldFollows
<1>3. faults \subseteq faults' /\ \A k \in {"early delete", "unregistered"} : k \in faults' => k \in faults
    BY <1>1
<1>4. SeenInv' /\ MemInv' /\ FinalizerInv'
    BY <1>1, <1>2, <1>3, ObjectStep DEF PlaneInv
<1>5. ManagerTypes'
    BY <1>1 DEF PlaneInv, ManagerTypes
<1> QED
    BY <1>1, <1>3, <1>4, <1>5, UserStep DEF Running

LEMMA RequestUpgradeKeeps ==
    ASSUME PlaneInv, RequestUpgrade
    PROVE  PlaneInv'
<1>1. /\ UNCHANGED <<flavour, seen, w, plane, cloud, cluster, ncp>> /\ UNCHANGED nestedVars
      /\ vc.there /\ Others([vc EXCEPT !.labels.upgrade = TRUE]) /\ version' \in 0..2
      /\ faults' = faults \cup {"upgrade"}
    BY DEF RequestUpgrade, OfUser, nestedVars, Event
<1> DEFINE v == [vc EXCEPT !.labels.upgrade = TRUE]
<1>2. v \in VCObject /\ SameCopy(v, vc) /\ v.status = vc.status
    BY UpgradeLabelFacts DEF PlaneInv, ManagerTypes
<1> HIDE DEF v
<1>3. vc' = v /\ OldFollows
    <2>1. vc' = Stored(v) /\ OldFollows
        BY <1>1, OthersFacts DEF v
    <2> QED
        BY <1>2, <2>1 DEF Stored, SameCopy, PlaneInv, SeenInv, Sound
<1>4. faults \subseteq faults' /\ \A k \in {"early delete", "unregistered"} : k \in faults' => k \in faults
    BY <1>1
<1>5. SeenInv' /\ MemInv' /\ FinalizerInv'
    BY <1>1, <1>2, <1>3, <1>4, ObjectStep DEF PlaneInv, SameCopy
<1>6. ManagerTypes'
    BY <1>1, <1>2, <1>3 DEF PlaneInv, ManagerTypes
<1> QED
    BY <1>1, <1>2, <1>3, <1>4, <1>5, <1>6, UserStep DEF Running, SameCopy

LEMMA SeeVCKeeps ==
    ASSUME PlaneInv, SeeVC
    PROVE  PlaneInv'
<1>1. /\ UNCHANGED <<flavour, vc, w, version, plane, cloud, cluster, ncp>> /\ UNCHANGED nestedVars
      /\ faults' = faults /\ seen' = vc /\ old' = old \ {"seen"}
    BY DEF SeeVC, nestedVars, NoEvent, counts
<1>2. ManagerTypes' /\ SeenInv'
    BY <1>1 DEF PlaneInv, ManagerTypes, SeenInv, Sound
<1>3. MemInv'
    BY <1>1 DEF PlaneInv, MemInv, Working
<1>4. FinalizerInv'
    BY <1>1 DEF PlaneInv, FinalizerInv, Registered, Dropped
<1> QED
    BY <1>1, <1>2, <1>3, <1>4, UserStep DEF Running

-----------------------------------------------------------------------------
(* The platforms *)

\* What a step keeps that leaves the manager alone.
LEMMA OtherStep ==
    ASSUME PlaneInv, UNCHANGED <<flavour, vcVars>>, faults \subseteq faults',
           \A k \in {"early delete", "unregistered"} : k \in faults' => k \in faults,
           Dropped => Dropped', cloud'.state # "none" => cloud.state # "none",
           cluster'.there => cluster.there,
           cloud.ns => cloud'.ns, cloud.secret => cloud'.secret
    PROVE  ManagerTypes' /\ SeenInv' /\ MemInv' /\ RetryInv' /\ FinalizerInv' /\ AliyunInv'
<1>1. ManagerTypes' /\ SeenInv' /\ MemInv' /\ RetryInv'
    BY KeepCopies DEF PlaneInv
<1>2. UNCHANGED <<vc, seen, w, old>>
    BY DEF vcVars
<1>3. Registered => Registered'
    BY <1>2 DEF Registered
<1>4. FinalizerInv'
    BY <1>2, <1>3 DEF PlaneInv, FinalizerInv
<1>5. AliyunInv'
    BY <1>2 DEF PlaneInv, AliyunInv, AnnotationNames
<1> QED
    BY <1>1, <1>4, <1>5

\* A component of the native provisioner gets ready or has an outage.
LEMMA StsKeeps ==
    ASSUME PlaneInv, NEW p \in PartNames, StsUp(p) \/ StsDown(p)
    PROVE  PlaneInv'
<1>1. /\ UNCHANGED <<flavour, vcVars>> /\ UNCHANGED nestedVars /\ UNCHANGED <<cloud, cluster, ncp>>
      /\ UNCHANGED <<vc, seen, w>>
    BY DEF StsUp, StsDown, OfPlatform, vcVars, nestedVars
<1>2. PICK up \in BOOLEAN : /\ plane' = [plane EXCEPT !.sts[p].up = up]
                            /\ \/ up /\ faults' = faults
                               \/ faults' = faults \cup {"outage"}
    BY DEF StsUp, StsDown, NoEvent, counts, Event
<1>3. faults \subseteq faults' /\ \A k \in {"early delete", "unregistered", "lag"} : k \in faults' => k \in faults
    BY <1>2
<1>4. ManagerTypes' /\ SeenInv' /\ MemInv' /\ RetryInv' /\ FinalizerInv' /\ AliyunInv'
    BY <1>1, <1>3, OtherStep DEF Dropped
<1>5. NestedTypes' /\ CapiInv'
    BY <1>1, <1>3, KeepNested DEF PlaneInv
<1>6. /\ plane' \in Plane /\ plane'.ns = plane.ns /\ plane'.secrets = plane.secrets
      /\ \A q \in PartNames : plane'.sts[q].template = plane.sts[q].template
      /\ NoOutage' => NoOutage /\ \A q \in PartNames : plane.sts[q].up => plane'.sts[q].up
    <2> DEFINE sts == [plane.sts EXCEPT ![p].up = up]
    <2>1. plane.sts \in [PartNames -> StatefulSet] /\ plane \in Plane
        BY DEF PlaneInv, PlaneTypes, Plane
    <2>2. plane' = [plane EXCEPT !.sts = sts]
        BY <1>2, <2>1 DEF Plane
    <2>3. /\ sts \in [PartNames -> StatefulSet]
          /\ \A q \in PartNames : sts[q].template = plane.sts[q].template
          /\ up => \A q \in PartNames : plane.sts[q].up => sts[q].up
        BY <2>1 DEF StatefulSet
    <2> HIDE DEF sts
    <2>4. plane' \in Plane /\ plane'.ns = plane.ns /\ plane'.secrets = plane.secrets /\ plane'.sts = sts
        BY <2>1, <2>2, <2>3 DEF Plane
    <2>5. NoOutage' => up /\ NoOutage
        BY <1>2 DEF NoOutage
    <2> QED
        BY <2>3, <2>4, <2>5
<1>7. \A i \in 1..3 : Parts[i] \in PartNames
    BY NamesOfParts
<1>8. PlaneTypes'
    BY <1>1, <1>6 DEF PlaneInv, PlaneTypes
<1>9. NativeInv'
    <2>1. \A i \in 1..3 : Template(i)' = Template(i) /\ (NoOutage' => NoOutage /\ (Up(i) => Up(i)'))
        BY <1>6, <1>7 DEF Template, Up
    <2>2. \A i \in 1..3 : Before(i)' <=> Before(i)
        BY <1>1 DEF Before
    <2>3. w.pc = "wait" => w.part \in 1..3
        BY DEF PlaneInv, NativeInv
    <2>4. w.pc = "wait" => Template(w.part)' = Template(w.part)
        BY <2>1, <2>3, <1>1 DEF Template
    <2>5. \A i \in 1..3 : Before(i)' /\ w'.pc \in {"pki", "deploy", "wait"} => Template(i)' # 0 /\ (NoOutage' => Up(i)')
        BY <1>1, <2>1, <2>2 DEF PlaneInv, NativeInv
    <2>6. w'.pc \in {"deploy", "wait"} => \A i \in 2..3 : Before(i)' => Template(i)' = w'.pki.key
        BY <1>1, <2>1, <2>2 DEF PlaneInv, NativeInv
    <2>7. w'.pc = "wait" => Template(w.part)' # 0 /\ (w'.part # 1 => Template(w.part)' = w'.pki.key)
        BY <1>1, <2>4 DEF PlaneInv, NativeInv
    <2>8. w'.pc \in {"deploy", "wait"} => SecretsMade' /\ w'.pki.key # 0
                                          /\ plane'.secrets["serviceaccount-rsa"].key = w'.pki.key
        BY <1>1, <1>6 DEF PlaneInv, NativeInv, SecretsMade
    <2> QED
        BY <1>1, <1>3, <1>6, <2>5, <2>6, <2>7, <2>8 DEF PlaneInv, NativeInv
<1>10. ServedInv'
    <2> SUFFICES ASSUME AnyRunning' PROVE ServedInv'
        BY DEF ServedInv
    <2>1. AnyRunning
        BY <1>1 DEF AnyRunning, Running
    <2>2. CASE flavour = "native"
        <3>1. ServedNative
            BY <2>1, <2>2 DEF PlaneInv, ServedInv
        <3>2. Complete'
            BY <1>3, <1>6, <3>1 DEF ServedNative, Complete
        <3>3. NoOutage' => \A i \in 1..3 : Up(i)'
            BY <1>6, <1>7, <3>1 DEF ServedNative, Up
        <3>4. Untouched' => Untouched
            BY <1>1, <1>3 DEF Untouched
        <3>5. Agree' <=> Agree
            BY <1>6, NamesOfParts DEF Agree
        <3> QED
            BY <1>1, <2>2, <3>1, <3>2, <3>3, <3>4, <3>5 DEF ServedInv, ServedNative
    <2>3. CASE flavour = "aliyun"
        BY <1>1, <2>1, <2>3 DEF PlaneInv, ServedInv, ServedAliyun, AnnotationNames
    <2>4. CASE flavour = "capi"
        BY <1>1, <2>1, <2>4 DEF PlaneInv, ServedInv
    <2> QED
        BY <2>2, <2>3, <2>4 DEF PlaneInv, ManagerTypes
<1> QED
    BY <1>4, <1>5, <1>8, <1>9, <1>10 DEF PlaneInv

\* The cloud goes on with a cluster.
LEMMA CloudKeeps ==
    ASSUME PlaneInv, CloudUp \/ CloudFails \/ CloudGone
    PROVE  PlaneInv'
<1>1. /\ UNCHANGED <<flavour, vcVars>> /\ UNCHANGED nestedVars /\ UNCHANGED <<plane, cluster, ncp>>
      /\ UNCHANGED <<vc, seen, w>>
    BY DEF CloudUp, CloudFails, CloudGone, OfPlatform, vcVars, nestedVars
<1>2. /\ cloud' \in Cloud /\ cloud'.ns = cloud.ns /\ cloud'.secret = cloud.secret /\ cloud.state # "none"
      /\ cloud.state \in {"none", "deleting"} => cloud'.state \in {"none", "deleting"}
    BY DEF CloudUp, CloudFails, CloudGone, PlaneInv, PlaneTypes, Cloud
<1>3. faults \subseteq faults' /\ \A k \in {"early delete", "unregistered"} : k \in faults' => k \in faults
    BY DEF CloudUp, CloudFails, CloudGone, NoEvent, counts, Event
<1>4. ManagerTypes' /\ SeenInv' /\ MemInv' /\ RetryInv' /\ FinalizerInv' /\ AliyunInv'
    BY <1>1, <1>2, <1>3, OtherStep DEF Dropped
<1>5. NestedTypes' /\ CapiInv'
    BY <1>1, <1>3, KeepNested DEF PlaneInv
<1>6. PlaneTypes'
    BY <1>1, <1>2 DEF PlaneInv, PlaneTypes
<1>7. NativeInv'
    BY <1>1, <1>3, KeepNative DEF PlaneInv
<1>8. AnyRunning' => AnyRunning
    BY <1>1 DEF AnyRunning, Running
<1>9. Untouched' => Untouched
    BY <1>1, <1>3 DEF Untouched
<1>10. ServedInv'
    BY <1>1, <1>2, <1>3, <1>4, <1>8, <1>9, KeepServed DEF PlaneInv
<1> QED
    BY <1>4, <1>5, <1>6, <1>7, <1>10 DEF PlaneInv

-----------------------------------------------------------------------------
(* The nested control plane *)

\* What is common to its steps.
LEMMA NestedStep ==
    ASSUME PlaneInv, OfNested, faults \subseteq faults',
           \A k \in {"early delete", "unregistered"} : k \in faults' => k \in faults,
           cluster'.there => cluster.there, cluster.deleting => cluster'.deleting,
           ncp.ready => ncp'.ready, NestedTypes', CapiInv'
    PROVE  PlaneInv'
<1>1. UNCHANGED <<flavour, vcVars>> /\ UNCHANGED <<plane, cloud, vc, seen, w>>
    BY DEF OfNested, vcVars
<1>2. Dropped => Dropped'
    BY <1>1 DEF Dropped
<1>3. ManagerTypes' /\ SeenInv' /\ MemInv' /\ RetryInv' /\ FinalizerInv' /\ AliyunInv'
    BY <1>1, <1>2, OtherStep
<1>4. PlaneTypes'
    BY <1>1 DEF PlaneInv, PlaneTypes
<1>5. NativeInv'
    BY <1>1, KeepNative DEF PlaneInv
<1>6. AnyRunning' => AnyRunning
    BY <1>1 DEF AnyRunning, Running
<1>7. Untouched' => Untouched
    BY <1>1 DEF Untouched
<1>8. ServedInv'
    BY <1>1, <1>3, <1>6, <1>7, KeepServed DEF PlaneInv
<1> QED
    BY <1>3, <1>4, <1>5, <1>8 DEF PlaneInv

\* What they count.
LEMMA NestedCalm ==
    ASSUME NoEvent \/ \E kind \in {"call", "certificate", "service", "outage", "removed", "cluster", "pause"} : Event(kind)
    PROVE  /\ faults \subseteq faults'
           /\ \A k \in {"early delete", "unregistered"} : k \in faults' => k \in faults
BY DEF NoEvent, counts, Event

LEMMA ShapeFacts ==
    ASSUME NEW n, NestedShape(n), NEW x
    PROVE  /\ NestedShape([n EXCEPT !.secrets = x]) /\ [n EXCEPT !.secrets = x].infra = n.infra
           /\ NestedShape([n EXCEPT !.manifests = x]) /\ [n EXCEPT !.manifests = x].infra = n.infra
           /\ NestedShape([n EXCEPT !.svc = x]) /\ [n EXCEPT !.svc = x].infra = n.infra
           /\ x \in BOOLEAN => NestedShape([n EXCEPT !.infra = x]) /\ [n EXCEPT !.infra = x].infra = x
<1> DEFINE a == n.secrets
           b == n.manifests
           c == n.svc
           d == n.infra
<1>1. n = [secrets |-> a, manifests |-> b, svc |-> c, infra |-> d] /\ d \in BOOLEAN
    BY DEF NestedShape
<1> HIDE DEF a, b, c, d
<1> QED
    BY <1>1 DEF NestedShape

\* A step that changes nothing but what has been made and the components, and of these not what is
\* owned, and that takes away no StatefulSet and calls no component ready that has none.
LEMMA ComponentStep ==
    ASSUME PlaneInv, OfNested, faults \subseteq faults',
           \A k \in {"early delete", "unregistered"} : k \in faults' => k \in faults,
           UNCHANGED <<cluster, ncp, reads>>,
           NestedShape(nested'), nested'.infra = nested.infra,
           parts' \in [PartNames -> Part],
           \A q \in PartNames : /\ parts[q].owned => parts'[q].owned
                                /\ Kept(q) => Kept(q)'
                                /\ parts'[q].phase = "Ready" => parts[q].phase = "Ready" \/ Kept(q)'
    PROVE  PlaneInv'
<1>1. NestedTypes'
    BY DEF PlaneInv, NestedTypes
<1>2. CapiInv'
    BY DEF PlaneInv, CapiInv
<1> QED
    BY <1>1, <1>2, NestedStep

LEMMA NcpRegistersKeeps ==
    ASSUME PlaneInv, NcpRegisters \/ reconcileDelete
    PROVE  PlaneInv'
<1>1. OfNested /\ UNCHANGED <<cluster, nested, parts, reads>> /\ NoEvent
    BY DEF NcpRegisters, reconcileDelete
<1>2. /\ ncp' \in [there : BOOLEAN, fin : BOOLEAN, deleting : BOOLEAN, init : BOOLEAN, ready : BOOLEAN]
      /\ ncp'.ready = ncp.ready /\ ncp'.deleting = ncp.deleting
    BY DEF NcpRegisters, reconcileDelete, PlaneInv, NestedTypes
<1>3. NestedTypes'
    BY <1>1, <1>2 DEF PlaneInv, NestedTypes
<1>4. CapiInv'
    BY <1>1, <1>2 DEF PlaneInv, CapiInv, Kept, NoEvent, counts
<1> QED
    BY <1>1, <1>2, <1>3, <1>4, NestedCalm, NestedStep

LEMMA MadeFacts ==
    ASSUME NestedShape(nested), NEW i \in 1..3
    PROVE  NestedShape(Made[i]) /\ Made[i].infra = nested.infra
<1> DEFINE a == LookupOrGenerate(nested)
           b == reconcileKubeconfig(a)
           c == createManifestsConfigMap(b)
<1>1. NestedShape(a) /\ a.infra = nested.infra
    BY ShapeFacts DEF LookupOrGenerate
<1> HIDE DEF a
<1>2. NestedShape(b) /\ b.infra = nested.infra
    BY <1>1, ShapeFacts DEF reconcileKubeconfig
<1> HIDE DEF b
<1>3. NestedShape(c) /\ c.infra = nested.infra
    BY <1>2, ShapeFacts DEF createManifestsConfigMap
<1> HIDE DEF c
<1>4. Made = <<a, b, c>>
    BY DEF Made, a, b, c
<1> QED
    BY <1>1, <1>2, <1>3, <1>4

LEMMA PrepareKeeps ==
    ASSUME PlaneInv, Prepare
    PROVE  PlaneInv'
<1>1. OfNested /\ UNCHANGED <<cluster, ncp, parts>>
    BY DEF Prepare
<1>2. faults \subseteq faults' /\ \A k \in {"early delete", "unregistered"} : k \in faults' => k \in faults
    BY NestedCalm DEF Prepare
<1>3. NestedShape(nested') /\ nested'.infra = nested.infra
    BY MadeFacts DEF Prepare, PlaneInv, NestedTypes
<1>4. reads' = "ready" => AllReady \/ reads = "ready"
    BY DEF Prepare
<1>5. NestedTypes'
    BY <1>1, <1>3 DEF PlaneInv, NestedTypes
<1>6. CapiInv'
    <2>1. \A p \in PartNames : Kept(p) => Kept(p)'
        BY <1>1, <1>2 DEF Kept
    <2> QED
        BY <1>1, <1>3, <1>4, <2>1 DEF PlaneInv, CapiInv, AllReady, IsComponentReady
<1> QED
    BY <1>1, <1>2, <1>5, <1>6, NestedStep

LEMMA NcpFinishesKeeps ==
    ASSUME PlaneInv, NcpFinishes
    PROVE  PlaneInv'
<1>1. OfNested /\ UNCHANGED <<cluster, nested>> /\ reads' = "none"
      /\ ncp' = Finish(\A p \in PartNames : parts'[p].owned)
    BY DEF NcpFinishes
<1>2. faults \subseteq faults' /\ \A k \in {"early delete", "unregistered"} : k \in faults' => k \in faults
    BY NestedCalm DEF NcpFinishes, reconcileControllerOwners
<1>3. \E ps : parts' = Adopted(ps)
    BY DEF NcpFinishes, reconcileControllerOwners
<1>4. PICK ps : parts' = Adopted(ps)
    BY <1>3
<1>5. /\ parts' \in [PartNames -> Part]
      /\ \A p \in PartNames : /\ parts[p].owned => parts'[p].owned
                              /\ parts'[p].sts = parts[p].sts /\ parts'[p].phase = parts[p].phase
    BY <1>4 DEF Adopted, PlaneInv, NestedTypes, Part
<1>6. \A p \in PartNames : Kept(p) => Kept(p)'
    BY <1>2, <1>5 DEF Kept
<1> DEFINE adopted == \A p \in PartNames : parts'[p].owned
<1>7. /\ ncp' \in [there : BOOLEAN, fin : BOOLEAN, deleting : BOOLEAN, init : BOOLEAN, ready : BOOLEAN]
      /\ ncp'.deleting = ncp.deleting /\ (ncp.ready => ncp'.ready)
      /\ ncp'.ready => ncp.ready \/ (adopted /\ reads = "ready")
    <2>1. ncp' = Finish(adopted)
        BY <1>1
    <2>2. adopted \in BOOLEAN
        OBVIOUS
    <2> HIDE DEF adopted
    <2> QED
        BY <2>1, <2>2 DEF Finish, PlaneInv, NestedTypes
<1>8. NestedTypes'
    BY <1>1, <1>5, <1>7 DEF PlaneInv, NestedTypes
<1>9. CapiInv'
    BY <1>1, <1>5, <1>6, <1>7 DEF PlaneInv, CapiInv
<1> QED
    BY <1>1, <1>2, <1>7, <1>8, <1>9, NestedStep

LEMMA NcpFailsKeeps ==
    ASSUME PlaneInv, NcpFails
    PROVE  PlaneInv'
<1>1. OfNested /\ UNCHANGED <<cluster, ncp, nested, parts>> /\ reads' = "none" /\ Event("call")
    BY DEF NcpFails
<1>2. faults \subseteq faults' /\ \A k \in {"early delete", "unregistered"} : k \in faults' => k \in faults
    BY <1>1, NestedCalm
<1>3. NestedTypes' /\ CapiInv'
    BY <1>1, <1>2 DEF PlaneInv, NestedTypes, CapiInv, Kept
<1> QED
    BY <1>1, <1>2, <1>3, NestedStep

LEMMA NestedClusterReconcileKeeps ==
    ASSUME PlaneInv, NestedClusterReconcile
    PROVE  PlaneInv'
<1>1. /\ OfNested /\ UNCHANGED <<cluster, ncp, parts, reads>> /\ NoEvent /\ ncp.ready
      /\ nested' = [nested EXCEPT !.infra = TRUE]
    BY DEF NestedClusterReconcile
<1>2. faults \subseteq faults' /\ \A k \in {"early delete", "unregistered"} : k \in faults' => k \in faults
    BY <1>1, NestedCalm
<1>3. NestedShape(nested')
    BY <1>1, ShapeFacts DEF PlaneInv, NestedTypes
<1>4. NestedTypes' /\ CapiInv'
    BY <1>1, <1>2, <1>3 DEF PlaneInv, NestedTypes, CapiInv, Kept
<1> QED
    BY <1>1, <1>2, <1>4, NestedStep

LEMMA CreateCrtsFacts ==
    ASSUME NestedShape(nested), NEW p, NEW k
    PROVE  NestedShape(CreateCrts(p, k)) /\ CreateCrts(p, k).infra = nested.infra
BY ShapeFacts DEF CreateCrts

LEMMA UnreadyFacts ==
    ASSUME parts \in [PartNames -> Part], NEW p \in PartNames
    PROVE  /\ Unready(p) \in [PartNames -> Part]
           /\ \A q \in PartNames : /\ Unready(p)[q].owned = parts[q].owned /\ Unready(p)[q].sts = parts[q].sts
                                   /\ Unready(p)[q].phase = "Ready" => parts[q].phase = "Ready"
BY DEF Unready, Part

LEMMA ComponentKeeps ==
    ASSUME PlaneInv, NEW p \in PartNames, ComponentReconcile(p)
    PROVE  PlaneInv'
<1>1. OfNested /\ UNCHANGED <<cluster, ncp, reads>>
    BY DEF ComponentReconcile, createNestedComponentSts, createCrtsFails, createStsFails, UpdatePhase
<1>2. faults \subseteq faults' /\ \A k \in {"early delete", "unregistered"} : k \in faults' => k \in faults
    BY NestedCalm DEF ComponentReconcile, createNestedComponentSts, createCrtsFails, createStsFails, UpdatePhase
<1>3. NestedShape(nested) /\ parts \in [PartNames -> Part]
    BY DEF PlaneInv, NestedTypes
<1>4. NestedShape(nested') /\ nested'.infra = nested.infra
    <2>1. \A k : NestedShape(CreateCrts(p, k)) /\ CreateCrts(p, k).infra = nested.infra
        BY <1>3, CreateCrtsFacts
    <2>2. \/ nested' = nested
          \/ \E k : nested' = CreateCrts(p, k)
          \/ \E k, x : nested' = [CreateCrts(p, k) EXCEPT !.svc = x]
        <3>1. CASE createNestedComponentSts(p)
            <4> DEFINE k == IF HasService(p) THEN Len(KeyPairs[p]) ELSE 0
                       crts == CreateCrts(p, k)
                       x == crts.svc \cup {y \in {p} : HasService(y)}
            <4>1. nested' = crts \/ nested' = [crts EXCEPT !.svc = x]
                BY <3>1 DEF createNestedComponentSts
            <4> QED
                BY <4>1
        <3>2. CASE createCrtsFails(p)
            BY <3>2 DEF createCrtsFails
        <3>3. CASE createStsFails(p)
            BY <3>3 DEF createStsFails
        <3>4. CASE UpdatePhase(p)
            BY <3>4 DEF UpdatePhase
        <3> QED
            BY <3>1, <3>2, <3>3, <3>4 DEF ComponentReconcile
    <2>3. CASE \E k, x : nested' = [CreateCrts(p, k) EXCEPT !.svc = x]
        <3>1. PICK k, x : nested' = [CreateCrts(p, k) EXCEPT !.svc = x]
            BY <2>3
        <3> DEFINE crts == CreateCrts(p, k)
        <3>2. NestedShape(crts) /\ crts.infra = nested.infra /\ nested' = [crts EXCEPT !.svc = x]
            BY <2>1, <3>1
        <3> HIDE DEF crts
        <3> QED
            BY <3>2, ShapeFacts
    <2> QED
        BY <1>3, <2>1, <2>2, <2>3
<1>5. \/ parts' = Unready(p)
      \/ parts' = [Unready(p) EXCEPT ![p].sts = "new"]
      \/ Sts(p) # "none" /\ parts' = [parts EXCEPT ![p].phase = "Ready"]
    BY DEF ComponentReconcile, createNestedComponentSts, createCrtsFails, createStsFails, UpdatePhase
<1>6. /\ parts' \in [PartNames -> Part]
      /\ \A q \in PartNames : /\ parts[q].owned => parts'[q].owned
                              /\ parts[q].sts # "none" => parts'[q].sts # "none"
                              /\ parts'[q].phase = "Ready" => parts[q].phase = "Ready" \/ parts'[q].sts # "none"
    <2>1. CASE parts' = Unready(p)
        BY <1>3, <2>1, UnreadyFacts
    <2>2. CASE parts' = [Unready(p) EXCEPT ![p].sts = "new"]
        <3> DEFINE u == Unready(p)
        <3>1. /\ u \in [PartNames -> Part]
              /\ \A q \in PartNames : /\ u[q].owned = parts[q].owned /\ u[q].sts = parts[q].sts
                                      /\ u[q].phase = "Ready" => parts[q].phase = "Ready"
            BY <1>3, UnreadyFacts
        <3>2. parts' = [u EXCEPT ![p].sts = "new"]
            BY <2>2
        <3> HIDE DEF u
        <3> QED
            BY <3>1, <3>2 DEF Part
    <2>3. CASE Sts(p) # "none" /\ parts' = [parts EXCEPT ![p].phase = "Ready"]
        BY <1>3, <2>3 DEF Sts, Part
    <2> QED
        BY <1>5, <2>1, <2>2, <2>3
<1>7. \A q \in PartNames : /\ parts[q].owned => parts'[q].owned
                           /\ Kept(q) => Kept(q)'
                           /\ parts'[q].phase = "Ready" => parts[q].phase = "Ready" \/ Kept(q)'
    BY <1>2, <1>6 DEF Kept
<1> QED
    BY <1>1, <1>2, <1>4, <1>6, <1>7, ComponentStep

\* Kubernetes, with what was made of the components.
LEMMA StatefulSetKeeps ==
    ASSUME PlaneInv, NEW p \in PartNames,
           StatefulSetUp(p) \/ StatefulSetCounted(p) \/ StatefulSetDown(p) \/ StatefulSetDeleted(p)
    PROVE  PlaneInv'
<1>1. OfNested /\ UNCHANGED <<cluster, ncp, nested, reads>>
    BY DEF StatefulSetUp, StatefulSetCounted, StatefulSetDown, StatefulSetDeleted
<1>2. faults \subseteq faults' /\ \A k \in {"early delete", "unregistered"} : k \in faults' => k \in faults
    BY NestedCalm DEF StatefulSetUp, StatefulSetCounted, StatefulSetDown, StatefulSetDeleted
<1>3. PICK sts \in {"none", "down", "up"} :
          parts' = [parts EXCEPT ![p].sts = sts] /\ (sts = "none" => "removed" \in faults')
    BY DEF StatefulSetUp, StatefulSetCounted, StatefulSetDown, StatefulSetDeleted, Event
<1>4. NestedShape(nested') /\ nested'.infra = nested.infra /\ parts \in [PartNames -> Part]
    BY <1>1 DEF PlaneInv, NestedTypes
<1>5. /\ parts' \in [PartNames -> Part]
      /\ \A q \in PartNames : /\ parts'[q].owned = parts[q].owned /\ parts'[q].phase = parts[q].phase
                              /\ parts'[q].sts = parts[q].sts \/ parts'[q].sts = sts
    BY <1>3, <1>4 DEF Part
<1>6. \A q \in PartNames : /\ parts[q].owned => parts'[q].owned
                           /\ Kept(q) => Kept(q)'
                           /\ parts'[q].phase = "Ready" => parts[q].phase = "Ready" \/ Kept(q)'
    BY <1>2, <1>3, <1>5 DEF Kept
<1> QED
    BY <1>1, <1>2, <1>4, <1>5, <1>6, ComponentStep

LEMMA CreatePartsKeeps ==
    ASSUME PlaneInv, CreateParts
    PROVE  PlaneInv'
<1>1. /\ OfNested /\ UNCHANGED <<cluster, ncp, nested, reads>> /\ NoEvent
      /\ parts' = [p \in PartNames |-> [parts[p] EXCEPT !.there = TRUE]]
    BY DEF CreateParts
<1>2. faults \subseteq faults' /\ \A k \in {"early delete", "unregistered"} : k \in faults' => k \in faults
    BY <1>1, NestedCalm
<1>3. NestedShape(nested') /\ nested'.infra = nested.infra /\ parts \in [PartNames -> Part]
    BY <1>1 DEF PlaneInv, NestedTypes
<1>4. /\ parts' \in [PartNames -> Part]
      /\ \A q \in PartNames : /\ parts'[q].owned = parts[q].owned /\ parts'[q].phase = parts[q].phase
                              /\ parts'[q].sts = parts[q].sts
    BY <1>1, <1>3 DEF Part
<1>5. \A q \in PartNames : /\ parts[q].owned => parts'[q].owned
                           /\ Kept(q) => Kept(q)'
                           /\ parts'[q].phase = "Ready" => parts[q].phase = "Ready" \/ Kept(q)'
    BY <1>2, <1>4 DEF Kept
<1> QED
    BY <1>1, <1>2, <1>3, <1>4, <1>5, ComponentStep

\* Cluster API and the user, with the Cluster.
LEMMA ClusterKeeps ==
    ASSUME PlaneInv, ClusterProvisioned \/ DeleteClusterDirectly \/ SetEndpoint \/ Pause
    PROVE  PlaneInv'
<1>1. OfNested /\ UNCHANGED <<ncp, nested, parts, reads>>
    BY DEF ClusterProvisioned, DeleteClusterDirectly, SetEndpoint, Pause
<1>2. faults \subseteq faults' /\ \A k \in {"early delete", "unregistered"} : k \in faults' => k \in faults
    BY NestedCalm DEF ClusterProvisioned, DeleteClusterDirectly, SetEndpoint, Pause
<1>3. /\ cluster' \in Cluster
      /\ cluster'.there = cluster.there /\ (cluster.deleting => cluster'.deleting)
      /\ cluster'.infra => cluster.infra \/ nested.infra
    BY DEF ClusterProvisioned, DeleteClusterDirectly, SetEndpoint, Pause, PlaneInv, NestedTypes, Cluster
<1>4. NestedTypes' /\ CapiInv'
    BY <1>1, <1>2, <1>3 DEF PlaneInv, NestedTypes, CapiInv, Kept
<1> QED
    BY <1>1, <1>2, <1>3, <1>4, NestedStep

LEMMA ClusterDeletedKeeps ==
    ASSUME PlaneInv, ClusterDeleted
    PROVE  PlaneInv'
<1>1. OfNested /\ NoEvent
    BY DEF ClusterDeleted
<1>2. faults \subseteq faults' /\ \A k \in {"early delete", "unregistered"} : k \in faults' => k \in faults
    BY <1>1, NestedCalm
<1>3. CASE /\ ncp' = [ncp EXCEPT !.deleting = TRUE, !.there = ncp.fin] /\ UNCHANGED cluster
           /\ nested' = NoNested /\ parts' = [p \in PartNames |-> NewPart] /\ reads' = "none"
    <2>1. /\ ncp' \in [there : BOOLEAN, fin : BOOLEAN, deleting : BOOLEAN, init : BOOLEAN, ready : BOOLEAN]
          /\ ncp'.ready = ncp.ready /\ ncp'.deleting
        BY <1>3 DEF PlaneInv, NestedTypes
    <2>2. NestedShape(nested') /\ ~nested'.infra
        BY <1>3 DEF NestedShape, NoNested
    <2>3. parts' \in [PartNames -> Part]
        BY <1>3 DEF NewPart, Part
    <2>4. NestedTypes' /\ CapiInv'
        BY <1>3, <2>1, <2>2, <2>3 DEF PlaneInv, NestedTypes, CapiInv
    <2> QED
        BY <1>1, <1>2, <1>3, <2>1, <2>4, NestedStep
<1>4. CASE cluster' = [cluster EXCEPT !.there = FALSE] /\ UNCHANGED <<ncp, nested, parts, reads>>
    <2>1. /\ cluster' \in Cluster
          /\ ~cluster'.there /\ cluster'.deleting = cluster.deleting /\ cluster'.infra = cluster.infra
        BY <1>4 DEF PlaneInv, NestedTypes, Cluster
    <2>2. NestedTypes' /\ CapiInv'
        BY <1>2, <1>4, <2>1 DEF PlaneInv, NestedTypes, CapiInv, Kept
    <2> QED
        BY <1>1, <1>2, <1>4, <2>1, <2>2, NestedStep
<1> QED
    BY <1>3, <1>4 DEF ClusterDeleted

-----------------------------------------------------------------------------
(* All steps *)

LEMMA InitPlaneInv == Init => PlaneInv
<1> SUFFICES ASSUME Init PROVE PlaneInv
    OBVIOUS
<1>1. w \in Worker /\ w.pc = "boot" /\ ~Running(w.mem)
    BY IdleFacts DEF Init, Worker, Pcs, Resting
<1>2. vc \in VCObject /\ vc.there /\ ~vc.fin /\ ~vc.deleting /\ ~Running(vc)
    BY IdleFacts DEF Init, NewVC, VCObject, Running
<1>3. ManagerTypes
    BY <1>1, <1>2, IdleFacts, BoundAssumption DEF Init, ManagerTypes
<1>4. PlaneTypes
    BY DEF Init, PlaneTypes, NoPlane, NoCloud, Plane, Cloud, PKI, NoPKI, StatefulSet
<1>5. NestedTypes
    BY DEF Init, NestedTypes, NestedShape, NoNested, NewPart, Part, Cluster
<1>6. SeenInv /\ MemInv /\ RetryInv /\ AliyunInv
    BY <1>1, <1>2, IdleFacts DEF Init, SeenInv, MemInv, RetryInv, AliyunInv, Sound, Working, Resting
<1>7. FinalizerInv
    BY <1>1, <1>2, IdleFacts DEF Init, FinalizerInv, NoCloud, Making
<1>8. NativeInv
    BY <1>1, NamesOfSecrets DEF Init, NativeInv, NoPlane
<1>9. CapiInv
    BY DEF Init, CapiInv, NoNested, NewPart
<1>10. ServedInv
    BY <1>1, <1>2, IdleFacts DEF Init, ServedInv, AnyRunning
<1> QED
    BY <1>3, <1>4, <1>5, <1>6, <1>7, <1>8, <1>9, <1>10 DEF PlaneInv

LEMMA StepPlaneInv == PlaneInv /\ [Next]_vars => PlaneInv'
<1> SUFFICES ASSUME PlaneInv, [Next]_vars PROVE PlaneInv'
    OBVIOUS
<1>1. CASE SeeVC
    BY <1>1, SeeVCKeeps
<1>2. CASE Provisioning
    BY <1>2, CreateVirtualClusterKeeps, UpgradeVirtualClusterKeeps, createAndApplyPKIKeeps, deployComponentKeeps,
       WaitStatefulSetReadyKeeps, CreateASKKeeps, PollASKKeeps, StoreKubeconfigKeeps, AnnotateVCKeeps,
       DeleteNodeControllerKeeps, DeletionKeeps DEF Provisioning
<1>3. CASE Platforms
    BY <1>3, StsKeeps, CloudKeeps DEF Platforms
<1>4. CASE Manager
    BY <1>4, StartKeeps, DeletionKeeps, RetryUpdateKeeps, ConflictKeeps, UpdateFailsKeeps, BootKeeps
    DEF Manager, Reconcile, ReconcileCAPI
<1>5. CASE Users
    BY <1>5, CrashKeeps, DeleteVCKeeps, EditVCKeeps, RequestUpgradeKeeps DEF Users
<1>6. CASE NestedControllers
    <2>1. "etcd" \in PartNames /\ "apiserver" \in PartNames /\ "controller-manager" \in PartNames
        BY NamesOfParts
    <2> QED
        BY <1>6, <2>1, NcpRegistersKeeps, PrepareKeeps, NcpFinishesKeeps, NcpFailsKeeps, NestedClusterReconcileKeeps,
           ComponentKeeps
        DEF NestedControllers, NestedEtcdReconcile, NestedAPIServerReconcile, NestedControllerManagerReconcile,
            ComponentReconcile
<1>7. CASE NestedOthers
    BY <1>7, CreatePartsKeeps, ClusterKeeps, ClusterDeletedKeeps, StatefulSetKeeps DEF NestedOthers
<1>8. CASE UNCHANGED vars
    <2>1. /\ UNCHANGED <<flavour, w, plane, cloud, cluster, ncp, vc, seen, old, version, faults>>
          /\ UNCHANGED nestedVars /\ UNCHANGED <<flavour, vcVars>>
        BY <1>8 DEF vars, vcVars, nestedVars, counts
    <2>2. ManagerTypes' /\ SeenInv' /\ MemInv'
        BY <2>1, KeepCopies DEF PlaneInv
    <2>3. FinalizerInv'
        BY <2>1 DEF PlaneInv, FinalizerInv, Registered, Dropped
    <2> QED
        BY <2>1, <2>2, <2>3, UserStep DEF Running
<1> QED
    BY <1>1, <1>2, <1>3, <1>4, <1>5, <1>6, <1>7, <1>8 DEF Next

LEMMA PlaneInvSuffices == PlaneInv => RunningIsServedAndNothingLeft
<1> SUFFICES ASSUME PlaneInv PROVE RunningIsServed /\ NothingLeft
    BY DEF RunningIsServedAndNothingLeft
<1>1. RunningIsServed
    <2> SUFFICES ASSUME vc.there, vc.status.phase = "Running" PROVE RunningIsServed
        BY DEF RunningIsServed
    <2>1. AnyRunning
        BY DEF AnyRunning, Running
    <2>2. CASE flavour = "native"
        BY <2>1, <2>2 DEF PlaneInv, ServedInv, ServedNative, RunningIsServed
    <2>3. CASE flavour = "aliyun"
        BY <2>1, <2>3 DEF PlaneInv, ServedInv, ServedAliyun, RunningIsServed, AnnotationNames
    <2>4. CASE flavour = "capi"
        BY <2>1, <2>4 DEF PlaneInv, ServedInv, CapiInv, Kept, Sts, RunningIsServed
    <2> QED
        BY <2>2, <2>3, <2>4 DEF PlaneInv, ManagerTypes
<1>2. NothingLeft
    BY DEF PlaneInv, SeenInv, Sound, FinalizerInv, Registered, Dropped, NothingLeft
<1> QED
    BY <1>1, <1>2

\* With each provisioner, and whatever fails, lags, crashes or is deleted meanwhile and however
\* often, a VirtualCluster in phase Running has a control plane to be used, and one that is
\* gone leaves no cluster of the cloud and no Cluster behind that nobody has told to go.
THEOREM ControlPlanesServed == Spec => []RunningIsServedAndNothingLeft
BY InitPlaneInv, StepPlaneInv, PlaneInvSuffices, PTL DEF Spec
=============================================================================
