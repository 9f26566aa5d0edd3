--------------------------- MODULE PodSyncProofs ---------------------------
(***************************************************************************)
(* Proofs about PodSync, for any number of tenant pods of the name, nodes  *)
(* and events: the syncer never deletes the super pod of a living tenant   *)
(* pod.                                                                    *)
(***************************************************************************)
EXTENDS PodSync, FiniteSetTheorems, TLAPS

(* The shape of the state *)

NodeName == Node \cup {None, Pinned}
Worker(pcs) == [pc : pcs, v : VPod \cup {None}, p : PPod \cup {None}]
DwsPc == {"idle", "create", "delete", "update"}
UwsPc == {"idle", "bind", "refetch", "status", "delete"}
PatrolPc == {"idle", "listed", "check", "force", "grace", "orphan"}

TypeInv ==
    /\ vPod \in VPod \cup {None} /\ vCache \in VPod \cup {None}
    /\ pPod \in PPod \cup {None} /\ pCache \in PPod \cup {None}
    /\ dws \in [Uid -> Worker(DwsPc)] /\ uws \in Worker(UwsPc) /\ patrol \in Worker(PatrolPc)
    /\ used \subseteq Uid

\* A worker that is to make a call has the copies the call needs.
CopiesInv ==
    /\ \A u \in Uid : /\ dws[u].pc \in {"create", "update"} => dws[u].v # None
                      /\ dws[u].pc \in {"delete", "update"} => dws[u].p # None
    /\ uws.pc # "idle" => uws.p # None
    /\ uws.pc \in {"status", "delete"} => uws.v # None
    /\ patrol.pc = "orphan" => patrol.p # None

-----------------------------------------------------------------------------
(* What copies tell of the tenant pod that there is now *)

\* The tenant pod of UID u, if it is still there, has been seen by the informer.
Known(u) ==
    u \in used /\ (vPod # None /\ vPod.uid = u => vCache # None /\ vCache.uid = u)
\* It is gone or going.
Doomed(u) == u \in used /\ ~(vPod # None /\ vPod.uid = u /\ ~vPod.deleting)

SuperCopies == Copies \ {None}

TenantInv ==
    /\ vPod # None => vPod.uid \in used
    /\ vCache # None => vCache.uid \in used /\ (vCache.deleting => Doomed(vCache.uid))

\* Super pods were made from tenant pods that the informer had seen.
OwnersInv ==
    /\ \A c \in SuperCopies : Known(c.owner)
    /\ \A u \in Uid : dws[u].pc = "create" => Known(dws[u].v.uid)

\* The UID of a super pod tells which pod it is: two copies with the same UID are of the
\* same tenant pod.
IdsInv == \A c, d \in SuperCopies : c.id = d.id => c.owner = d.owner

\* A deletion is decided on only for a tenant pod that is gone or going.
DecidedInv ==
    /\ \A u \in Uid : dws[u].pc = "delete" => Doomed(dws[u].p.owner)
    /\ patrol.pc = "orphan" => Doomed(patrol.p.owner)

PodInv == TypeInv /\ CopiesInv /\ TenantInv /\ OwnersInv /\ IdsInv /\ DecidedInv

-----------------------------------------------------------------------------
(* Records *)

LEMMA DeletedV ==
    ASSUME NEW v \in VPod
    PROVE  /\ Deleted(v) \in VPod \cup {None}
           /\ Deleted(v) # None => Deleted(v).uid = v.uid /\ Deleted(v).deleting
    BY DEF VPod, Deleted

LEMMA DeletedP ==
    ASSUME NEW p \in PPod
    PROVE  /\ Deleted(p) \in PPod \cup {None}
           /\ Deleted(p) # None => Deleted(p).id = p.id /\ Deleted(p).owner = p.owner
    BY DEF PPod, Deleted

LEMMA AtType ==
    ASSUME NEW pcs, NEW pc \in pcs, NEW v \in VPod \cup {None}, NEW p \in PPod \cup {None}
    PROVE  /\ At(pc, v, p) \in Worker(pcs)
           /\ At(pc, v, p).pc = pc /\ At(pc, v, p).v = v /\ At(pc, v, p).p = p
    BY DEF At, Worker

LEMMA IdleType ==
    ASSUME NEW pcs, "idle" \in pcs
    PROVE  Idle \in Worker(pcs) /\ Idle.pc = "idle" /\ Idle.v = None /\ Idle.p = None
    BY DEF Idle, Worker

LEMMA DwsType ==
    ASSUME TypeInv, NEW u \in Uid
    PROVE  dws[u].pc \in DwsPc /\ dws[u].v \in VPod \cup {None} /\ dws[u].p \in PPod \cup {None}
    BY DEF TypeInv, Worker

LEMMA UwsType ==
    ASSUME TypeInv
    PROVE  uws.pc \in UwsPc /\ uws.v \in VPod \cup {None} /\ uws.p \in PPod \cup {None}
    BY DEF TypeInv, Worker

LEMMA PatrolType ==
    ASSUME TypeInv
    PROVE  /\ patrol.pc \in PatrolPc
           /\ patrol.v \in VPod \cup {None} /\ patrol.p \in PPod \cup {None}
    BY DEF TypeInv, Worker

-----------------------------------------------------------------------------
(* There are more UIDs for super pods than copies, so a new pod gets a UID  *)
(* that none of them bears.                                                 *)

LEMMA CopiesType ==
    ASSUME TypeInv
    PROVE  \A c \in SuperCopies : c \in PPod
    BY DwsType, PatrolType DEF SuperCopies, Copies, TypeInv

LEMMA OneMore ==
    ASSUME NEW S, IsFiniteSet(S), NEW x, NEW k \in Nat, Cardinality(S) <= k
    PROVE  IsFiniteSet(S \cup {x}) /\ Cardinality(S \cup {x}) <= k + 1
<1>1. Cardinality(S) \in Nat
    BY FS_CardinalityType
<1>2. /\ IsFiniteSet(S \cup {x})
      /\ Cardinality(S \cup {x}) = IF x \in S THEN Cardinality(S) ELSE Cardinality(S) + 1
    BY FS_AddElement
<1> QED
    BY <1>1, <1>2

LEMMA FewCopies ==
    ASSUME TypeInv
    PROVE  IsFiniteSet(SuperCopies) /\ Cardinality(SuperCopies) < Cardinality(SuperUid)
           /\ IsFiniteSet(SuperUid)
<1> DEFINE n == Cardinality(Uid)
           D == {dws[u].p : u \in Uid}
           f == [u \in Uid |-> dws[u].p]
<1>1. IsFiniteSet(Uid) /\ n \in Nat
    BY EventsAssumption, FS_CardinalityType
<1>2. IsFiniteSet(D) /\ Cardinality(D) <= n /\ Cardinality(D) \in Nat
    <2>1. f \in Surjection(Uid, D)
        BY DEF Surjection
    <2>2. IsFiniteSet(D) /\ Cardinality(D) <= n
        BY <1>1, <2>1, FS_Surjection
    <2> QED
        BY <2>2, FS_CardinalityType
<1> HIDE DEF D, n
<1> DEFINE D1 == D \cup {pPod}
           D2 == D1 \cup {pCache}
           D3 == D2 \cup {patrol.p}
<1>a. n + 1 \in Nat /\ (n + 1) + 1 \in Nat
    BY <1>1
<1>3. IsFiniteSet(D1) /\ Cardinality(D1) <= n + 1
    BY <1>1, <1>2, OneMore
<1> HIDE DEF D1
<1>4. IsFiniteSet(D2) /\ Cardinality(D2) <= (n + 1) + 1
    BY <1>a, <1>3, OneMore, Zenon
<1> HIDE DEF D2
<1>5. IsFiniteSet(D3) /\ Cardinality(D3) <= ((n + 1) + 1) + 1
    BY <1>a, <1>4, OneMore, Zenon
<1>6. SuperCopies \in SUBSET D3
    BY DEF SuperCopies, Copies, D, D1, D2
<1> HIDE DEF D3
<1>7. IsFiniteSet(SuperCopies) /\ Cardinality(SuperCopies) <= Cardinality(D3)
    BY <1>5, <1>6, FS_Subset
<1>8. Cardinality(SuperCopies) \in Nat /\ Cardinality(D3) \in Nat
    BY <1>5, <1>7, FS_CardinalityType
<1>9. IsFiniteSet(SuperUid) /\ Cardinality(SuperUid) = n + 4
    BY <1>1, FS_Interval DEF SuperUid, n
<1> QED
    BY <1>1, <1>5, <1>7, <1>8, <1>9

LEMMA FreshId ==
    ASSUME TypeInv
    PROVE  \E i \in SuperUid : \A c \in SuperCopies : c.id # i
<1> SUFFICES ASSUME \A i \in SuperUid : \E c \in SuperCopies : c.id = i
             PROVE  FALSE
    OBVIOUS
<1> DEFINE f == [i \in SuperUid |-> CHOOSE c \in SuperCopies : c.id = i]
<1>1. \A i \in SuperUid : f[i] \in SuperCopies /\ f[i].id = i
    OBVIOUS
<1>2. f \in [SuperUid -> SuperCopies]
    BY <1>1
<1> HIDE DEF f
<1>3. \E x, y \in SuperUid : x # y /\ f[x] = f[y]
    BY <1>2, FewCopies, FS_PigeonHole
<1> QED
    BY <1>1, <1>3

LEMMA NewPodFresh ==
    ASSUME TypeInv, NEW v \in VPod
    PROVE  /\ NewPod(v) \in PPod /\ NewPod(v).owner = v.uid
           /\ \A c \in SuperCopies : c.id # NewPod(v).id
<1> DEFINE i == CHOOSE j \in SuperUid : \A c \in Copies \ {None} : c.id # j
<1>1. i \in SuperUid /\ \A c \in SuperCopies : c.id # i
    BY FreshId, Zenon DEF SuperCopies
<1>2. NewPod(v) = [id |-> i, owner |-> v.uid, deleting |-> FALSE, node |-> v.node,
                   spec |-> v.spec, status |-> 0]
    BY DEF NewPod
<1> HIDE DEF i
<1> QED
    BY <1>1, <1>2 DEF VPod, PPod

-----------------------------------------------------------------------------
(* Each step keeps the shape of the state. *)

ShapeInv == TypeInv /\ CopiesInv

LEMMA InitShape == Init => ShapeInv
    BY IdleType DEF Init, ShapeInv, TypeInv, CopiesInv, DwsPc, UwsPc, PatrolPc

\* The actions that change no more than the two pods and the informers' caches.
LEMMA ShapeOutside ==
    ASSUME ShapeInv, vPod' \in VPod \cup {None}, vCache' \in VPod \cup {None},
           pPod' \in PPod \cup {None}, pCache' \in PPod \cup {None}, used' \subseteq Uid,
           UNCHANGED workers
    PROVE  ShapeInv'
    BY DEF ShapeInv, TypeInv, CopiesInv, workers

LEMMA ShapeDws ==
    ASSUME ShapeInv, NEW u \in Uid, NEW w \in Worker(DwsPc),
           w.pc \in {"create", "update"} => w.v # None,
           w.pc \in {"delete", "update"} => w.p # None,
           dws' = [dws EXCEPT ![u] = w], pPod' \in PPod \cup {None},
           UNCHANGED <<vPod, caches, uws, patrol, used>>
    PROVE  ShapeInv'
<1>1. dws' \in [Uid -> Worker(DwsPc)]
    BY DEF ShapeInv, TypeInv
<1>2. \A t \in Uid : dws'[t] = IF t = u THEN w ELSE dws[t]
    BY DEF ShapeInv, TypeInv
<1> QED
    BY <1>1, <1>2 DEF ShapeInv, TypeInv, CopiesInv, caches

LEMMA ShapeUws ==
    ASSUME ShapeInv, NEW w \in Worker(UwsPc),
           w.pc # "idle" => w.p # None,
           w.pc \in {"status", "delete"} => w.v # None,
           UwsStep(w), vPod' \in VPod \cup {None}, UNCHANGED used
    PROVE  ShapeInv'
    BY DEF ShapeInv, TypeInv, CopiesInv, caches, UwsStep

LEMMA ShapePatrol ==
    ASSUME ShapeInv, NEW w \in Worker(PatrolPc),
           w.pc = "orphan" => w.p # None, PatrolStep(w),
           vPod' \in VPod \cup {None}, pPod' \in PPod \cup {None}
    PROVE  ShapeInv'
    BY DEF ShapeInv, TypeInv, CopiesInv, caches, PatrolStep

LEMMA FreshUid ==
    ASSUME used \subseteq Uid, used # Uid
    PROVE  LET u == CHOOSE w \in Uid : w \notin used IN u \in Uid /\ u \notin used
<1>1. \E w \in Uid : w \notin used
    OBVIOUS
<1> QED
    BY <1>1, Zenon

-----------------------------------------------------------------------------
(* What a step does to the facts that copies tell *)

\* The pod that has the name stays the same one, which does not come back to life.
SameTenant ==
    vPod' # None => vPod # None /\ vPod'.uid = vPod.uid /\ (vPod.deleting => vPod'.deleting)
\* A new pod has a new UID; the informer's copy changes to what there is.
Ages ==
    /\ used \subseteq used'
    /\ vPod' # None => vPod'.uid \in used'
    /\ vPod' # None /\ vPod'.uid \in used => SameTenant
    /\ vCache' = vCache \/ (vCache' = vPod /\ vPod' = vPod)

SameSuper == pPod' # None => pPod # None /\ pPod'.id = pPod.id /\ pPod'.owner = pPod.owner
NewSuper == Known(pPod'.owner) /\ \A c \in SuperCopies : c.id # pPod'.id
Moves ==
    /\ SameSuper \/ NewSuper
    /\ pCache' \in {pCache, pPod}
    /\ patrol'.p \in {None, patrol.p, pCache}
    /\ \A u \in Uid : dws'[u].p \in {None, dws[u].p, pCache}
Decisions ==
    /\ \A u \in Uid : /\ dws'[u].pc = "create" => Known(dws'[u].v.uid)
                      /\ dws'[u].pc = "delete" => Doomed(dws'[u].p.owner)
    /\ patrol'.pc = "orphan" => Doomed(patrol'.p.owner)

Step == ShapeInv' /\ Ages /\ Moves /\ Decisions

LEMMA Stable ==
    ASSUME Ages, NEW u
    PROVE  (Known(u) => Known(u)') /\ (Doomed(u) => Doomed(u)')
    BY DEF Ages, SameTenant, Known, Doomed

LEMMA CopiesAre ==
    ASSUME NEW c
    PROVE  c \in SuperCopies <=>
               c # None /\ (c \in {pPod, pCache, patrol.p} \/ \E u \in Uid : c = dws[u].p)
    BY DEF SuperCopies, Copies

\* Every copy after a step is that of a pod there were copies of, or of the new pod.
LEMMA CopiesStep ==
    ASSUME PodInv, Moves, NEW c \in SuperCopies'
    PROVE  \/ \E d \in SuperCopies : d.id = c.id /\ d.owner = c.owner
           \/ c = pPod' /\ NewSuper
<1>1. c # None /\ (c \in {pPod', pCache', patrol'.p} \/ \E u \in Uid : c = dws'[u].p)
    BY DEF SuperCopies, Copies
<1>2. CASE c = pPod'
    <2>1. CASE SameSuper
        <3>1. pPod \in SuperCopies /\ pPod.id = c.id /\ pPod.owner = c.owner
            BY <1>1, <1>2, <2>1, CopiesAre DEF SameSuper
        <3> QED
            BY <3>1
    <2> QED
        BY <1>2, <2>1 DEF Moves
<1>3. CASE c \in {pCache', patrol'.p} \/ \E u \in Uid : c = dws'[u].p
    <2>1. c \in SuperCopies
        BY <1>1, <1>3, CopiesAre DEF Moves
    <2> QED
        BY <2>1
<1> QED
    BY <1>1, <1>2, <1>3

LEMMA StepKeeps ==
    ASSUME PodInv, Step
    PROVE  PodInv'
<1> USE DEF Step
<1>1. TenantInv'
    <2>1. vPod' # None => vPod'.uid \in used'
        BY DEF Ages
    <2>2. CASE vCache' = vCache
        BY <2>1, <2>2, Stable DEF PodInv, TenantInv, Ages
    <2>3. CASE vCache' = vPod /\ vPod' = vPod
        BY <2>1, <2>3 DEF TenantInv, Doomed
    <2> QED
        BY <2>2, <2>3 DEF Ages
<1>2. OwnersInv'
    <2>1. ASSUME NEW c \in SuperCopies' PROVE Known(c.owner)'
        <3>1. Known(c.owner)
            BY CopiesStep DEF PodInv, OwnersInv, NewSuper
        <3> QED
            BY <3>1, Stable
    <2>2. ASSUME NEW u \in Uid, dws'[u].pc = "create" PROVE Known(dws[u].v.uid)'
        BY <2>2 DEF Decisions, Known, Ages, SameTenant
    <2> QED
        BY <2>1, <2>2 DEF OwnersInv
<1>3. IdsInv'
    <2> SUFFICES ASSUME NEW c \in SuperCopies', NEW d \in SuperCopies', c.id = d.id
                 PROVE  c.owner = d.owner
        BY DEF IdsInv
    <2> QED
        BY CopiesStep DEF PodInv, IdsInv, NewSuper
<1>4. DecidedInv'
    BY DEF Decisions, DecidedInv, Doomed, Ages, SameTenant
<1> QED
    BY <1>1, <1>2, <1>3, <1>4 DEF PodInv, ShapeInv

-----------------------------------------------------------------------------
(* The steps of the tenant, the super cluster and the informers *)

\* They leave the workers alone, so there is nothing to show but what they do to the
\* pods and the caches.
LEMMA OutsideStep ==
    ASSUME PodInv, UNCHANGED workers,
           vPod' \in VPod \cup {None}, pPod' \in PPod \cup {None}, used' \subseteq Uid, Ages,
           SameSuper, pCache' \in {pCache, pPod}
    PROVE  Step
<1>1. ShapeInv'
    <2>1. vCache' \in VPod \cup {None} /\ pCache' \in PPod \cup {None}
        BY DEF PodInv, TypeInv, Ages
    <2> QED
        BY <2>1, ShapeOutside DEF PodInv, ShapeInv
<1>2. Moves
    BY DEF Moves, workers
<1>3. Decisions
    BY DEF Decisions, workers, PodInv, OwnersInv, DecidedInv
<1> QED
    BY <1>1, <1>2, <1>3 DEF Step

LEMMA CreateVStep ==
    ASSUME PodInv, NEW node \in {None, Pinned}, CreateV(node)
    PROVE  Step
<1> DEFINE u == CHOOSE w \in Uid : w \notin used
<1>1. u \in Uid /\ u \notin used
    BY FreshUid DEF CreateV, PodInv, TypeInv
<1>2. /\ vPod' = [uid |-> u, deleting |-> FALSE, node |-> node, spec |-> 0, status |-> 0]
      /\ used' = used \cup {u}
      /\ UNCHANGED <<pPod, caches, workers>>
    BY DEF CreateV, TenantStep
<1> HIDE DEF u
<1>3. vPod' \in VPod /\ vPod'.uid = u
    BY <1>1, <1>2 DEF VPod
<1>4. Ages
    BY <1>1, <1>2, <1>3 DEF Ages, caches
<1>5. pPod' \in PPod \cup {None} /\ used' \subseteq Uid /\ SameSuper /\ pCache' = pCache
    BY <1>1, <1>2 DEF SameSuper, caches, PodInv, TypeInv
<1> QED
    BY <1>2, <1>3, <1>4, <1>5, OutsideStep

LEMMA TenantSteps ==
    ASSUME PodInv, UpdateV \/ DeleteV
    PROVE  Step
<1>1. UNCHANGED <<pPod, caches, workers, used>> /\ vPod \in VPod
    BY DEF UpdateV, DeleteV, TenantStep, PodInv, TypeInv
<1>2. vPod' \in VPod \cup {None} /\ SameTenant
    <2>1. CASE UpdateV
        <3>1. vPod' = [vPod EXCEPT !.spec = 1]
            BY <2>1 DEF UpdateV
        <3> QED
            BY <1>1, <3>1, NoneAssumption DEF SameTenant, VPod
    <2>2. CASE DeleteV
        <3>1. vPod' \in {Deleted(vPod), None}
            BY <2>2 DEF DeleteV
        <3> QED
            BY <1>1, <3>1, NoneAssumption, DeletedV DEF SameTenant
    <2> QED
        BY <2>1, <2>2
<1>3. Ages
    BY <1>1, <1>2 DEF Ages, SameTenant, caches, PodInv, TenantInv
<1>4. pPod' \in PPod \cup {None} /\ used' \subseteq Uid /\ SameSuper /\ pCache' = pCache
    BY <1>1 DEF SameSuper, caches, PodInv, TypeInv
<1> QED
    BY <1>1, <1>2, <1>3, <1>4, OutsideStep

LEMMA SuperSteps ==
    ASSUME PodInv, (\E n \in Node : ScheduleP(n)) \/ RunP \/ EvictP \/ FinishP
    PROVE  Step
<1>1. UNCHANGED <<vPod, caches, workers, used>> /\ pPod \in PPod
    BY DEF ScheduleP, RunP, EvictP, FinishP, SuperStep, assignedPod, bounds, PodInv, TypeInv
<1>2. pPod' \in PPod \cup {None} /\ SameSuper
    <2>1. CASE \E n \in Node : ScheduleP(n)
        <3>1. PICK n \in Node : pPod' = [pPod EXCEPT !.node = n]
            BY <2>1 DEF ScheduleP
        <3> QED
            BY <1>1, <3>1, NoneAssumption DEF SameSuper, PPod
    <2>2. CASE RunP
        <3>1. pPod' = [pPod EXCEPT !.status = 1]
            BY <2>2 DEF RunP
        <3> QED
            BY <1>1, <3>1, NoneAssumption DEF SameSuper, PPod
    <2>3. CASE EvictP \/ FinishP
        <3>1. pPod' \in {Deleted(pPod), None}
            BY <2>3 DEF EvictP, FinishP
        <3> QED
            BY <1>1, <3>1, NoneAssumption, DeletedP DEF SameSuper
    <2> QED
        BY <2>1, <2>2, <2>3
<1>3. Ages
    BY <1>1 DEF Ages, SameTenant, caches, PodInv, TenantInv
<1>4. vPod' \in VPod \cup {None} /\ used' \subseteq Uid /\ pCache' = pCache
    BY <1>1 DEF caches, PodInv, TypeInv
<1> QED
    BY <1>1, <1>2, <1>3, <1>4, OutsideStep

LEMMA InformerSteps ==
    ASSUME PodInv, SeeV \/ SeeP
    PROVE  Step
<1>1. UNCHANGED <<pods, workers, used>>
    BY DEF SeeV, SeeP, bounds
<1>2. Ages
    BY DEF SeeV, SeeP, Ages, SameTenant, pods, bounds, PodInv, TenantInv
<1>3. pCache' \in {pCache, pPod} /\ SameSuper
    BY DEF SeeV, SeeP, SameSuper, pods
<1>4. vPod' \in VPod \cup {None} /\ pPod' \in PPod \cup {None} /\ used' \subseteq Uid
    BY <1>1 DEF pods, PodInv, TypeInv
<1> QED
    BY <1>1, <1>2, <1>3, <1>4, OutsideStep

LEMMA RestartStep ==
    ASSUME PodInv, Restart
    PROVE  Step
<1>1. /\ UNCHANGED <<vPod, pPod, used>> /\ vCache' = vPod /\ pCache' = pPod
      /\ dws' = [u \in Uid |-> Idle] /\ uws' = Idle /\ patrol' = Idle
    BY DEF Restart, pods
<1>2. Idle.pc = "idle" /\ Idle.p = None /\ Idle.v = None
    BY DEF Idle
<1>3. ShapeInv'
    BY <1>1, <1>2, IdleType DEF ShapeInv, PodInv, TypeInv, CopiesInv, DwsPc, UwsPc, PatrolPc
<1>4. Ages
    BY <1>1 DEF Ages, SameTenant, PodInv, TenantInv
<1>5. Moves /\ Decisions
    BY <1>1, <1>2 DEF Moves, Decisions, SameSuper
<1> QED
    BY <1>3, <1>4, <1>5 DEF Step

-----------------------------------------------------------------------------
(* The downward worker *)

\* What an informer has seen, it knows; what it no longer has, or has as going, is
\* gone or going.
LEMMA SeenIsKnown ==
    ASSUME PodInv, vCache # None
    PROVE  Known(vCache.uid)
    BY DEF PodInv, TenantInv, Known

LEMMA UnseenIsDoomed ==
    ASSUME PodInv, NEW c \in SuperCopies,
           vCache = None \/ vCache.uid # c.owner \/ vCache.deleting
    PROVE  Doomed(c.owner)
<1>1. Known(c.owner)
    BY DEF PodInv, OwnersInv
<1>2. CASE vCache = None \/ vCache.uid # c.owner
    BY <1>1, <1>2 DEF Known, Doomed
<1>3. CASE vCache # None /\ vCache.uid = c.owner /\ vCache.deleting
    BY <1>3 DEF PodInv, TenantInv
<1> QED
    BY <1>2, <1>3

\* A step of the worker of u, which leaves the tenant pod and the caches alone.
LEMMA DwsStep ==
    ASSUME PodInv, NEW u \in Uid, NEW w \in Worker(DwsPc),
           w.pc \in {"create", "update"} => w.v # None,
           w.pc \in {"delete", "update"} => w.p # None,
           w.p \in {None, pCache},
           w.pc = "create" => Known(w.v.uid),
           w.pc = "delete" => Doomed(w.p.owner),
           dws' = [dws EXCEPT ![u] = w],
           pPod' \in PPod \cup {None}, SameSuper \/ NewSuper,
           UNCHANGED <<vPod, caches, uws, patrol, used>>
    PROVE  Step
<1>1. ShapeInv'
    BY ShapeDws DEF PodInv, ShapeInv
<1>2. \A t \in Uid : dws'[t] = IF t = u THEN w ELSE dws[t]
    BY DEF PodInv, TypeInv
<1>3. Ages
    BY DEF Ages, SameTenant, caches, PodInv, TenantInv
<1>4. Moves
    BY <1>2 DEF Moves, caches
<1>5. Decisions
    BY <1>2 DEF Decisions, PodInv, OwnersInv, DecidedInv
<1> QED
    BY <1>1, <1>3, <1>4, <1>5 DEF Step

LEMMA ReconcileStep ==
    ASSUME PodInv, NEW u \in Uid, Reconcile(u)
    PROVE  Step
<1> USE DEF caches
<1>0. /\ UNCHANGED <<vPod, pPod, caches, uws, patrol, used>>
      /\ pPod' \in PPod \cup {None} /\ SameSuper
      /\ vCache \in VPod \cup {None} /\ pCache \in PPod \cup {None} /\ None \in VPod \cup {None}
      /\ None \in PPod \cup {None}
    BY DEF Reconcile, pods, bounds, SameSuper, PodInv, TypeInv
<1>1. CASE Mismatch(u, pCache)
    <2>1. UNCHANGED dws
        BY <1>1 DEF Reconcile
    <2>2. ShapeInv' /\ Ages /\ Moves /\ Decisions
        BY <1>0, <2>1 DEF PodInv, ShapeInv, TypeInv, CopiesInv, Ages, SameTenant, TenantInv,
            Moves, Decisions, OwnersInv, DecidedInv
    <2> QED
        BY <2>2 DEF Step
<1>2. CASE ~Mismatch(u, pCache)
    <2> DEFINE w == CASE MustCreate(vCache, pCache) -> At("create", vCache, None)
                      [] MustDelete(vCache, pCache) -> At("delete", None, pCache)
                      [] MustUpdate(vCache, pCache) -> At("update", vCache, pCache)
                      [] OTHER -> Idle
    <2>1. dws' = [dws EXCEPT ![u] = w]
        BY <1>2 DEF Reconcile
    <2>2. \/ MustCreate(vCache, pCache) /\ w = At("create", vCache, None)
          \/ MustDelete(vCache, pCache) /\ w = At("delete", None, pCache)
          \/ MustUpdate(vCache, pCache) /\ w = At("update", vCache, pCache)
          \/ w = Idle
        OBVIOUS
    <2> HIDE DEF w
    <2>3. /\ w \in Worker(DwsPc)
          /\ w.pc \in {"create", "update"} => w.v # None
          /\ w.pc \in {"delete", "update"} => w.p # None
          /\ w.p \in {None, pCache}
          /\ w.pc = "create" => Known(w.v.uid)
          /\ w.pc = "delete" => Doomed(w.p.owner)
        <3>1. CASE MustCreate(vCache, pCache) /\ w = At("create", vCache, None)
            <4>1. w \in Worker(DwsPc) /\ w.pc = "create" /\ w.v = vCache /\ w.p = None
                BY <1>0, <3>1 DEF At, Worker, DwsPc
            <4> QED
                BY <3>1, <4>1, SeenIsKnown DEF MustCreate
        <3>2. CASE MustDelete(vCache, pCache) /\ w = At("delete", None, pCache)
            <4>1. pCache # None /\ pCache \in SuperCopies
                BY <3>2, CopiesAre DEF MustDelete
            <4>2. Doomed(pCache.owner)
                BY <3>2, <4>1, UnseenIsDoomed DEF MustDelete
            <4>3. w \in Worker(DwsPc) /\ w.pc = "delete" /\ w.v = None /\ w.p = pCache
                BY <1>0, <3>2 DEF At, Worker, DwsPc
            <4> QED
                BY <4>1, <4>2, <4>3
        <3>3. CASE MustUpdate(vCache, pCache) /\ w = At("update", vCache, pCache)
            <4>1. w \in Worker(DwsPc) /\ w.pc = "update" /\ w.v = vCache /\ w.p = pCache
                BY <1>0, <3>3 DEF At, Worker, DwsPc
            <4> QED
                BY <3>3, <4>1 DEF MustUpdate
        <3>4. CASE w = Idle
            BY <3>4, IdleType DEF DwsPc
        <3> QED
            BY <2>2, <3>1, <3>2, <3>3, <3>4
    <2> QED
        BY <1>0, <2>1, <2>3, DwsStep
<1> QED
    BY <1>1, <1>2

LEMMA DwsSteps ==
    ASSUME PodInv, NEW u \in Uid, Dws(u)
    PROVE  Step
<1>1. /\ dws' = [dws EXCEPT ![u] = Idle]
      /\ UNCHANGED <<vPod, caches, uws, patrol, used>>
    BY DEF Dws, reconcilePodCreate, reconcilePodRemove, reconcilePodUpdate, ReconcileFails,
        DeletePPod, DwsCall, Succeeds, Rejected, bounds
<1>2. pPod' \in PPod \cup {None} /\ (SameSuper \/ NewSuper)
    <2>1. CASE UNCHANGED pPod
        BY <2>1 DEF SameSuper, PodInv, TypeInv
    <2>2. CASE reconcilePodCreate(u) /\ pPod' # pPod
        <3>1. dws[u].pc = "create" /\ pPod' = NewPod(dws[u].v)
            BY <2>2 DEF reconcilePodCreate, DwsCall, Succeeds, Rejected
        <3>2. dws[u].v \in VPod /\ Known(dws[u].v.uid)
            BY <3>1, DwsType DEF PodInv, CopiesInv, OwnersInv
        <3> QED
            BY <3>1, <3>2, NewPodFresh DEF NewSuper, PodInv
    <2>3. CASE reconcilePodRemove(u) /\ pPod' # pPod
        <3>1. pPod # None /\ pPod' = Deleted(pPod)
            BY <2>3 DEF reconcilePodRemove, DeletePPod, Succeeds, Rejected
        <3> QED
            BY <3>1, DeletedP DEF SameSuper, PodInv, TypeInv
    <2>4. CASE reconcilePodUpdate(u) /\ pPod' # pPod
        <3>1. /\ dws[u].pc = "update" /\ pPod = dws[u].p
              /\ pPod' = [pPod EXCEPT !.spec = dws[u].v.spec]
            BY <2>4 DEF reconcilePodUpdate, DwsCall, Succeeds, Rejected
        <3>2. pPod \in PPod /\ dws[u].v \in VPod
            BY <3>1, DwsType DEF PodInv, CopiesInv, TypeInv
        <3>3. dws[u].v.spec \in 0..1
            BY <3>2 DEF VPod
        <3> QED
            BY <3>1, <3>2, <3>3, NoneAssumption DEF SameSuper, PPod
    <2>5. CASE ReconcileFails(u)
        BY <2>1, <2>5 DEF ReconcileFails
    <2> QED
        BY <2>1, <2>2, <2>3, <2>4, <2>5 DEF Dws
<1>3. Idle \in Worker(DwsPc) /\ Idle.pc = "idle" /\ Idle.p = None
    BY IdleType DEF DwsPc
<1> QED
    BY <1>1, <1>2, <1>3, DwsStep

-----------------------------------------------------------------------------
(* The upward worker *)

LEMMA UwsStepStep ==
    ASSUME PodInv, NEW w \in Worker(UwsPc),
           w.pc # "idle" => w.p # None,
           w.pc \in {"status", "delete"} => w.v # None,
           UwsStep(w), vPod' \in VPod \cup {None}, SameTenant, UNCHANGED used
    PROVE  Step
<1>1. ShapeInv'
    BY ShapeUws DEF PodInv, ShapeInv
<1>2. Ages
    BY DEF Ages, SameTenant, UwsStep, caches, PodInv, TenantInv
<1>3. Moves /\ Decisions
    BY DEF UwsStep, caches, Moves, SameSuper, Decisions, PodInv, OwnersInv, DecidedInv
<1> QED
    BY <1>1, <1>2, <1>3 DEF Step

LEMMA UwsIdleStep ==
    ASSUME PodInv, UwsStep(Idle), vPod' \in VPod \cup {None}, SameTenant, UNCHANGED used
    PROVE  Step
<1>1. Idle \in Worker(UwsPc) /\ Idle.pc = "idle"
    BY IdleType DEF UwsPc
<1> QED
    BY <1>1, UwsStepStep

LEMMA UwsErrorStep ==
    ASSUME PodInv, UwsError, UNCHANGED used
    PROVE  Step
<1>1. UwsStep(Idle) /\ vPod' \in VPod \cup {None} /\ SameTenant
    BY DEF UwsError, SameTenant, PodInv, TypeInv
<1> QED
    BY <1>1, UwsIdleStep

\* What BackPopulate has still to do, it has the copies for.
LEMMA AfterBindShape ==
    ASSUME NEW v \in VPod, NEW p \in PPod, NEW w \in {AfterBind(v, p), AfterStatus(v, p)}
    PROVE  /\ w \in Worker(UwsPc)
           /\ w.pc # "idle" => w.p # None
           /\ w.pc \in {"status", "delete"} => w.v # None
<1>1. w \in {At("status", v, p), At("delete", v, p), Idle}
    BY DEF AfterBind, AfterStatus
<1> QED
    BY <1>1, NoneAssumption DEF At, Idle, Worker, UwsPc

LEMMA BackPopulateStep ==
    ASSUME PodInv, BackPopulate
    PROVE  Step
<1>1. UNCHANGED used /\ vPod' \in VPod \cup {None} /\ SameTenant
    BY DEF BackPopulate, bounds, SameTenant, PodInv, TypeInv
<1>2. CASE UwsStep(Idle)
    BY <1>1, <1>2, UwsIdleStep
<1>3. CASE ~UwsStep(Idle)
    <2>1. /\ vCache \in VPod /\ pCache \in PPod
          /\ UwsStep(IF vCache.node = None THEN At("bind", None, pCache)
                     ELSE AfterBind(vCache, pCache))
        BY <1>3 DEF BackPopulate, PodInv, TypeInv
    <2>2. CASE vCache.node = None
        <3> DEFINE w == At("bind", None, pCache)
        <3>1. w \in Worker(UwsPc) /\ w.pc = "bind" /\ w.p # None
            BY <2>1, NoneAssumption DEF At, Worker, UwsPc
        <3>2. UwsStep(w)
            BY <2>1, <2>2
        <3> HIDE DEF w
        <3> QED
            BY <1>1, <3>1, <3>2, UwsStepStep
    <2>3. CASE vCache.node # None
        <3> DEFINE w == AfterBind(vCache, pCache)
        <3>1. /\ w \in Worker(UwsPc)
              /\ w.pc # "idle" => w.p # None
              /\ w.pc \in {"status", "delete"} => w.v # None
            BY <2>1, AfterBindShape
        <3>2. UwsStep(w)
            BY <2>1, <2>3
        <3> HIDE DEF w
        <3> QED
            BY <1>1, <3>1, <3>2, UwsStepStep
    <2> QED
        BY <2>2, <2>3
<1> QED
    BY <1>2, <1>3

LEMMA UwsSteps ==
    ASSUME PodInv, Uws
    PROVE  Step
<1>0. /\ UNCHANGED used
      /\ vPod \in VPod \cup {None} /\ uws.v \in VPod \cup {None} /\ uws.p \in PPod \cup {None}
    BY UwsType DEF Uws, bindPodToNode, Refetch, UpdateStatus, BackDelete, UwsFails, bounds,
        PodInv, TypeInv
<1>1. CASE UwsError
    BY <1>0, <1>1, UwsErrorStep
<1>2. CASE bindPodToNode /\ ~UwsError
    <2>1. /\ UwsStep(At("refetch", None, uws.p)) /\ vPod \in VPod /\ uws.p \in PPod
          /\ vPod' = [vPod EXCEPT !.node = uws.p.node]
        BY <1>0, <1>2 DEF bindPodToNode, PodInv, CopiesInv
    <2> DEFINE w == At("refetch", None, uws.p)
    <2>2. w \in Worker(UwsPc) /\ w.pc = "refetch" /\ w.p # None
        BY <2>1, NoneAssumption DEF At, Worker, UwsPc
    <2>3. uws.p.node \in Node \cup {None, Pinned}
        BY <2>1 DEF PPod
    <2>4. vPod' \in VPod /\ SameTenant
        BY <2>1, <2>3, NoneAssumption DEF VPod, SameTenant
    <2>5. UwsStep(w)
        BY <2>1
    <2> HIDE DEF w
    <2> QED
        BY <1>0, <2>2, <2>4, <2>5, UwsStepStep
<1>3. CASE Refetch /\ ~UwsError
    <2> DEFINE w == AfterBind(vPod, uws.p)
    <2>1. UwsStep(w) /\ vPod \in VPod /\ uws.p \in PPod /\ vPod' = vPod
        BY <1>0, <1>3 DEF Refetch, PodInv, CopiesInv
    <2>2. /\ w \in Worker(UwsPc)
          /\ w.pc # "idle" => w.p # None
          /\ w.pc \in {"status", "delete"} => w.v # None
        BY <2>1, AfterBindShape
    <2>3. vPod' \in VPod \cup {None} /\ SameTenant
        BY <2>1 DEF SameTenant
    <2> HIDE DEF w
    <2> QED
        BY <1>0, <2>1, <2>2, <2>3, UwsStepStep
<1>4. CASE UpdateStatus /\ ~UwsError
    <2> DEFINE w == AfterStatus(uws.v, uws.p)
    <2>1. /\ UwsStep(w) /\ uws.v \in VPod /\ uws.p \in PPod
          /\ vPod \in VPod /\ vPod' = [vPod EXCEPT !.status = uws.p.status]
        BY <1>0, <1>4 DEF UpdateStatus, PodInv, CopiesInv
    <2>2. /\ w \in Worker(UwsPc)
          /\ w.pc # "idle" => w.p # None
          /\ w.pc \in {"status", "delete"} => w.v # None
        BY <2>1, AfterBindShape
    <2>3. uws.p.status \in 0..1
        BY <2>1 DEF PPod
    <2>4. vPod' \in VPod /\ SameTenant
        BY <2>1, <2>3, NoneAssumption DEF VPod, SameTenant
    <2> HIDE DEF w
    <2> QED
        BY <1>0, <2>1, <2>2, <2>4, UwsStepStep
<1>5. CASE BackDelete /\ ~UwsError
    <2>1. UwsStep(Idle) /\ vPod \in VPod /\ vPod' \in {vPod, Deleted(vPod), None}
        BY <1>0, <1>5 DEF BackDelete
    <2>2. vPod' \in VPod \cup {None} /\ SameTenant
        BY <2>1, NoneAssumption, DeletedV DEF SameTenant
    <2> QED
        BY <1>0, <2>1, <2>2, UwsIdleStep
<1> QED
    BY <1>1, <1>2, <1>3, <1>4, <1>5 DEF Uws, UwsFails

-----------------------------------------------------------------------------
(* The patrol *)

LEMMA PatrolStepStep ==
    ASSUME PodInv, NEW w \in Worker(PatrolPc),
           w.p \in {None, patrol.p, pCache},
           w.pc = "orphan" => w.p # None /\ Doomed(w.p.owner),
           PatrolStep(w), vPod' \in VPod \cup {None}, pPod' \in PPod \cup {None},
           SameTenant, SameSuper
    PROVE  Step
<1>1. ShapeInv'
    BY ShapePatrol DEF PodInv, ShapeInv
<1>2. Ages
    BY DEF Ages, SameTenant, PatrolStep, caches, PodInv, TenantInv
<1>3. Moves
    BY DEF PatrolStep, caches, Moves
<1>4. Decisions
    BY DEF PatrolStep, Decisions, PodInv, OwnersInv, DecidedInv
<1> QED
    BY <1>1, <1>2, <1>3, <1>4 DEF Step

LEMMA PatrolIdleStep ==
    ASSUME PodInv, PatrolStep(Idle), vPod' \in VPod \cup {None}, pPod' \in PPod \cup {None},
           SameTenant, SameSuper
    PROVE  Step
<1>1. Idle \in Worker(PatrolPc) /\ Idle.pc = "idle" /\ Idle.p = None
    BY IdleType DEF PatrolPc
<1> QED
    BY <1>1, PatrolStepStep

LEMMA DecidesStep ==
    ASSUME PodInv, NEW pc \in PatrolPc, NEW v \in VPod \cup {None}, NEW p \in {None, patrol.p, pCache},
           pc = "orphan" => p # None /\ Doomed(p.owner), PatrolStep(At(pc, v, p)), UNCHANGED pods
    PROVE  Step
<1> DEFINE w == At(pc, v, p)
<1>1. w \in Worker(PatrolPc) /\ w.pc = pc /\ w.p = p
    <2>1. p \in PPod \cup {None}
        BY PatrolType DEF PodInv, TypeInv
    <2> QED
        BY <2>1 DEF At, Worker
<1>2. /\ vPod' \in VPod \cup {None} /\ pPod' \in PPod \cup {None}
      /\ SameTenant /\ SameSuper
    BY DEF pods, SameTenant, SameSuper, PodInv, TypeInv
<1>3. PatrolStep(w)
    OBVIOUS
<1> HIDE DEF w
<1> QED
    BY <1>1, <1>2, <1>3, PatrolStepStep

LEMMA DifferenceStep ==
    ASSUME PodInv, Difference
    PROVE  Step
<1> USE DEF Decides
<1>0. /\ vCache \in VPod \cup {None} /\ None \in VPod \cup {None} /\ patrol.p \in PPod \cup {None}
      /\ {"force", "check", "grace", "orphan"} \subseteq PatrolPc
      /\ patrol.p # None => patrol.p \in SuperCopies
    BY PatrolType, CopiesAre DEF PatrolPc, PodInv, TypeInv
<1>1. CASE PatrolStep(Idle) /\ UNCHANGED pods
    <2>1. /\ vPod' \in VPod \cup {None} /\ pPod' \in PPod \cup {None}
          /\ SameTenant /\ SameSuper
        BY <1>1 DEF pods, SameTenant, SameSuper, PodInv, TypeInv
    <2> QED
        BY <1>1, <2>1, PatrolIdleStep
<1>2. CASE vCache # None /\ patrol.p = None /\ differAddFunc(vCache)
    <2>1. CASE PatrolStep(At("force", vCache, None)) /\ UNCHANGED pods
        BY <1>0, <2>1, DecidesStep
    <2>2. CASE PatrolStep(At("check", vCache, None)) /\ UNCHANGED pods
        BY <1>0, <2>2, DecidesStep
    <2> QED
        BY <1>1, <1>2, <2>1, <2>2 DEF differAddFunc, requeuePod
<1>3. CASE vCache # None /\ patrol.p # None /\ differUpdateFunc(vCache, patrol.p)
    <2>1. CASE PatrolStep(At("orphan", None, patrol.p)) /\ UNCHANGED pods
               /\ patrol.p.owner # vCache.uid
        <3>1. Doomed(patrol.p.owner)
            BY <1>0, <1>3, <2>1, UnseenIsDoomed
        <3> QED
            BY <1>0, <1>3, <2>1, <3>1, DecidesStep
    <2>2. CASE PatrolStep(At("grace", vCache, None)) /\ UNCHANGED pods
        BY <1>0, <2>2, DecidesStep
    <2> QED
        BY <1>1, <1>3, <2>1, <2>2 DEF differUpdateFunc, requeuePod
<1>4. CASE vCache = None /\ patrol.p # None /\ differDeleteFunc(patrol.p)
    <2>1. PatrolStep(At("orphan", None, patrol.p)) /\ UNCHANGED pods
        BY <1>4 DEF differDeleteFunc
    <2>2. Doomed(patrol.p.owner)
        BY <1>0, <1>4, UnseenIsDoomed
    <2> QED
        BY <1>0, <1>4, <2>1, <2>2, DecidesStep
<1> QED
    BY <1>2, <1>3, <1>4 DEF Difference

LEMMA PatrolSteps ==
    ASSUME PodInv, PatrollerDo
    PROVE  Step
<1> USE DEF Decides
<1>1. CASE PatrolStep(Idle) /\ UNCHANGED pods
    <2>1. /\ vPod' \in VPod \cup {None} /\ pPod' \in PPod \cup {None}
          /\ SameTenant /\ SameSuper
        BY <1>1 DEF pods, SameTenant, SameSuper, PodInv, TypeInv
    <2> QED
        BY <1>1, <2>1, PatrolIdleStep
<1>2. CASE ListP
    <2>1. PatrolStep(At("listed", None, pCache)) /\ UNCHANGED pods
        BY <1>2 DEF ListP
    <2> QED
        BY <2>1, DecidesStep DEF PatrolPc
<1>3. CASE DoubleCheck /\ ~PatrolStep(Idle)
    <2> DEFINE w == [patrol EXCEPT !.pc = "force"]
    <2>1. PatrolStep(w) /\ UNCHANGED pods
        BY <1>3 DEF DoubleCheck
    <2>2. w \in Worker(PatrolPc) /\ w.pc = "force" /\ w.p = patrol.p
        BY DEF PodInv, TypeInv, Worker, PatrolPc
    <2>3. /\ vPod' \in VPod \cup {None} /\ pPod' \in PPod \cup {None}
          /\ SameTenant /\ SameSuper
        BY <2>1 DEF pods, SameTenant, SameSuper, PodInv, TypeInv
    <2> HIDE DEF w
    <2> QED
        BY <2>1, <2>2, <2>3, PatrolStepStep
<1>4. CASE forceDeleteVPod
    <2>1. PatrolStep(Idle) /\ pPod' = pPod /\ vPod' \in {vPod, None, Deleted(vPod)}
          /\ (vPod = None => vPod' = None)
        BY <1>4 DEF forceDeleteVPod
    <2>2. vPod' \in VPod \cup {None} /\ SameTenant
        BY <2>1, NoneAssumption, DeletedV DEF SameTenant, PodInv, TypeInv
    <2>3. pPod' \in PPod \cup {None} /\ SameSuper
        BY <2>1 DEF SameSuper, PodInv, TypeInv
    <2> QED
        BY <2>1, <2>2, <2>3, PatrolIdleStep
<1>5. CASE graceDeletePPod
    <2>1. PatrolStep(Idle) /\ vPod' = vPod /\ pPod' \in {pPod, None, Deleted(pPod)}
          /\ (pPod = None => pPod' = None)
        BY <1>5 DEF graceDeletePPod
    <2>2. pPod' \in PPod \cup {None} /\ SameSuper
        BY <2>1, NoneAssumption, DeletedP DEF SameSuper, PodInv, TypeInv
    <2>3. vPod' \in VPod \cup {None} /\ SameTenant
        BY <2>1 DEF SameTenant, PodInv, TypeInv
    <2> QED
        BY <2>1, <2>2, <2>3, PatrolIdleStep
<1> QED
    BY <1>1, <1>2, <1>3, <1>4, <1>5, DifferenceStep
    DEF PatrollerDo, NothingToDo, DoubleCheck, PatrolFails

-----------------------------------------------------------------------------
(* The theorems *)

LEMMA PodInvStep == PodInv /\ [Next]_vars => PodInv'
<1> SUFFICES ASSUME PodInv, [Next]_vars PROVE PodInv'
    OBVIOUS
<1>1. CASE UNCHANGED vars
    <2>1. /\ vPod' = vPod /\ pPod' = pPod /\ vCache' = vCache /\ pCache' = pCache
          /\ dws' = dws /\ uws' = uws /\ patrol' = patrol /\ used' = used
        BY <1>1 DEF vars, pods, caches, workers, bounds
    <2> QED
        BY <2>1 DEF PodInv, TypeInv, CopiesInv, TenantInv, OwnersInv, IdsInv, DecidedInv,
            Known, Doomed, SuperCopies, Copies
<1>2. CASE Next
    <2>1. ASSUME NEW node \in {None, Pinned}, CreateV(node) PROVE Step
        BY <2>1, CreateVStep
    <2>2. ASSUME NEW u \in Uid, Reconcile(u) \/ Dws(u) PROVE Step
        BY <2>2, ReconcileStep, DwsSteps
    <2>3. Step
        BY <1>2, <2>1, <2>2, TenantSteps, SuperSteps, InformerSteps, BackPopulateStep, UwsSteps,
            PatrolSteps, RestartStep DEF Next
    <2> QED
        BY <2>3, StepKeeps
<1> QED
    BY <1>1, <1>2

LEMMA InitPodInv == Init => PodInv
<1> SUFFICES ASSUME Init PROVE PodInv
    OBVIOUS
<1>1. Idle.pc = "idle" /\ Idle.p = None
    BY DEF Idle
<1>2. SuperCopies = {}
    BY <1>1 DEF Init, SuperCopies, Copies
<1>3. TenantInv /\ OwnersInv /\ IdsInv /\ DecidedInv
    BY <1>1, <1>2 DEF Init, TenantInv, OwnersInv, IdsInv, DecidedInv
<1> QED
    BY <1>3, InitShape DEF PodInv, ShapeInv

\* A step of the syncer that deletes a living super pod has the UID of that pod in a
\* decision, and the decision was made for a tenant pod that is gone or going.
LEMMA KillsOnlyDoomed ==
    ASSUME PodInv, Kills(pPod), (\E u \in Uid : Dws(u)) \/ PatrollerDo
    PROVE  Doomed(pPod.owner)
<1>0. pPod \in PPod /\ pPod \in SuperCopies /\ pPod' # pPod
    BY NoneAssumption, CopiesAre DEF Kills, PodInv, TypeInv
<1>1. CASE \E u \in Uid : Dws(u)
    <2>1. PICK u \in Uid : Dws(u)
        BY <1>1
    <2>2. CASE reconcilePodRemove(u)
        <3>1. dws[u].pc = "delete" /\ pPod.id = dws[u].p.id
            BY <1>0, <2>2 DEF reconcilePodRemove, DwsCall, DeletePPod, Rejected, Kills
        <3>2. dws[u].p \in SuperCopies
            BY <3>1, CopiesAre DEF PodInv, CopiesInv
        <3> QED
            BY <1>0, <3>1, <3>2 DEF PodInv, IdsInv, DecidedInv
    <2>3. CASE reconcilePodUpdate(u)
        <3>1. dws[u].pc = "update" /\ pPod' = [pPod EXCEPT !.spec = dws[u].v.spec]
            BY <1>0, <2>3 DEF reconcilePodUpdate, DwsCall, Succeeds, Rejected
        <3>2. dws[u].v.spec \in 0..1
            BY <3>1, DwsType DEF PodInv, CopiesInv, VPod
        <3> QED
            BY <1>0, <3>1, <3>2, NoneAssumption DEF Kills, PPod
    <2> QED
        BY <1>0, <2>1, <2>2, <2>3
        DEF Dws, reconcilePodCreate, ReconcileFails, Rejected, Kills
<1>2. CASE PatrollerDo
    <2>1. patrol.pc = "orphan" /\ pPod.id = patrol.p.id
        BY <1>0, <1>2 DEF PatrollerDo, ListP, NothingToDo, Difference, differAddFunc,
            differUpdateFunc, differDeleteFunc, requeuePod, DoubleCheck, forceDeleteVPod,
            graceDeletePPod, PatrolFails, Decides, pods, Kills
    <2>2. patrol.p \in SuperCopies
        BY <2>1, CopiesAre DEF PodInv, CopiesInv
    <2> QED
        BY <1>0, <2>1, <2>2 DEF PodInv, IdsInv, DecidedInv
<1> QED
    BY <1>1, <1>2

\* The copies the workers of the pod syncer act on, however old, agree with the tenant's
\* API server in what matters: see PodInv.
THEOREM PodCopiesAgree == Spec => []PodInv
<1> QED
    BY InitPodInv, PodInvStep, PTL DEF Spec

\* The downward worker (dws.go) and the patrol (checker.go) never delete the super pod of
\* a tenant pod that is there to stay.
THEOREM LivePodsStay == Spec => NeverDeletesLivePod
<1>1. PodInv =>
          (Kills(pPod) /\ ((\E u \in Uid : Dws(u)) \/ PatrollerDo) =>
             vPod = None \/ (vPod # None /\ (vPod.uid # pPod.owner \/ vPod.deleting)))
    BY KillsOnlyDoomed DEF Doomed
<1> QED
    BY <1>1, PodCopiesAgree, PTL DEF NeverDeletesLivePod
=============================================================================
