------------------------- MODULE ResourceSyncProofs -------------------------
(***************************************************************************)
(* Proofs about ResourceSync, for any kinds, number of UIDs, copies and    *)
(* events: the syncer never deletes the super object of a tenant object    *)
(* that is there (first part), and it never changes the labels and         *)
(* annotations that belong to the super cluster (second part).             *)
(***************************************************************************)
EXTENDS ResourceSync, TLAPS

-----------------------------------------------------------------------------
(* The shape of the state *)

\* An object is a record of these fields; their values may be anything.
Fields(o) == DOMAIN o = {"uid", "ref", "rv", "spec", "status", "meta"}
Creates(c) == c.op \in {"create", "ensure"}
ShapeInv ==
    /\ \A o \in Copies : Fields(o)
    /\ \A a, b \in tenant : a = b
    /\ \A a, b \in tenantCache : a = b

\* What workers and patrol may be about to do.
StagesInv ==
    /\ \A w \in dws : w.call.op \in {"create", "ensure", "update", "delete", "collect"}
    /\ uws.pc \in {"idle", "tenant", "meta", "get", "super"}
    /\ uws.pc \in {"tenant", "meta", "super"} => uws.call.op = "update"
    /\ patrol.pc \in {"idle", "listed", "unlisted", "checked", "super"}
    /\ patrol.pc = "super" => patrol.call.op = "delete"

-----------------------------------------------------------------------------
(* What copies tell of the tenant object that there is now *)

\* The tenant object of UID r, if it is there, has been seen by the informer.
Seen(r) == loaded /\ (\E v \in tenant : v.uid = r) => \E c \in tenantCache : c.uid = r
\* It is not there.
Gone(r) == \A v \in tenant : v.uid # r
\* The super object of UID i, wherever there is a copy of it, has lost its tenant object.
Doomed(i) == i # 0 /\ \A o \in Copies : o.uid = i => Gone(o.ref)

\* Copies of objects that a server has or had, and not of those yet to be created.
Stored == tenant \cup super \cup tenantCache \cup superCache \cup {uws.p, patrol.p}
          \cup {uws.call.obj, patrol.call.obj}
          \cup {w.call.obj : w \in {x \in dws : ~Creates(x.call)}}

\* An object has the UID the server gave it.
RealInv ==
    /\ kind # "defaultsa" => \A o \in Stored : o.ref # 0 => o.uid # 0
    /\ \A o \in tenant \cup tenantCache : o.uid # 0 /\ o.ref = 0

\* Super objects were built from tenant objects that the informer had seen.
KnownInv == \A o \in Copies : Seen(o.ref)

\* The UID tells which object it is: copies with the same UID have the same origin.  Not
\* so the default service account, which the super cluster makes and the syncer marks.
IdsInv ==
    kind # "defaultsa" => \A a, b \in Copies : a.uid = b.uid /\ a.uid # 0 => a.ref = b.ref

\* Without its VirtualCluster a namespace has no tenant.
RelatedInv == kind = "namespace" /\ ~related => tenant = {}

\* A deletion is decided on only for a tenant object that is gone.  (A default account may
\* be marked for another one afterwards.)
Condemned(x) == IF kind = "defaultsa" THEN Gone(x.p.ref) ELSE Doomed(x.call.uid)
DecidedInv ==
    /\ kind = "defaultsa" => uws.pc = "idle"
    /\ patrol.pc = "super" => Condemned(patrol)
    /\ kind \in UidKinds =>
         \A w \in dws : /\ w.call.op = "delete" => Doomed(w.call.uid)
                        /\ w.call.op = "collect" => Gone(w.call.uid)

OwnedInv ==
    /\ ShapeInv /\ StagesInv /\ RealInv /\ KnownInv /\ IdsInv /\ RelatedInv /\ DecidedInv

DeletionInv ==
    /\ kind \in UpwardKinds \cup DownwardKinds
    /\ kind \in DownwardKinds => OwnedInv
    /\ kind \in UpwardKinds => patrol.pc # "super"

-----------------------------------------------------------------------------
(* What a step may do.  It copies objects, builds new ones from those of    *)
(* the tenant's cache, and one object may come into being.                  *)

\* A copy of something that is stored somewhere, possibly with other contents; or the
\* default account with the mark of the tenant's.
Marked(o) == kind = "defaultsa" /\ \E c \in tenantCache : c.uid = o.ref
Copy(o) ==
    /\ Fields(o)
    /\ \/ o.uid = 0 /\ o.ref = 0
       \/ \E s \in Stored : s.uid = o.uid /\ s.ref = o.ref
       \/ Marked(o)
\* The object that is created in this step gets UID i.
Unused(i) == i # 0 /\ ~InUse(i)
Born(o, i, r) ==
    /\ Fields(o) /\ Unused(i) /\ o.uid = i /\ o.ref = r
    /\ r = 0 \/ \E s \in Copies : s.ref = r
\* An object to be created, built from the one in the tenant's cache.
Template(o) == Fields(o) /\ o.uid = 0 /\ \E c \in tenantCache : c.uid = o.ref

\* What a worker may take on.
DwsFit(w) ==
    /\ w.call.op \in {"create", "ensure", "update", "delete", "collect"}
    /\ Creates(w.call) => Template(w.call.obj)
    /\ ~Creates(w.call) => Copy(w.call.obj)
    /\ kind \in UidKinds =>
         /\ w.call.op = "delete" => InUse(w.call.uid) /\ Doomed(w.call.uid)
         /\ w.call.op = "collect" => InUse(w.call.uid) /\ Gone(w.call.uid)
UwsFit(x) ==
    /\ x.pc \in {"idle", "tenant", "meta", "get", "super"}
    /\ x.pc \in {"tenant", "meta", "super"} => x.call.op = "update"
    /\ kind = "defaultsa" => x.pc = "idle"
    /\ Copy(x.p) /\ Copy(x.call.obj)
PatrolFit(x) ==
    /\ x.pc \in {"idle", "listed", "unlisted", "checked", "super"}
    /\ x.pc = "super" =>
         x.call.op = "delete" /\ InUse(x.call.uid) /\ InUse(x.p.ref) /\ Condemned(x)
    /\ Copy(x.p) /\ Copy(x.call.obj)

\* The tenant's objects keep their UIDs, and one may be new.
TenantStep(i) ==
    /\ \A a, b \in tenant' : a = b
    /\ \A o \in tenant' : /\ Fields(o) /\ o.uid # 0 /\ o.ref = 0
                          /\ (Unused(i) /\ o.uid = i) \/ \E t \in tenant : t.uid = o.uid
CopiesStep(i, r) ==
    /\ kind' = kind
    /\ tenant' = tenant \/ (TenantStep(i) /\ r = 0)
    /\ \/ tenantCache' = tenantCache /\ loaded' = loaded
       \/ tenantCache' = tenant'
       \/ tenantCache' = {} /\ ~loaded'
    /\ \A o \in super' \cup superCache' : o \in Stored \/ Copy(o) \/ Born(o, i, r)
    /\ \A w \in dws' : w \in dws \/ DwsFit(w)
    /\ uws' = uws \/ UwsFit(uws')
    /\ patrol' = patrol \/ PatrolFit(patrol')
    /\ (tenant' = tenant /\ related' = related) \/ RelatedInv'

-----------------------------------------------------------------------------
(* Records *)

LEMMA NoObjFields == Fields(NoObj) /\ NoObj.uid = 0 /\ NoObj.ref = 0
    BY DEF Fields, NoObj

\* An object with another value of a field is an object.
LEMMA ExceptUid ==
    ASSUME NEW q, Fields(q), NEW x
    PROVE  /\ Fields([q EXCEPT !.uid = x])
           /\ [q EXCEPT !.uid = x].uid = x
           /\ [q EXCEPT !.uid = x].ref = q.ref
    <1>1. [q EXCEPT !.uid = x].uid = x
      BY Zenon DEF Fields
    <1>2. [q EXCEPT !.uid = x].ref = q.ref
      BY Zenon DEF Fields
    <1>3. Fields([q EXCEPT !.uid = x])
      BY Zenon DEF Fields
    <1> QED BY <1>1, <1>2, <1>3

LEMMA ExceptRef ==
    ASSUME NEW q, Fields(q), NEW x
    PROVE  /\ Fields([q EXCEPT !.ref = x])
           /\ [q EXCEPT !.ref = x].uid = q.uid
           /\ [q EXCEPT !.ref = x].ref = x
    <1>1. [q EXCEPT !.ref = x].uid = q.uid
      BY Zenon DEF Fields
    <1>2. [q EXCEPT !.ref = x].ref = x
      BY Zenon DEF Fields
    <1>3. Fields([q EXCEPT !.ref = x])
      BY Zenon DEF Fields
    <1> QED BY <1>1, <1>2, <1>3

LEMMA ExceptRv ==
    ASSUME NEW q, Fields(q), NEW x
    PROVE  /\ Fields([q EXCEPT !.rv = x])
           /\ [q EXCEPT !.rv = x].uid = q.uid
           /\ [q EXCEPT !.rv = x].ref = q.ref
    <1>1. [q EXCEPT !.rv = x].uid = q.uid
      BY Zenon DEF Fields
    <1>2. [q EXCEPT !.rv = x].ref = q.ref
      BY Zenon DEF Fields
    <1>3. Fields([q EXCEPT !.rv = x])
      BY Zenon DEF Fields
    <1> QED BY <1>1, <1>2, <1>3

LEMMA ExceptSpec ==
    ASSUME NEW q, Fields(q), NEW x
    PROVE  /\ Fields([q EXCEPT !.spec = x])
           /\ [q EXCEPT !.spec = x].uid = q.uid
           /\ [q EXCEPT !.spec = x].ref = q.ref
    <1>1. [q EXCEPT !.spec = x].uid = q.uid
      BY Zenon DEF Fields
    <1>2. [q EXCEPT !.spec = x].ref = q.ref
      BY Zenon DEF Fields
    <1>3. Fields([q EXCEPT !.spec = x])
      BY Zenon DEF Fields
    <1> QED BY <1>1, <1>2, <1>3

LEMMA ExceptStatus ==
    ASSUME NEW q, Fields(q), NEW x
    PROVE  /\ Fields([q EXCEPT !.status = x])
           /\ [q EXCEPT !.status = x].uid = q.uid
           /\ [q EXCEPT !.status = x].ref = q.ref
    <1>1. [q EXCEPT !.status = x].uid = q.uid
      BY Zenon DEF Fields
    <1>2. [q EXCEPT !.status = x].ref = q.ref
      BY Zenon DEF Fields
    <1>3. Fields([q EXCEPT !.status = x])
      BY Zenon DEF Fields
    <1> QED BY <1>1, <1>2, <1>3

LEMMA ExceptMeta ==
    ASSUME NEW q, Fields(q), NEW x
    PROVE  /\ Fields([q EXCEPT !.meta = x])
           /\ [q EXCEPT !.meta = x].uid = q.uid
           /\ [q EXCEPT !.meta = x].ref = q.ref
    <1>1. [q EXCEPT !.meta = x].uid = q.uid
      BY Zenon DEF Fields
    <1>2. [q EXCEPT !.meta = x].ref = q.ref
      BY Zenon DEF Fields
    <1>3. Fields([q EXCEPT !.meta = x])
      BY Zenon DEF Fields
    <1> QED BY <1>1, <1>2, <1>3

LEMMA NoObjCopy == Copy(NoObj)
    BY NoObjFields DEF Copy

LEMMA TheOne ==
    ASSUME NEW S
    PROVE  (S # {} => The(S) \in S) /\ (S = {} => The(S) = NoObj)
    BY DEF The

LEMMA UidNotZero == \A u \in Uid : u # 0
    BY BoundAssumption DEF Uid

LEMMA CallFields ==
    ASSUME NEW op, NEW o, NEW u
    PROVE  Call(op, o, u).op = op /\ Call(op, o, u).obj = o /\ Call(op, o, u).uid = u
    BY DEF Call

LEMMA AtFields ==
    ASSUME NEW pc, NEW c, NEW o
    PROVE  At(pc, c, o).pc = pc /\ At(pc, c, o).call = c /\ At(pc, c, o).p = o
    BY DEF At

LEMMA StoredCopies == Stored \subseteq Copies
    BY DEF Stored, Copies

LEMMA CopiesUsed ==
    ASSUME NEW o \in Copies
    PROVE  InUse(o.uid) /\ InUse(o.ref)
    BY DEF InUse

\* Something stored is a copy of itself.
LEMMA StoredIsCopy ==
    ASSUME OwnedInv, NEW o \in Stored
    PROVE  Copy(o)
    BY StoredCopies DEF Copy, OwnedInv, ShapeInv

\* A copy of which only the contents differ.
LEMMA ChangedCopy ==
    ASSUME NEW s, Copy(s), NEW o, Fields(o), o.uid = s.uid, o.ref = s.ref
    PROVE  Copy(o)
    BY DEF Copy, Marked

-----------------------------------------------------------------------------
(* A step of that form keeps the invariant *)

\* Of the copies after the step.
LEMMA CopiesAfter ==
    ASSUME OwnedInv, NEW i, NEW r, CopiesStep(i, r), NEW o \in Copies'
    PROVE  /\ o \in Copies \/ Copy(o) \/ Born(o, i, r) \/ Template(o)
           /\ o \in Stored' => o \in Stored \/ Copy(o) \/ Born(o, i, r)
    <1>1. ASSUME NEW x \in tenant'
          PROVE  x \in Stored \/ Copy(x) \/ Born(x, i, r)
      <2>1. CASE tenant' = tenant
        BY <2>1, <1>1 DEF Stored
      <2>2. CASE TenantStep(i) /\ r = 0
        <3>1. Fields(x) /\ x.ref = 0
          BY <2>2, <1>1 DEF TenantStep
        <3>2. CASE Unused(i) /\ x.uid = i
          BY <2>2, <3>1, <3>2 DEF Born
        <3>3. CASE \E t \in tenant : t.uid = x.uid
          <4>1. PICK t \in tenant : t.uid = x.uid
            BY <3>3
          <4>2. t \in Stored /\ t.ref = 0
            BY DEF Stored, OwnedInv, RealInv
          <4> QED BY <4>1, <4>2, <3>1 DEF Copy
        <3> QED BY <1>1, <2>2, <3>2, <3>3 DEF TenantStep
      <2> QED BY <2>1, <2>2 DEF CopiesStep
    <1>2. ASSUME NEW x \in tenantCache'
          PROVE  x \in Stored \/ Copy(x) \/ Born(x, i, r)
      BY <1>1, <1>2 DEF CopiesStep, Stored
    <1>3. ASSUME NEW x \in super' \cup superCache'
          PROVE  x \in Stored \/ Copy(x) \/ Born(x, i, r)
      BY <1>3 DEF CopiesStep
    <1>4. ASSUME NEW x \in {uws'.p, uws'.call.obj}
          PROVE  x \in Stored \/ Copy(x)
      BY <1>4 DEF CopiesStep, UwsFit, Stored
    <1>5. ASSUME NEW x \in {patrol'.p, patrol'.call.obj}
          PROVE  x \in Stored \/ Copy(x)
      BY <1>5 DEF CopiesStep, PatrolFit, Stored
    <1>6. ASSUME NEW w \in dws'
          PROVE  /\ w.call.obj \in Copies \/ Copy(w.call.obj) \/ Template(w.call.obj)
                 /\ ~Creates(w.call) => w.call.obj \in Stored \/ Copy(w.call.obj)
      BY <1>6 DEF CopiesStep, DwsFit, Stored, Copies
    <1>7. o \in Stored' => o \in Stored \/ Copy(o) \/ Born(o, i, r)
      BY <1>1, <1>2, <1>3, <1>4, <1>5, <1>6 DEF Stored
    <1>8. o \in Stored' \/ \E w \in dws' : o = w.call.obj
      BY DEF Stored, Copies
    <1> QED BY <1>6, <1>7, <1>8, StoredCopies

\* A tenant object that is gone does not come back: its UID is in use.
LEMMA GoneStays ==
    ASSUME NEW i, NEW r, CopiesStep(i, r), NEW u, InUse(u), Gone(u)
    PROVE  \A v \in tenant' : v.uid # u
    BY DEF CopiesStep, TenantStep, Unused, Gone

\* A known one is still known, or was just seen.
LEMMA KnownStays ==
    ASSUME NEW i, NEW r, CopiesStep(i, r), NEW u, InUse(u), Seen(u)
    PROVE  Seen(u)'
    <1>1. CASE tenantCache' = tenant'
      BY <1>1 DEF Seen
    <1>2. CASE tenantCache' = tenantCache /\ loaded' = loaded
      <2>1. (\E v \in tenant' : v.uid = u) => \E v \in tenant : v.uid = u
        BY DEF CopiesStep, TenantStep, Unused
      <2> QED BY <1>2, <2>1 DEF Seen
    <1>3. CASE ~loaded'
      BY <1>3 DEF Seen
    <1> QED BY <1>1, <1>2, <1>3 DEF CopiesStep

LEMMA DoomedStays ==
    ASSUME OwnedInv, kind # "defaultsa", NEW i, NEW r, CopiesStep(i, r), NEW u, InUse(u), Doomed(u)
    PROVE  u # 0 /\ \A o \in Copies' : o.uid = u => \A v \in tenant' : v.uid # o.ref
    <1>1. u # 0
      BY DEF Doomed
    <1>2. ASSUME NEW o \in Copies', o.uid = u
          PROVE  \A v \in tenant' : v.uid # o.ref
      <2>1. CASE o \in Copies
        <3>1. InUse(o.ref) /\ Gone(o.ref)
          BY <1>2, <2>1, CopiesUsed DEF Doomed
        <3> QED BY <3>1, GoneStays
      <2>2. CASE Copy(o)
        <3>1. PICK s \in Stored : s.uid = o.uid /\ s.ref = o.ref
          BY <1>1, <1>2, <2>2 DEF Copy, Marked
        <3>2. InUse(o.ref) /\ Gone(o.ref)
          BY <1>2, <3>1, CopiesUsed, StoredCopies DEF Doomed
        <3> QED BY <3>2, GoneStays
      <2>3. ~Born(o, i, r) /\ ~Template(o)
        BY <1>1, <1>2 DEF Born, Unused, Template
      <2> QED BY <1>2, <2>1, <2>2, <2>3, CopiesAfter
    <1> QED BY <1>1, <1>2

LEMMA KnownAfter ==
    ASSUME OwnedInv, NEW i, NEW r, CopiesStep(i, r)
    PROVE  KnownInv'
    <1> SUFFICES ASSUME NEW o \in Copies'
                 PROVE  Seen(o.ref)'
      BY DEF KnownInv
    <1>0. tenant' # {} => \A v \in tenant' : v.uid # 0
      BY DEF CopiesStep, TenantStep, OwnedInv, RealInv
    <1>1. o.ref = 0 => Seen(o.ref)'
      BY <1>0 DEF Seen
    <1>2. ASSUME NEW s \in Copies, s.ref = o.ref
          PROVE  Seen(o.ref)'
      <2>1. InUse(o.ref) /\ Seen(o.ref)
        BY <1>2, CopiesUsed DEF OwnedInv, KnownInv
      <2> QED BY <2>1, KnownStays
    <1>3. CASE Copy(o) /\ ~Marked(o)
      BY <1>1, <1>2, <1>3, StoredCopies DEF Copy
    <1>4. CASE Born(o, i, r)
      BY <1>1, <1>2, <1>4 DEF Born
    <1>5. CASE Template(o) \/ Marked(o)
      <2>1. PICK c \in tenantCache : c.uid = o.ref
        BY <1>5 DEF Template, Marked
      <2>2. Seen(o.ref) /\ InUse(o.ref)
        BY <2>1, CopiesUsed DEF Seen, Copies
      <2> QED BY <2>2, KnownStays
    <1> QED BY <1>2, <1>3, <1>4, <1>5, CopiesAfter

LEMMA IdsAfter ==
    ASSUME OwnedInv, NEW i, NEW r, CopiesStep(i, r)
    PROVE  IdsInv'
    <1>0. kind' = kind
      BY DEF CopiesStep
    <1> SUFFICES ASSUME kind # "defaultsa", NEW a \in Copies', NEW b \in Copies', a.uid = b.uid, a.uid # 0
                 PROVE  a.ref = b.ref
      BY <1>0 DEF IdsInv
    <1>1. ASSUME NEW o \in Copies', o.uid # 0
          PROVE  (\E s \in Copies : s.uid = o.uid /\ s.ref = o.ref) \/ Born(o, i, r)
      BY <1>1, CopiesAfter, StoredCopies DEF Copy, Marked, Template
    <1>2. ASSUME NEW s \in Copies, Unused(i)
          PROVE  s.uid # i
      BY <1>2, CopiesUsed DEF Unused
    <1>3. Born(a, i, r) /\ Born(b, i, r) => a.ref = b.ref
      BY DEF Born
    <1>4. ~Born(a, i, r) \/ ~Born(b, i, r) => ~Born(a, i, r) /\ ~Born(b, i, r)
      BY <1>1, <1>2 DEF Born
    <1> QED BY <1>1, <1>3, <1>4 DEF OwnedInv, IdsInv

LEMMA ShapeAfter ==
    ASSUME OwnedInv, NEW i, NEW r, CopiesStep(i, r)
    PROVE  ShapeInv' /\ RealInv'
    <1>1. ASSUME NEW o \in Copies'
          PROVE  Fields(o)
      BY <1>1, CopiesAfter DEF Copy, Born, Template, OwnedInv, ShapeInv
    <1>2. /\ \A a, b \in tenant' : a = b
          /\ \A o \in tenant' : o.uid # 0 /\ o.ref = 0
      BY DEF CopiesStep, TenantStep, OwnedInv, ShapeInv, RealInv
    <1>3. /\ \A a, b \in tenantCache' : a = b
          /\ \A o \in tenantCache' : o.uid # 0 /\ o.ref = 0
      BY <1>2 DEF CopiesStep, OwnedInv, ShapeInv, RealInv
    <1>4. ASSUME kind # "defaultsa", NEW o \in Stored', o.ref # 0
          PROVE  o.uid # 0
      <2>1. o \in Copies'
        BY <1>4 DEF Stored, Copies
      <2> QED BY <1>4, <2>1, CopiesAfter DEF Copy, Marked, Born, Unused, OwnedInv, RealInv
    <1>5. ShapeInv'
      BY <1>1, <1>2, <1>3 DEF ShapeInv, Fields
    <1>6. RealInv'
      BY <1>2, <1>3, <1>4 DEF RealInv, CopiesStep
    <1> QED BY <1>5, <1>6

LEMMA StagesAfter ==
    ASSUME OwnedInv, NEW i, NEW r, CopiesStep(i, r)
    PROVE  StagesInv'
    <1>1. \A w \in dws' : w.call.op \in {"create", "ensure", "update", "delete", "collect"}
      BY DEF CopiesStep, DwsFit, OwnedInv, StagesInv
    <1>2. /\ uws'.pc \in {"idle", "tenant", "meta", "get", "super"}
          /\ uws'.pc \in {"tenant", "meta", "super"} => uws'.call.op = "update"
      BY DEF CopiesStep, UwsFit, OwnedInv, StagesInv
    <1>3. /\ patrol'.pc \in {"idle", "listed", "unlisted", "checked", "super"}
          /\ patrol'.pc = "super" => patrol'.call.op = "delete"
      BY DEF CopiesStep, PatrolFit, OwnedInv, StagesInv
    <1> QED BY <1>1, <1>2, <1>3 DEF StagesInv

LEMMA DecidedAfter ==
    ASSUME OwnedInv, NEW i, NEW r, CopiesStep(i, r)
    PROVE  DecidedInv'
    <1>0. kind' = kind /\ ("defaultsa" \notin UidKinds)
      BY DEF CopiesStep, UidKinds
    <1>1. ASSUME patrol'.pc = "super"
          PROVE  Condemned(patrol)'
      <2>1. InUse(patrol'.call.uid) /\ InUse(patrol'.p.ref) /\ Condemned(patrol')
        <3>1. CASE patrol' = patrol
          BY <1>1, <3>1, CopiesUsed DEF OwnedInv, DecidedInv, InUse, Copies
        <3>2. CASE PatrolFit(patrol')
          BY <1>1, <3>2 DEF PatrolFit
        <3> QED BY <3>1, <3>2 DEF CopiesStep
      <2>2. CASE kind = "defaultsa"
        BY <1>0, <2>1, <2>2, GoneStays DEF Condemned, Gone
      <2>3. CASE kind # "defaultsa"
        <3>1. PICK u : u = patrol'.call.uid
          OBVIOUS
        <3>2. InUse(u) /\ Doomed(u)
          BY <2>1, <2>3, <3>1 DEF Condemned
        <3> QED BY <1>0, <2>3, <3>1, <3>2, DoomedStays DEF Condemned, Doomed, Gone
      <2> QED BY <2>2, <2>3
    <1>2. ASSUME kind' \in UidKinds, NEW w \in dws', w.call.op = "delete"
          PROVE  Doomed(w.call.uid)'
      <2>1. InUse(w.call.uid) /\ Doomed(w.call.uid)
        BY <1>2 DEF CopiesStep, DwsFit, OwnedInv, DecidedInv, InUse
      <2> QED BY <1>0, <1>2, <2>1, DoomedStays DEF Doomed, Gone
    <1>3. ASSUME kind' \in UidKinds, NEW w \in dws', w.call.op = "collect"
          PROVE  Gone(w.call.uid)'
      <2>1. InUse(w.call.uid) /\ Gone(w.call.uid)
        BY <1>3 DEF CopiesStep, DwsFit, OwnedInv, DecidedInv, InUse
      <2> QED BY <2>1, GoneStays DEF Gone
    <1>4. kind' = "defaultsa" => uws'.pc = "idle"
      BY <1>0 DEF CopiesStep, UwsFit, OwnedInv, DecidedInv
    <1> QED BY <1>1, <1>2, <1>3, <1>4 DEF DecidedInv

\* Every step of that form keeps the invariant.
LEMMA StepKeeps ==
    ASSUME OwnedInv, NEW i, NEW r, CopiesStep(i, r)
    PROVE  OwnedInv'
    <1>1. RelatedInv'
      BY DEF CopiesStep, OwnedInv, RelatedInv
    <1> QED BY <1>1, KnownAfter, IdsAfter, ShapeAfter, StagesAfter, DecidedAfter DEF OwnedInv

-----------------------------------------------------------------------------
(* Reconciliation: what the downward workers decide *)

\* A tenant object that the informer should know and the cache does not have is gone.
LEMMA UnseenIsGone ==
    ASSUME OwnedInv, loaded, NEW o \in Copies, \A c \in tenantCache : c.uid # o.ref
    PROVE  Gone(o.ref)
    BY DEF OwnedInv, KnownInv, Seen, Gone

\* All copies of the super object have lost it.
LEMMA UnseenIsDoomed ==
    ASSUME OwnedInv, loaded, kind # "defaultsa", NEW o \in Stored, o.ref # 0, \A c \in tenantCache : c.uid # o.ref
    PROVE  InUse(o.uid) /\ Doomed(o.uid)
    <1>1. o \in Copies /\ o.uid # 0 /\ InUse(o.uid) /\ Gone(o.ref)
      BY StoredCopies, CopiesUsed, UnseenIsGone DEF OwnedInv, RealInv
    <1> QED BY <1>1 DEF Doomed, OwnedInv, IdsInv

LEMMA InTenantCache ==
    ASSUME OwnedInv
    PROVE  /\ Exists(The(tenantCache)) => The(tenantCache) \in tenantCache
           /\ ~Exists(The(tenantCache)) => tenantCache = {}
    BY TheOne, NoObjFields DEF Exists, OwnedInv, RealInv

LEMMA InSuperCache ==
    ASSUME Exists(The(superCache))
    PROVE  The(superCache) \in superCache
    BY TheOne DEF Exists

\* What Reconcile of a request may come to.
Fits(u, c) == c = Nothing \/ c.op = "fail" \/ DwsFit([req |-> u, call |-> c])

LEMMA NothingFits ==
    ASSUME NEW u
    PROVE  Fits(u, Nothing) /\ Fits(u, Failure)
    BY CallFields DEF Fits, Failure

LEMMA CreateFits ==
    ASSUME OwnedInv, NEW u, NEW k, NEW v \in tenantCache
    PROVE  /\ Fits(u, Create(BuildSuperClusterObject(k, v)))
           /\ Fits(u, Ensure(BuildSuperClusterNamespace(v)))
    <1>1. Fields(v)
      BY DEF OwnedInv, ShapeInv, Copies
    <1>2. ASSUME NEW m
          PROVE  Template([ResetMetadata([v EXCEPT !.meta = m]) EXCEPT !.ref = v.uid, !.status = 0])
      <2> DEFINE a == [v EXCEPT !.meta = m]
                 b == [a EXCEPT !.uid = 0]
                 c == [b EXCEPT !.rv = 0]
                 d == [c EXCEPT !.ref = v.uid]
                 e == [d EXCEPT !.status = 0]
      <2> HIDE DEF a, b, c, d, e
      <2>1. Fields(a)
        BY <1>1, ExceptMeta, Zenon DEF a
      <2>2. Fields(b) /\ b.uid = 0
        BY <2>1, ExceptUid, Zenon DEF b
      <2>3. Fields(c) /\ c.uid = 0
        BY <2>2, ExceptRv, Zenon DEF c
      <2>4. Fields(d) /\ d.uid = 0 /\ d.ref = v.uid
        BY <2>3, ExceptRef, Zenon DEF d
      <2>5. Fields(e) /\ e.uid = 0 /\ e.ref = v.uid
        BY <2>4, ExceptStatus, Zenon DEF e
      <2> QED BY <2>5 DEF Template, ResetMetadata, a, b, c, d, e
    <1>3. /\ Template(BuildSuperClusterObject(k, v))
          /\ Template(BuildSuperClusterNamespace(v))
      BY <1>2 DEF BuildSuperClusterObject, BuildSuperClusterNamespace,
                  buildCleanSuperClusterObject
    <1>4. ASSUME NEW o, Template(o)
          PROVE  Fits(u, Create(o)) /\ Fits(u, Ensure(o))
      BY <1>4, CallFields DEF Fits, DwsFit, Create, Ensure, Creates
    <1> QED BY <1>3, <1>4

LEMMA UpdateFits ==
    ASSUME NEW u, NEW o, NEW old, Copy(o)
    PROVE  Fits(u, Update(o)) /\ Fits(u, UpdateIfChanged(old, o))
    BY CallFields DEF Fits, DwsFit, Update, UpdateIfChanged, Creates

LEMMA DelegatedFits ==
    ASSUME NEW u, NEW p, NEW c, p.ref = u => Fits(u, c)
    PROVE  Fits(u, Delegated(u, p, c))
    BY NothingFits DEF Delegated

LEMMA DeleteNameFits ==
    ASSUME kind \notin UidKinds, NEW u
    PROVE  Fits(u, DeleteName)
    BY CallFields, NoObjCopy DEF Fits, DwsFit, DeleteName, Creates

LEMMA DeleteUidFits ==
    ASSUME OwnedInv, loaded, kind # "defaultsa", tenantCache = {}, NEW u, u # 0, NEW p \in superCache, p.ref = u
    PROVE  Fits(u, DeleteUid(p))
    <1>1. InUse(p.uid) /\ Doomed(p.uid)
      BY UnseenIsDoomed DEF Stored
    <1> QED BY <1>1, CallFields, NoObjCopy DEF Fits, DwsFit, DeleteUid, Creates

LEMMA CollectFits ==
    ASSUME OwnedInv, loaded, tenantCache = {}, NEW u, NEW p \in superCache, p.ref = u
    PROVE  Fits(u, Collect(u))
    <1>1. InUse(u) /\ Gone(u)
      BY CopiesUsed, UnseenIsGone DEF Copies
    <1> QED BY <1>1, CallFields, NoObjCopy DEF Fits, DwsFit, Collect, Creates

LEMMA DecideStep ==
    ASSUME NEW u, NEW c, Decide(u, c), Fits(u, c), UNCHANGED caches
    PROVE  CopiesStep(0, 0)
    <1>1. dws' = dws \cup IF c = Nothing THEN {} ELSE {[req |-> u, call |-> c]}
      BY DEF Decide
    <1>2. \A w \in dws' : w \in dws \/ DwsFit(w)
      BY <1>1 DEF Decide, Fits
    <1> QED BY <1>2 DEF CopiesStep, Decide, caches, objects, Stored

\* Checks of equality return a copy of the super object.
LEMMA ChecksCopy ==
    ASSUME NEW p, Copy(p), NEW v, NEW k
    PROVE  /\ Copy(CheckConfigMapEquality(p, v)) /\ Copy(CheckSecretEquality(k, p, v))
           /\ Copy(CheckBinaryDataEquality(p, v)) /\ Copy(CheckServiceEquality(p, v))
           /\ Copy(CheckEndpointsEquality(p, v)) /\ Copy(CheckPVCEquality(p, v))
    <1>0. Fields(p)
      BY DEF Copy
    <1>1. ASSUME NEW m, NEW x
          PROVE  /\ Copy([p EXCEPT !.meta = m]) /\ Copy([p EXCEPT !.spec = x])
                 /\ Copy([[p EXCEPT !.meta = m] EXCEPT !.spec = x])
      <2>1. \A q : Fields(q) => /\ Fields([q EXCEPT !.meta = m])
                                /\ [q EXCEPT !.meta = m].uid = q.uid
                                /\ [q EXCEPT !.meta = m].ref = q.ref
                                /\ Fields([q EXCEPT !.spec = x])
                                /\ [q EXCEPT !.spec = x].uid = q.uid
                                /\ [q EXCEPT !.spec = x].ref = q.ref
        BY ExceptMeta, ExceptSpec, Zenon
      <2> QED BY <1>0, <2>1, ChangedCopy, Zenon
    <1> QED BY <1>1 DEF CheckConfigMapEquality, CheckSecretEquality, CheckBinaryDataEquality,
          CheckServiceEquality, CheckEndpointsEquality, CheckPVCEquality, checkMapEquality,
          CheckDWObjectMetaEquality

\* The check of an ingress returns a copy of the tenant's.
LEMMA IngressCopy ==
    ASSUME NEW p, NEW v, Copy(v)
    PROVE  Copy(CheckIngressEquality(p, v))
    <1>1. /\ Fields(CheckIngressEquality(p, v))
          /\ CheckIngressEquality(p, v).uid = v.uid /\ CheckIngressEquality(p, v).ref = v.ref
      <2> DEFINE a == [v EXCEPT !.spec = p.spec]
                 b == [a EXCEPT !.status = p.status]
      <2> HIDE DEF a, b
      <2>1. Fields(a) /\ a.uid = v.uid /\ a.ref = v.ref
        BY ExceptSpec, Zenon DEF Copy, a
      <2>2. Fields(b) /\ b.uid = v.uid /\ b.ref = v.ref
        BY <2>1, ExceptStatus, Zenon DEF b
      <2> QED BY <2>2 DEF CheckIngressEquality, a, b
    <1> QED BY <1>1, ChangedCopy

\* The cache of super objects has copies.
LEMMA SuperCacheCopy ==
    ASSUME OwnedInv, NEW p \in superCache
    PROVE  p \in Stored /\ Copy(p)
    BY StoredIsCopy DEF Stored

LEMMA TenantCacheCopy ==
    ASSUME OwnedInv, NEW v \in tenantCache
    PROVE  v \in Stored /\ Copy(v)
    BY StoredIsCopy DEF Stored

LEMMA ConfigMapStep ==
    ASSUME OwnedInv, NEW u \in Uid, ConfigMapReconcile(u)
    PROVE  CopiesStep(0, 0)
    <1> DEFINE v == The(tenantCache)
               p == The(superCache)
               c == Switch(u, p, reconcileConfigMapCreate, reconcileConfigMapUpdate,
                           reconcileConfigMapRemove)
    <1>0. kind = "configmap" /\ UNCHANGED caches /\ Decide(u, c)
      BY DEF ConfigMapReconcile
    <1>1. Exists(v) => Fits(u, reconcileConfigMapCreate(v))
      BY CreateFits, InTenantCache DEF reconcileConfigMapCreate
    <1>2. Exists(p) /\ Exists(v) => Fits(u, reconcileConfigMapUpdate(u, p, v))
      BY InSuperCache, SuperCacheCopy, ChecksCopy, DelegatedFits, UpdateFits DEF reconcileConfigMapUpdate
    <1>3. Exists(p) /\ ~Exists(v) => Fits(u, reconcileConfigMapRemove(u, p))
      BY <1>0, DelegatedFits, DeleteNameFits DEF reconcileConfigMapRemove, UidKinds
    <1>4. Fits(u, c)
      BY <1>1, <1>2, <1>3, NothingFits DEF Switch
    <1> QED BY <1>0, <1>4, DecideStep

LEMMA ServiceStep ==
    ASSUME OwnedInv, NEW u \in Uid, ServiceReconcile(u)
    PROVE  CopiesStep(0, 0)
    <1> DEFINE v == The(tenantCache)
               p == The(superCache)
               c == Switch(u, p, reconcileServiceCreate, reconcileServiceUpdate,
                           reconcileServiceRemove)
    <1>0. kind = "service" /\ UNCHANGED caches /\ Decide(u, c)
      BY DEF ServiceReconcile
    <1> HIDE DEF c
    <1>5. loaded
      BY <1>0 DEF Decide
    <1> USE DEF c
    <1>1. Exists(v) => Fits(u, reconcileServiceCreate(v))
      BY CreateFits, InTenantCache DEF reconcileServiceCreate
    <1>2. Exists(p) /\ Exists(v) => Fits(u, reconcileServiceUpdate(u, p, v))
      BY InSuperCache, SuperCacheCopy, ChecksCopy, DelegatedFits, UpdateFits DEF reconcileServiceUpdate
    <1>3. Exists(p) /\ ~Exists(v) => Fits(u, reconcileServiceRemove(u, p))
      BY <1>0, <1>5, UidNotZero, InSuperCache, InTenantCache, DelegatedFits, DeleteUidFits
         DEF reconcileServiceRemove
    <1>4. Fits(u, c)
      BY <1>1, <1>2, <1>3, NothingFits DEF Switch
    <1> QED BY <1>0, <1>4, DecideStep

LEMMA PVCStep ==
    ASSUME OwnedInv, NEW u \in Uid, PVCReconcile(u)
    PROVE  CopiesStep(0, 0)
    <1> DEFINE v == The(tenantCache)
               p == The(superCache)
               c == Switch(u, p, reconcilePVCCreate, reconcilePVCUpdate,
                           reconcilePVCRemove)
    <1>0. kind = "persistentvolumeclaim" /\ UNCHANGED caches /\ Decide(u, c)
      BY DEF PVCReconcile
    <1>1. Exists(v) => Fits(u, reconcilePVCCreate(v))
      BY CreateFits, InTenantCache DEF reconcilePVCCreate
    <1>2. Exists(p) /\ Exists(v) => Fits(u, reconcilePVCUpdate(u, p, v))
      BY InSuperCache, SuperCacheCopy, ChecksCopy, DelegatedFits, UpdateFits DEF reconcilePVCUpdate
    <1>3. Exists(p) /\ ~Exists(v) => Fits(u, reconcilePVCRemove(u, p))
      BY <1>0, DelegatedFits, DeleteNameFits DEF reconcilePVCRemove, UidKinds
    <1>4. Fits(u, c)
      BY <1>1, <1>2, <1>3, NothingFits DEF Switch
    <1> QED BY <1>0, <1>4, DecideStep

LEMMA NamespaceStep ==
    ASSUME OwnedInv, NEW u \in Uid, NamespaceReconcile(u)
    PROVE  CopiesStep(0, 0)
    <1> DEFINE v == The(tenantCache)
               p == The(superCache)
               c == Switch(u, p, reconcileNamespaceCreate, reconcileNamespaceUpdate,
                           reconcileNamespaceRemove)
    <1>0. kind = "namespace" /\ UNCHANGED caches /\ Decide(u, c)
      BY DEF NamespaceReconcile
    <1> HIDE DEF c
    <1>5. loaded
      BY <1>0 DEF Decide
    <1> USE DEF c
    <1>1. Exists(v) => Fits(u, reconcileNamespaceCreate(v))
      BY CreateFits, InTenantCache DEF reconcileNamespaceCreate
    <1>2. Exists(p) /\ Exists(v) => Fits(u, reconcileNamespaceUpdate(u, p, v))
      BY DelegatedFits, NothingFits DEF reconcileNamespaceUpdate
    <1>3. Exists(p) /\ ~Exists(v) => Fits(u, reconcileNamespaceRemove(u, p))
      BY <1>0, <1>5, UidNotZero, InSuperCache, InTenantCache, DelegatedFits, DeleteUidFits
         DEF reconcileNamespaceRemove
    <1>4. Fits(u, c)
      BY <1>1, <1>2, <1>3, NothingFits DEF Switch
    <1> QED BY <1>0, <1>4, DecideStep

LEMMA IngressStep ==
    ASSUME OwnedInv, NEW u \in Uid, IngressReconcile(u)
    PROVE  CopiesStep(0, 0)
    <1> DEFINE v == The(tenantCache)
               p == The(superCache)
               c == Switch(u, p, reconcileIngressCreate, reconcileIngressUpdate,
                           reconcileIngressRemove)
    <1>0. kind = "ingress" /\ UNCHANGED caches /\ Decide(u, c)
      BY DEF IngressReconcile
    <1> HIDE DEF c
    <1>5. loaded
      BY <1>0 DEF Decide
    <1> USE DEF c
    <1>1. Exists(v) => Fits(u, reconcileIngressCreate(v))
      BY CreateFits, InTenantCache DEF reconcileIngressCreate
    <1>2. Exists(p) /\ Exists(v) => Fits(u, reconcileIngressUpdate(u, p, v))
      BY InTenantCache, TenantCacheCopy, IngressCopy, DelegatedFits, UpdateFits, NothingFits
         DEF reconcileIngressUpdate
    <1>3. Exists(p) /\ ~Exists(v) => Fits(u, reconcileIngressRemove(u, p))
      BY <1>0, <1>5, UidNotZero, InSuperCache, InTenantCache, DelegatedFits, DeleteUidFits
         DEF reconcileIngressRemove
    <1>4. Fits(u, c)
      BY <1>1, <1>2, <1>3, NothingFits DEF Switch
    <1> QED BY <1>0, <1>4, DecideStep

LEMMA EndpointsStep ==
    ASSUME OwnedInv, NEW u \in Uid, EndpointsReconcile(u)
    PROVE  CopiesStep(0, 0)
    <1> DEFINE v == The(tenantCache)
               p == The(superCache)
               s == Switch(u, p, reconcileEndpointsCreate, reconcileEndpointsUpdate,
                           reconcileEndpointsRemove)
               c == IF related THEN Nothing ELSE s
    <1>0. kind = "endpoints" /\ UNCHANGED caches /\ Decide(u, c)
      BY DEF EndpointsReconcile
    <1>1. Exists(v) => Fits(u, reconcileEndpointsCreate(v))
      BY CreateFits, InTenantCache DEF reconcileEndpointsCreate
    <1>2. Exists(p) /\ Exists(v) => Fits(u, reconcileEndpointsUpdate(u, p, v))
      BY InSuperCache, SuperCacheCopy, ChecksCopy, DelegatedFits, UpdateFits
         DEF reconcileEndpointsUpdate
    <1>3. Exists(p) /\ ~Exists(v) => Fits(u, reconcileEndpointsRemove(u, p))
      BY <1>0, DelegatedFits, DeleteNameFits DEF reconcileEndpointsRemove, UidKinds
    <1>4. Fits(u, s)
      BY <1>1, <1>2, <1>3, NothingFits DEF Switch
    <1>5. Fits(u, c)
      BY <1>4, NothingFits
    <1> HIDE DEF c
    <1> QED BY <1>0, <1>5, DecideStep

\* Accounts of the tenant's are not changed once they are there, and the default account
\* is marked, in the copy of the cache, too.
LEMMA ServiceAccountStep ==
    ASSUME OwnedInv, NEW u \in Uid, ServiceAccountReconcile(u)
    PROVE  CopiesStep(0, 0)
    <1> DEFINE v == The(tenantCache)
               p == The(superCache)
               c == Switch(u, p, reconcileServiceAccountCreate,
                           reconcileServiceAccountUpdate, reconcileServiceAccountRemove)
    <1>0. /\ kind \in {"serviceaccount", "defaultsa"} /\ UNCHANGED <<tenantCache, loaded>>
          /\ Decide(u, c) /\ superCache' = IF c.op = "update" THEN {c.obj} ELSE superCache
      BY DEF ServiceAccountReconcile
    <1> DEFINE Sound(call) == Fits(u, call) /\ (call.op = "update" => Copy(call.obj))
    <1>1. /\ Fits(u, Create(BuildSuperClusterObject("serviceaccount", v))) \/ ~Exists(v)
          /\ Fits(u, DeleteName)
      BY <1>0, CreateFits, InTenantCache, DeleteNameFits DEF UidKinds
    <1>2. Exists(v) => Sound(reconcileServiceAccountCreate(v))
      BY <1>1, CallFields DEF reconcileServiceAccountCreate, Create
    <1>3. Exists(p) /\ Exists(v) => Sound(reconcileServiceAccountUpdate(u, p, v))
      <2> SUFFICES ASSUME Exists(p), Exists(v)
                   PROVE  Sound(reconcileServiceAccountUpdate(u, p, v))
        OBVIOUS
      <2>1. CASE kind # "defaultsa"
        <3>1. reconcileServiceAccountUpdate(u, p, v) = Delegated(u, p, Nothing)
          BY <2>1, Zenon DEF reconcileServiceAccountUpdate
        <3> QED BY <3>1, NothingFits, CallFields DEF Delegated, Nothing, Failure
      <2>2. CASE kind = "defaultsa"
        <3> DEFINE o == [p EXCEPT !.ref = v.uid]
        <3> HIDE DEF o
        <3>1. Copy(p) /\ v \in tenantCache
          BY InSuperCache, SuperCacheCopy, InTenantCache
        <3>2. Fields(o) /\ o.ref = v.uid
          BY <3>1, ExceptRef, Zenon DEF o, Copy
        <3>3. Copy(o)
          BY <2>2, <3>1, <3>2 DEF Copy, Marked
        <3>4. reconcileServiceAccountUpdate(u, p, v) = UpdateIfChanged(p, o)
          BY <2>2, Zenon DEF reconcileServiceAccountUpdate, o
        <3> QED BY <3>3, <3>4, UpdateFits, CallFields DEF UpdateIfChanged, Update, Nothing
      <2> QED BY <2>1, <2>2
    <1>4. Sound(reconcileServiceAccountRemove(u, p))
      BY <1>1, NothingFits, CallFields
         DEF reconcileServiceAccountRemove, Delegated, DeleteName, Failure
    <1>5. Sound(c)
      BY <1>2, <1>3, <1>4, NothingFits, CallFields DEF Switch, Nothing
    <1> HIDE DEF c
    <1>6. \A w \in dws' : w \in dws \/ DwsFit(w)
      <2>1. dws' = dws \cup IF c = Nothing THEN {} ELSE {[req |-> u, call |-> c]}
        BY <1>0 DEF Decide
      <2> QED BY <1>0, <1>5, <2>1 DEF Decide, Fits
    <1>7. \A o \in superCache' : o \in Stored \/ Copy(o)
      BY <1>0, <1>5 DEF Stored
    <1>8. UNCHANGED <<kind, tenant, super, related, uws, patrol>>
      BY <1>0 DEF Decide, objects
    <1> QED BY <1>0, <1>6, <1>7, <1>8 DEF CopiesStep, Stored

LEMMA SecretStep ==
    ASSUME OwnedInv, NEW u \in Uid, SecretReconcile(u)
    PROVE  CopiesStep(0, 0)
    <1> DEFINE v == The(tenantCache)
               found == {o \in superCache : kind = "secret" \/ o.ref = u}
    <1>0. kind \in {"secret", "satoken"} /\ UNCHANGED caches
      BY DEF SecretReconcile
    <1>7. loaded
      BY DEF SecretReconcile, Decide
    <1>1. PICK p \in IF found = {} THEN {NoObj} ELSE found :
              Decide(u, Switch(u, p, reconcileSecretCreate, reconcileSecretUpdate,
                               reconcileSecretRemove))
      BY DEF SecretReconcile
    <1>2. Exists(p) => p \in superCache /\ (kind = "satoken" => p.ref = u)
      BY <1>0 DEF Exists
    <1> DEFINE c == Switch(u, p, reconcileSecretCreate, reconcileSecretUpdate,
                           reconcileSecretRemove)
    <1>3. Exists(v) => Fits(u, reconcileSecretCreate(v))
      BY CreateFits, InTenantCache
         DEF reconcileSecretCreate, reconcileServiceAccountSecretCreate,
             reconcileNormalSecretCreate
    <1>4. Exists(p) /\ Exists(v) => Fits(u, reconcileSecretUpdate(u, p, v))
      BY <1>2, SuperCacheCopy, ChecksCopy, DelegatedFits, UpdateFits
         DEF reconcileSecretUpdate, reconcileServiceAccountSecretUpdate,
             reconcileNormalSecretUpdate
    <1>5. Exists(p) /\ ~Exists(v) => Fits(u, reconcileSecretRemove(u, p))
      <2>1. CASE kind = "satoken"
        BY <1>2, <1>7, <2>1, CollectFits, InTenantCache
           DEF reconcileSecretRemove, reconcileServiceAccountTokenSecretRemove
      <2>2. CASE kind = "secret"
        BY <2>2, DelegatedFits, DeleteNameFits
           DEF reconcileSecretRemove, reconcileNormalSecretRemove, UidKinds
      <2> QED BY <1>0, <2>1, <2>2
    <1>6. Fits(u, c)
      BY <1>3, <1>4, <1>5, NothingFits DEF Switch
    <1> HIDE DEF c
    <1> QED BY <1>0, <1>1, <1>6, DecideStep DEF c

LEMMA ReconcileStep ==
    ASSUME OwnedInv, kind \in DownwardKinds, NEW u \in Uid, Reconcile(u)
    PROVE  CopiesStep(0, 0)
    BY ConfigMapStep, SecretStep, ServiceStep, EndpointsStep, ServiceAccountStep, PVCStep,
       NamespaceStep, IngressStep DEF Reconcile

-----------------------------------------------------------------------------
(* The patrol *)

\* The patrol goes on to x, and leaves all objects alone.
LEMMA PatrolStep ==
    ASSUME NEW x, PatrolAt(x), PatrolFit(x)
    PROVE  CopiesStep(0, 0)
    BY DEF PatrolAt, CopiesStep, caches, objects, Stored

LEMMA IdleFits ==
    /\ PatrolFit(Idle) /\ PatrolFit(Checked) /\ UwsFit(Idle)
    BY AtFields, CallFields, NoObjCopy DEF PatrolFit, UwsFit, Idle, Checked, Nothing, At

\* The patrol has listed a super object, or none.
LEMMA ListedFits ==
    ASSUME NEW p, Copy(p)
    PROVE  PatrolFit(At("listed", Nothing, p)) /\ PatrolFit(At("unlisted", Nothing, p))
    BY AtFields, CallFields, NoObjCopy DEF PatrolFit, Nothing

\* What a patrol step that deletes nothing comes to.
LEMMA FindsStep ==
    ASSUME NEW x, PatrolFit(x), NEW v, Finds(x) \/ RequeueObject(v, x) \/ AddToQueue(x)
    PROVE  CopiesStep(0, 0)
    BY PatrolStep DEF Finds, RequeueObject, AddToQueue

\* A super object without a tenant object in the cache is deleted.
LEMMA PatrolDeleteStep ==
    ASSUME OwnedInv, loaded, NEW p \in Stored, p.ref # 0,
           \A c \in tenantCache : c.uid # p.ref, PatrolDelete(p)
    PROVE  CopiesStep(0, 0)
    <1>1. InUse(p.uid) /\ InUse(p.ref) /\ Copy(p)
      BY CopiesUsed, StoredCopies, StoredIsCopy
    <1>2. Gone(p.ref) /\ (kind # "defaultsa" => Doomed(p.uid))
      BY UnseenIsGone, UnseenIsDoomed, StoredCopies
    <1>3. PatrolFit(At("super", DeleteUid(p), p))
      BY <1>1, <1>2, AtFields, CallFields, NoObjCopy DEF PatrolFit, Condemned, DeleteUid
    <1> QED BY <1>3, PatrolStep DEF PatrolDelete, Finds

\* The tenant has at most one object of the name.
LEMMA OtherIsUnseen ==
    ASSUME OwnedInv, NEW r, Exists(The(tenantCache)) => r # The(tenantCache).uid
    PROVE  \A c \in tenantCache : c.uid # r
    BY InTenantCache DEF OwnedInv, ShapeInv

\* The differ: everything but the deletion is to requeue something or to do nothing.
LEMMA DiffersStep ==
    ASSUME OwnedInv, Known, NEW p, p = patrol.p, p.ref # 0,
           ~Exists(The(VList)) \/ p.ref # The(VList).uid, PatrolDelete(p)
    PROVE  CopiesStep(0, 0)
    <1>0. loaded /\ VList = tenantCache
      BY DEF Known, VList
    <1>1. p \in Stored
      BY DEF Stored
    <1>2. \A c \in tenantCache : c.uid # p.ref
      BY <1>0, OtherIsUnseen
    <1> QED BY <1>0, <1>1, <1>2, PatrolDeleteStep

LEMMA ListStep ==
    ASSUME OwnedInv, ListP
    PROVE  CopiesStep(0, 0)
    <1>1. Copy(The(superCache))
      BY TheOne, NoObjCopy, SuperCacheCopy
    <1> QED BY <1>1, ListedFits, FindsStep DEF ListP, Listing

LEMMA ConfigMapPatrolStep ==
    ASSUME OwnedInv, ConfigMapPatrollerDo
    PROVE  CopiesStep(0, 0)
    BY DiffersStep, FindsStep, IdleFits
       DEF ConfigMapPatrollerDo, Difference, ConfigMapUpdateFunc, Requeue, DefaultDifferFilter

LEMMA ServicePatrolStep ==
    ASSUME OwnedInv, ServicePatrollerDo
    PROVE  CopiesStep(0, 0)
    BY DiffersStep, FindsStep, IdleFits
       DEF ServicePatrollerDo, Difference, ServiceUpdateFunc, Requeue, DefaultDifferFilter

LEMMA EndpointsPatrolStep ==
    ASSUME OwnedInv, EndpointsPatrollerDo
    PROVE  CopiesStep(0, 0)
    BY FindsStep, IdleFits
       DEF EndpointsPatrollerDo, Difference, EndpointsUpdateFunc, EndpointsDeleteFunc, Requeue

LEMMA ServiceAccountPatrolStep ==
    ASSUME OwnedInv, ServiceAccountPatrollerDo
    PROVE  CopiesStep(0, 0)
    BY DiffersStep, FindsStep, IdleFits
       DEF ServiceAccountPatrollerDo, Difference, ServiceAccountUpdateFunc, Requeue,
           DefaultDifferFilter

LEMMA PVCPatrolStep ==
    ASSUME OwnedInv, PVCPatrollerDo
    PROVE  CopiesStep(0, 0)
    BY DiffersStep, FindsStep, IdleFits
       DEF PVCPatrollerDo, Difference, PVCUpdateFunc, Requeue, DefaultDifferFilter

\* A namespace is also deleted when its VirtualCluster is gone, and the tenant with it.
LEMMA NamespacePatrolStep ==
    ASSUME OwnedInv, NamespacePatrollerDo
    PROVE  CopiesStep(0, 0)
    <1>0. kind = "namespace"
      BY DEF NamespacePatrollerDo
    <1>1. ASSUME ~related, patrol.p.ref # 0, PatrolDelete(patrol.p)
          PROVE  CopiesStep(0, 0)
      <2>1. tenant = {}
        BY <1>0, <1>1 DEF OwnedInv, RelatedInv
      <2>2. patrol.p \in Stored /\ patrol.p.uid # 0
        BY <1>0, <1>1 DEF Stored, OwnedInv, RealInv
      <2>3. InUse(patrol.p.uid) /\ InUse(patrol.p.ref) /\ Doomed(patrol.p.uid)
        BY <2>1, <2>2, StoredCopies, CopiesUsed DEF Doomed, Gone
      <2>4. PatrolFit(At("super", DeleteUid(patrol.p), patrol.p))
        BY <1>0, <2>2, <2>3, AtFields, CallFields, NoObjCopy, StoredIsCopy
           DEF PatrolFit, Condemned, DeleteUid
      <2> QED BY <1>1, <2>4, PatrolStep DEF PatrolDelete, Finds
    <1>2. Exists(The(VList)) => Known
      BY TheOne DEF VList, Exists
    <1> QED BY <1>1, <1>2, DiffersStep, FindsStep, IdleFits
        DEF NamespacePatrollerDo, Difference, NamespaceUpdateFunc, NamespaceDeleteFunc,
            deleteNamespace, shouldBeGarbageCollected, Requeue, NamespaceFilter

LEMMA CheckSecretStep ==
    ASSUME OwnedInv, checkSecretOfTenantCluster
    PROVE  CopiesStep(0, 0)
    BY FindsStep, IdleFits
       DEF checkSecretOfTenantCluster, checkServiceAccountTokenTypeSecretOfTenantCluster

LEMMA CheckIngressStep ==
    ASSUME OwnedInv, checkIngressesOfTenantCluster
    PROVE  CopiesStep(0, 0)
    BY FindsStep, PatrolStep, IdleFits DEF checkIngressesOfTenantCluster

LEMMA SuperObjectsStep ==
    ASSUME OwnedInv, SuperObjects
    PROVE  CopiesStep(0, 0)
    <1>1. CASE Finds(Idle)
      BY <1>1, FindsStep, IdleFits
    <1>2. ASSUME loaded, NEW p \in superCache, p.ref # 0, p.ref # The(tenantCache).uid,
                 PatrolDelete(p)
          PROVE  CopiesStep(0, 0)
      BY <1>2, SuperCacheCopy, OtherIsUnseen, PatrolDeleteStep
    <1> QED BY <1>1, <1>2 DEF SuperObjects

LEMMA PatrollerStep ==
    ASSUME OwnedInv, PatrollerDo
    PROVE  CopiesStep(0, 0)
    BY ListStep, ConfigMapPatrolStep, ServicePatrolStep, EndpointsPatrolStep,
       ServiceAccountPatrolStep, PVCPatrolStep, NamespacePatrolStep, CheckSecretStep,
       CheckIngressStep, SuperObjectsStep
       DEF PatrollerDo, SecretPatrollerDo, IngressPatrollerDo

-----------------------------------------------------------------------------
(* Calls of the super cluster's API server *)

\* What a call makes of the objects on a side.  (Patches are made by none of the workers
\* of these kinds.)
LEMMA CreatedIs ==
    ASSUME NEW S, NEW c, c.op = "create" \/ c.op = "ensure", Fields(c.obj),
           c.obj.ref = 0 \/ c.obj \in Copies, UidLeft(c), NEW o \in After(S, c), o \notin S
    PROVE  Born(o, Fresh, c.obj.ref)
    <1>1. Fresh \in Uid /\ ~InUse(Fresh)
      BY DEF UidLeft, Fresh
    <1>2. Unused(Fresh)
      BY <1>1, UidNotZero DEF Unused
    <1> DEFINE a == [c.obj EXCEPT !.uid = Fresh]
               b == [a EXCEPT !.rv = 1]
    <1> HIDE DEF a, b
    <1>3. Fields(a) /\ a.uid = Fresh /\ a.ref = c.obj.ref
      BY ExceptUid, Zenon DEF a
    <1>4. Fields(b) /\ b.uid = Fresh /\ b.ref = c.obj.ref
      BY <1>3, ExceptRv, Zenon DEF b
    <1>5. o = b
      <2>1. b = [c.obj EXCEPT !.uid = Fresh, !.rv = 1]
        BY Zenon DEF a, b
      <2> HIDE DEF Fresh
      <2>2. After(S, c) = S \cup {b} \/ After(S, c) = S
        BY <2>1, Zenon DEF After
      <2> QED BY <2>2
    <1> QED BY <1>2, <1>4, <1>5 DEF Born

LEMMA UpdatedIs ==
    ASSUME NEW S, NEW c, c.op = "update", Fields(c.obj)
    PROVE  \E b : /\ Fields(b) /\ b.uid = c.obj.uid /\ b.ref = c.obj.ref
                  /\ After(S, c) = {o \in S : o.uid # c.obj.uid} \cup {b}
    <1> DEFINE b == [c.obj EXCEPT !.rv = c.obj.rv + 1]
    <1> HIDE DEF b
    <1>1. Fields(b) /\ b.uid = c.obj.uid /\ b.ref = c.obj.ref
      BY ExceptRv, Zenon DEF b
    <1>2. After(S, c) = {o \in S : o.uid # c.obj.uid} \cup {b}
      BY Zenon DEF After, b
    <1> QED BY <1>1, <1>2

LEMMA DeletedIs ==
    ASSUME NEW S, NEW c, c.op = "delete" \/ c.op = "collect"
    PROVE  After(S, c) = IF c.op = "delete" THEN {o \in S : c.uid \notin {0, o.uid}}
                         ELSE {o \in S : o.ref # c.uid}
    <1>1. CASE c.op = "delete"
      BY <1>1, Zenon DEF After
    <1>2. CASE c.op = "collect"
      BY <1>2, Zenon DEF After
    <1> QED BY <1>1, <1>2

\* The super cluster's objects after a call, and nothing else has changed but a worker.
LEMMA SuperAfter ==
    ASSUME OwnedInv, NEW w \in dws, UidLeft(w.call)
    PROVE  \E i, r : \A o \in After(super, w.call) : o \in Stored \/ Copy(o) \/ Born(o, i, r)
    <1> DEFINE c == w.call
    <1>0. super \subseteq Stored
      BY DEF Stored
    <1>1. CASE Creates(c)
      <2>1. c.obj \in Copies /\ Fields(c.obj)
        BY DEF Copies, OwnedInv, ShapeInv
      <2>2. \A o \in After(super, c) : o \in super \/ Born(o, Fresh, c.obj.ref)
        BY <1>1, <2>1, CreatedIs DEF Creates
      <2> QED BY <1>0, <2>2
    <1>2. CASE c.op = "update"
      <2>1. c.obj \in Stored /\ Copy(c.obj) /\ Fields(c.obj)
        BY <1>2, StoredIsCopy DEF Stored, Creates, Copy
      <2>2. PICK b : /\ Fields(b) /\ b.uid = c.obj.uid /\ b.ref = c.obj.ref
                     /\ After(super, c) = {o \in super : o.uid # c.obj.uid} \cup {b}
        BY <1>2, <2>1, UpdatedIs
      <2>3. Copy(b)
        BY <2>1, <2>2, ChangedCopy
      <2> QED BY <1>0, <2>2, <2>3
    <1>3. CASE c.op = "delete" \/ c.op = "collect"
      BY <1>0, <1>3, DeletedIs
    <1> QED BY <1>1, <1>2, <1>3 DEF OwnedInv, StagesInv, Creates

LEMMA DwsCallStep ==
    ASSUME OwnedInv, NEW w \in dws, DwsCall(w)
    PROVE  \E i, r : CopiesStep(i, r)
    <1>1. \A o \in super \cup superCache : o \in Stored
      BY DEF Stored
    <1>2. /\ dws' \subseteq dws /\ UidLeft(w.call)
          /\ super' = After(super, w.call) \/ super' = super
          /\ UNCHANGED <<kind, tenant, tenantCache, superCache, loaded, related, uws, patrol>>
      BY DEF DwsCall, caches
    <1>3. PICK i, r : \A o \in super' : o \in Stored \/ Copy(o) \/ Born(o, i, r)
      BY <1>1, <1>2, SuperAfter
    <1>4. CopiesStep(i, r)
      BY <1>1, <1>2, <1>3 DEF CopiesStep
    <1> QED BY <1>4

LEMMA NodeMapStep ==
    ASSUME OwnedInv, NEW w \in dws, NodeReconcileMap(w)
    PROVE  FALSE
    BY DEF NodeReconcileMap, OwnedInv, StagesInv

LEMMA PatrolDeletesStep ==
    ASSUME OwnedInv, PatrolDeletes
    PROVE  CopiesStep(0, 0)
    <1>1. PatrolFit(patrol')
      BY IdleFits DEF PatrolDeletes, PatrolCall, ClassChecked, Checked
    <1>2. patrol.pc = "super" /\ patrol.call.op = "delete"
      BY DEF PatrolDeletes, PatrolCall, OwnedInv, StagesInv
    <1>3. super' = After(super, patrol.call) \/ super' = super
      BY <1>2 DEF PatrolDeletes, PatrolCall
    <1>4. super' \subseteq super
      BY <1>2, <1>3, DeletedIs
    <1>5. UNCHANGED <<kind, tenant, tenantCache, superCache, loaded, related, dws, uws>>
      BY <1>2 DEF PatrolDeletes, PatrolCall, caches
    <1> QED BY <1>1, <1>4, <1>5 DEF CopiesStep, Stored

-----------------------------------------------------------------------------
(* The upward workers *)

LEMMA RetryStep ==
    ASSUME UwsRetry
    PROVE  CopiesStep(0, 0)
    BY IdleFits DEF UwsRetry, CopiesStep, objects, caches, Stored

\* An update of the tenant keeps the UID of the object.
LEMMA TenantUpdated ==
    ASSUME OwnedInv, kind # "defaultsa", NEW c, c.op = "update", c.obj \in Copies, Accepts(tenant, c),
           tenant' = After(tenant, c)
    PROVE  TenantStep(0)
    <1>1. PICK t \in tenant : t.uid = c.obj.uid
      <2>1. Accepts(tenant, c) = \E o \in tenant : o.uid = c.obj.uid /\ o.rv = c.obj.rv
        BY Zenon DEF Accepts
      <2> QED BY <2>1
    <1>2. Fields(c.obj) /\ t \in Copies /\ t.uid # 0 /\ t.ref = 0
      BY DEF Copies, OwnedInv, ShapeInv, RealInv
    <1>3. c.obj.ref = 0
      BY <1>1, <1>2 DEF OwnedInv, IdsInv
    <1>4. PICK b : /\ Fields(b) /\ b.uid = c.obj.uid /\ b.ref = c.obj.ref
                   /\ After(tenant, c) = {o \in tenant : o.uid # c.obj.uid} \cup {b}
      BY <1>2, UpdatedIs
    <1>5. tenant' = {b}
      BY <1>1, <1>4 DEF OwnedInv, ShapeInv
    <1> QED BY <1>1, <1>2, <1>3, <1>4, <1>5 DEF TenantStep

LEMMA TenantCallStep ==
    ASSUME OwnedInv, kind # "defaultsa", NEW x, UwsFit(x), uws.call.op = "update", UwsTenantCall(x)
    PROVE  CopiesStep(0, 0)
    <1>1. CASE UwsRetry
      BY <1>1, RetryStep
    <1>2. CASE /\ Accepts(tenant, uws.call) /\ tenant' = After(tenant, uws.call) /\ uws' = x
               /\ UNCHANGED <<kind, super, caches, related, queues, dws, patrol, events>>
      <2>1. uws.call.obj \in Copies
        BY DEF Copies
      <2>2. TenantStep(0)
        BY <1>2, <2>1, TenantUpdated
      <2>3. kind = "namespace" /\ ~related => tenant' = {}
        <3>1. Accepts(tenant, uws.call) => tenant # {}
          <4>1. Accepts(tenant, uws.call)
                    = \E o \in tenant : o.uid = uws.call.obj.uid /\ o.rv = uws.call.obj.rv
            BY Zenon DEF Accepts
          <4> QED BY <4>1
        <3> QED BY <1>2, <3>1 DEF OwnedInv, RelatedInv
      <2> QED BY <1>2, <2>2, <2>3 DEF CopiesStep, caches, Stored, RelatedInv
    <1> QED BY <1>1, <1>2 DEF UwsTenantCall

LEMMA UpdateAtFits ==
    ASSUME kind # "defaultsa", NEW pc \in {"tenant", "meta", "super"}, NEW o, Copy(o), NEW p, Copy(p)
    PROVE  UwsFit(At(pc, Update(o), p))
    BY AtFields, CallFields DEF UwsFit, Update

LEMMA UwsStep ==
    ASSUME OwnedInv, Uws
    PROVE  CopiesStep(0, 0)
    <1>0. Copy(uws.p) /\ Copy(uws.call.obj)
      BY StoredIsCopy DEF Stored
    <1> kind # "defaultsa"
      BY DEF Uws, UwsDone, UwsCall, ServiceUwsSuper, UwsMeta, UwsGet, UpwardCall,
             updateClusterNodeForget, UpdateNode, OwnedInv, DecidedInv
    <1>1. CASE UwsDone
      BY <1>1, IdleFits, TenantCallStep DEF UwsDone, OwnedInv, StagesInv
    <1>2. CASE ServiceUwsSuper
      <2>1. uws.pc = "super" /\ uws.call.op = "update"
        BY <1>2 DEF ServiceUwsSuper, OwnedInv, StagesInv
      <2>2. CASE UwsRetry
        BY <2>2, RetryStep
      <2>3. CASE /\ super' = After(super, uws.call) /\ uws' = Idle
                 /\ UNCHANGED <<kind, tenant, caches, related, queues, dws, patrol, events>>
        <3>1. PICK b : /\ Fields(b) /\ b.uid = uws.call.obj.uid /\ b.ref = uws.call.obj.ref
                       /\ super' = {o \in super : o.uid # uws.call.obj.uid} \cup {b}
          BY <1>0, <2>1, <2>3, UpdatedIs DEF Copy
        <3>2. Copy(b)
          BY <1>0, <3>1, ChangedCopy
        <3> QED BY <2>3, <3>1, <3>2, IdleFits DEF CopiesStep, caches, Stored
      <2> QED BY <1>2, <2>2, <2>3 DEF ServiceUwsSuper
    <1>3. CASE UwsMeta
      <2>1. UwsFit(At("get", Nothing, uws.p))
        BY <1>0, AtFields, CallFields, NoObjCopy DEF UwsFit, Nothing
      <2> QED BY <1>3, <2>1, IdleFits, TenantCallStep DEF UwsMeta, OwnedInv, StagesInv
    <1>4. CASE UwsGet
      <2>1. CASE UwsRetry
        BY <2>1, RetryStep
      <2>2. CASE /\ tenant # {}
                 /\ uws' = At("tenant", Update([The(tenant) EXCEPT !.status = uws.p.status]),
                              NoObj)
                 /\ UNCHANGED <<kind, objects, caches, related, queues, dws, patrol, events>>
        <3> DEFINE o == [The(tenant) EXCEPT !.status = uws.p.status]
        <3> HIDE DEF o
        <3>1. Copy(The(tenant))
          BY <2>2, TheOne, StoredIsCopy DEF Stored
        <3>2. Copy(o)
          <4>1. Fields(o) /\ o.uid = The(tenant).uid /\ o.ref = The(tenant).ref
            BY <3>1, ExceptStatus, Zenon DEF o, Copy
          <4> QED BY <3>1, <4>1, ChangedCopy
        <3>3. UwsFit(At("tenant", Update(o), NoObj))
          BY <3>2, NoObjCopy, UpdateAtFits
        <3>4. uws' = At("tenant", Update(o), NoObj)
          BY <2>2 DEF o
        <3> QED BY <2>2, <3>3, <3>4 DEF CopiesStep, objects, caches, Stored
      <2> QED BY <1>4, <2>1, <2>2 DEF UwsGet
    <1>5. ~UpwardCall
      BY DEF UpwardCall, updateClusterNodeForget, UpdateNode, OwnedInv, StagesInv
    <1> QED BY <1>1, <1>2, <1>3, <1>4, <1>5 DEF Uws, UwsCall

\* The tenant object with other labels, annotations or status.
LEMMA TenantChecksCopy ==
    ASSUME NEW v, Copy(v), NEW p
    PROVE  /\ Copy(CheckUWObjectMetaEquality(p, v)) /\ Copy(CheckUWPVCStatusEquality(p, v))
           /\ Copy([v EXCEPT !.status = p.status])
    <1>1. ASSUME NEW x
          PROVE  Copy([v EXCEPT !.meta = x]) /\ Copy([v EXCEPT !.status = x])
      <2>1. /\ Fields([v EXCEPT !.meta = x]) /\ [v EXCEPT !.meta = x].uid = v.uid
            /\ [v EXCEPT !.meta = x].ref = v.ref
        BY ExceptMeta, Zenon DEF Copy
      <2>2. /\ Fields([v EXCEPT !.status = x]) /\ [v EXCEPT !.status = x].uid = v.uid
            /\ [v EXCEPT !.status = x].ref = v.ref
        BY ExceptStatus, Zenon DEF Copy
      <2> QED BY <2>1, <2>2, ChangedCopy, Zenon
    <1> QED BY <1>1, Zenon DEF CheckUWObjectMetaEquality, CheckUWPVCStatusEquality

LEMMA BackPopulatesStep ==
    ASSUME OwnedInv, NEW x, UwsFit(x), BackPopulates(x), UNCHANGED <<tenantCache, loaded>>,
           \A o \in superCache' : o \in Stored \/ Copy(o)
    PROVE  CopiesStep(0, 0)
    BY DEF BackPopulates, CopiesStep, objects, Stored

LEMMA MetaThenStatusStep ==
    ASSUME OwnedInv, kind # "defaultsa", NEW p, Copy(p), NEW v \in tenantCache, MetaThenStatus(p, v),
           UNCHANGED caches
    PROVE  CopiesStep(0, 0)
    <1> DEFINE new == CheckUWObjectMetaEquality(p, v)
               old == [v EXCEPT !.status = p.status]
    <1>1. Copy(new) /\ Copy(old)
      BY TenantCacheCopy, TenantChecksCopy
    <1>2. /\ UwsFit(At("meta", Update(new), p)) /\ UwsFit(At("tenant", Update(old), NoObj))
          /\ UwsFit(Idle)
      BY <1>1, IdleFits, NoObjCopy, UpdateAtFits
    <1>3. PICK x : /\ BackPopulates(x)
                   /\ x \in {At("meta", Update(new), p), At("tenant", Update(old), NoObj), Idle}
      <2> DEFINE next == CASE new # v -> At("meta", Update(new), p)
                           [] new = v /\ p.status # v.status -> At("tenant", Update(old), NoObj)
                           [] OTHER -> Idle
      <2>1. BackPopulates(next)
        BY Zenon DEF MetaThenStatus
      <2> HIDE DEF new, old
      <2>2. next \in {At("meta", Update(new), p), At("tenant", Update(old), NoObj), Idle}
        OBVIOUS
      <2> HIDE DEF next
      <2> QED BY <2>1, <2>2
    <1> HIDE DEF new, old
    <1>4. UwsFit(x)
      BY <1>2, <1>3
    <1>5. UNCHANGED <<tenantCache, loaded>> /\ \A o \in superCache' : o \in Stored
      BY DEF caches, Stored
    <1> QED BY <1>3, <1>4, <1>5, BackPopulatesStep

LEMMA DoneStep ==
    ASSUME OwnedInv, BackPopulates(Idle), UNCHANGED caches
    PROVE  CopiesStep(0, 0)
    BY IdleFits, BackPopulatesStep DEF caches, Stored

LEMMA OwnerStep ==
    ASSUME OwnedInv, kind # "defaultsa", UNCHANGED caches, ~NoOwner(The(superCache)),
           MetaThenStatus(The(superCache), The(tenantCache))
    PROVE  CopiesStep(0, 0)
    <1>1. Copy(The(superCache))
      BY InSuperCache, SuperCacheCopy DEF NoOwner
    <1>2. The(tenantCache) \in tenantCache
      <2>1. The(superCache).ref # 0 /\ The(superCache).ref = The(tenantCache).uid
        BY DEF NoOwner, MetaThenStatus
      <2> QED BY <2>1, TheOne, NoObjFields
    <1> QED BY <1>1, <1>2, MetaThenStatusStep

LEMMA ServiceUwsStep ==
    ASSUME OwnedInv, ServiceBackPopulate
    PROVE  CopiesStep(0, 0)
    <1> DEFINE p == The(superCache)
               annotated == [p EXCEPT !.meta.clusterIP = 2]
    <1> kind # "defaultsa"
      BY DEF ServiceBackPopulate
    <1>1. CASE /\ Exists(p) /\ superCache' = {annotated} /\ UNCHANGED <<tenantCache, loaded>>
               /\ BackPopulates(At("super", Update(annotated), NoObj))
      <2>1. Copy(p)
        BY <1>1, InSuperCache, SuperCacheCopy
      <2> HIDE DEF annotated
      <2>2. Fields(annotated) /\ annotated.uid = p.uid /\ annotated.ref = p.ref
        BY <2>1, ExceptMeta, Zenon DEF Copy, annotated
      <2>3. Copy(annotated)
        BY <2>1, <2>2, ChangedCopy
      <2>4. UwsFit(At("super", Update(annotated), NoObj))
        BY <2>3, NoObjCopy, UpdateAtFits
      <2> QED BY <1>1, <2>3, <2>4, BackPopulatesStep
    <1>2. CASE UNCHANGED caches /\ BackPopulates(Idle)
      BY <1>2, DoneStep
    <1>3. CASE UNCHANGED caches /\ ~NoOwner(p) /\ MetaThenStatus(p, The(tenantCache))
      BY <1>3, OwnerStep
    <1>4. \/ /\ Exists(p) /\ superCache' = {annotated} /\ UNCHANGED <<tenantCache, loaded>>
             /\ BackPopulates(At("super", Update(annotated), NoObj))
          \/ UNCHANGED caches /\ BackPopulates(Idle)
          \/ UNCHANGED caches /\ ~NoOwner(p) /\ MetaThenStatus(p, The(tenantCache))
      BY Zenon DEF ServiceBackPopulate, caches
    <1> QED BY <1>1, <1>2, <1>3, <1>4

LEMMA IngressUwsStep ==
    ASSUME OwnedInv, IngressBackPopulate
    PROVE  CopiesStep(0, 0)
    BY DoneStep, OwnerStep DEF IngressBackPopulate

LEMMA PVCUwsStep ==
    ASSUME OwnedInv, PVCBackPopulate
    PROVE  CopiesStep(0, 0)
    <1> DEFINE p == The(superCache)
               v == The(tenantCache)
               new == CheckUWPVCStatusEquality(p, v)
    <1> kind # "defaultsa"
      BY DEF PVCBackPopulate
    <1>1. CASE BackPopulates(Idle) /\ UNCHANGED caches
      BY <1>1, DoneStep
    <1>2. CASE Exists(v) /\ BackPopulates(At("tenant", Update(new), NoObj)) /\ UNCHANGED caches
      <2>1. Copy(new)
        BY <1>2, InTenantCache, TenantCacheCopy, TenantChecksCopy
      <2> HIDE DEF new
      <2>2. UwsFit(At("tenant", Update(new), NoObj))
        BY <2>1, NoObjCopy, UpdateAtFits
      <2> QED BY <1>2, <2>2, BackPopulatesStep DEF caches, Stored
    <1> HIDE DEF new
    <1> QED BY <1>1, <1>2 DEF PVCBackPopulate, new

LEMMA BackPopulateStep ==
    ASSUME OwnedInv, BackPopulate
    PROVE  CopiesStep(0, 0)
    BY ServiceUwsStep, IngressUwsStep, PVCUwsStep DEF BackPopulate

-----------------------------------------------------------------------------
(* Users and controllers on both sides, informers, failures and restarts *)

\* A kind is the tenants' or the super cluster's.
LEMMA KindsApart == \A k \in DownwardKinds : k \notin UpwardKinds /\ k \notin ClassKinds
    BY DEF DownwardKinds, DownwardKinds, DifferKinds, UpwardKinds, ClassKinds

LEMMA EditsCopy ==
    ASSUME NEW o, Copy(o), NEW value, NEW q \in Edits(o, value)
    PROVE  Fields(q) /\ q.uid = o.uid /\ q.ref = o.ref
    <1>0. Fields(o)
      BY DEF Copy
    <1>1. q = [o EXCEPT !.spec = 1 - o.spec]
          \/ \E k \in WrittenKeys : q = [o EXCEPT !.meta[k] = IF o.meta[k] = value THEN 0 ELSE value]
      BY Zenon DEF Edits
    <1>2. CASE q = [o EXCEPT !.spec = 1 - o.spec]
      BY <1>0, <1>2, ExceptSpec, Zenon
    <1>3. ASSUME NEW k, q = [o EXCEPT !.meta[k] = IF o.meta[k] = value THEN 0 ELSE value]
          PROVE  Fields(q) /\ q.uid = o.uid /\ q.ref = o.ref
      BY <1>0, <1>3, ExceptMeta, Zenon
    <1> QED BY <1>1, <1>2, <1>3

LEMMA NewObjectsFields ==
    ASSUME NEW value, NEW o \in NewObjects(value)
    PROVE  Fields(o) /\ o.ref = 0
    <1>1. o = NoObj \/ \E k \in WrittenKeys : o = [NoObj EXCEPT !.meta[k] = value]
      BY Zenon DEF NewObjects
    <1>2. ASSUME NEW k, o = [NoObj EXCEPT !.meta[k] = value]
          PROVE  Fields(o) /\ o.ref = 0
      BY <1>2, NoObjFields, ExceptMeta, Zenon
    <1> QED BY <1>1, <1>2, NoObjFields

\* Somebody writes another version of an object.
LEMMA WrittenIs ==
    ASSUME NEW S, NEW o, Fields(o)
    PROVE  \E b : /\ Fields(b) /\ b.uid = o.uid /\ b.ref = o.ref
                  /\ Written(S, o) = {x \in S : x.uid # o.uid} \cup {b}
    <1>1. Update(o).op = "update" /\ Update(o).obj = o
      BY CallFields DEF Update
    <1> QED BY <1>1, UpdatedIs DEF Written

LEMMA CreateVStep ==
    ASSUME OwnedInv, CreateV
    PROVE  \E i, r : CopiesStep(i, r)
    <1>1. PICK o \in NewObjects(1) : UidLeft(Create(o)) /\ tenant' = After({}, Create(o))
      BY DEF CreateV
    <1>2. Fields(o) /\ o.ref = 0
      BY NewObjectsFields
    <1>3. Create(o).op = "create" /\ Create(o).obj = o
      BY CallFields DEF Create
    <1>4. \A x \in tenant' : Born(x, Fresh, 0)
      BY <1>1, <1>2, <1>3, CreatedIs
    <1>5. \A a, b \in tenant' : a = b
      <2>1. After({}, Create(o)) = {} \cup {[Create(o).obj EXCEPT !.uid = Fresh, !.rv = 1]}
        BY <1>3, Zenon DEF After
      <2> DEFINE new == [Create(o).obj EXCEPT !.uid = Fresh, !.rv = 1]
      <2> HIDE DEF new
      <2>2. tenant' = {} \cup {new}
        BY <1>1, <2>1, Zenon DEF new
      <2> QED BY <2>2
    <1>6. TenantStep(Fresh)
      BY <1>4, <1>5 DEF TenantStep, Born, Unused
    <1>7. /\ UNCHANGED <<kind, super, tenantCache, superCache, loaded, related, dws, uws, patrol>>
          /\ kind = "namespace" => related
      BY DEF CreateV, others, caches, workers
    <1>8. CopiesStep(Fresh, 0)
      BY <1>6, <1>7 DEF CopiesStep, RelatedInv, Stored
    <1> QED BY <1>8

LEMMA EditVStep ==
    ASSUME OwnedInv, EditV
    PROVE  CopiesStep(0, 0)
    <1>0. PICK v \in tenant : \E o \in Edits(v, 1) : tenant' = Written(tenant, o)
      BY DEF EditV
    <1>1. PICK o \in Edits(v, 1) : tenant' = Written(tenant, o)
      BY <1>0
    <1>2. Copy(v) /\ v.uid # 0 /\ v.ref = 0
      BY StoredIsCopy DEF Stored, OwnedInv, RealInv
    <1>3. Fields(o) /\ o.uid = v.uid /\ o.ref = v.ref
      BY <1>2, EditsCopy
    <1>4. PICK b : /\ Fields(b) /\ b.uid = o.uid /\ b.ref = o.ref
                   /\ tenant' = {x \in tenant : x.uid # o.uid} \cup {b}
      BY <1>1, <1>3, WrittenIs
    <1>5. TenantStep(0)
      <2>1. tenant' = {b}
        BY <1>3, <1>4 DEF OwnedInv, ShapeInv
      <2> QED BY <1>2, <1>3, <1>4, <2>1 DEF TenantStep
    <1>6. UNCHANGED <<kind, super, tenantCache, superCache, loaded, related, dws, uws, patrol>>
      BY DEF EditV, others, caches, workers
    <1>7. RelatedInv'
      BY <1>6 DEF RelatedInv, OwnedInv
    <1> QED BY <1>5, <1>6, <1>7 DEF CopiesStep, Stored

LEMMA EditPStep ==
    ASSUME OwnedInv, EditP
    PROVE  CopiesStep(0, 0)
    <1>1. PICK p \in super :
             \/ \E o \in Edits(p, 2) : super' = Written(super, o)
             \/ super' = Written(super, [p EXCEPT !.status = 1 - p.status])
      BY Zenon DEF EditP
    <1>2. Copy(p)
      BY StoredIsCopy DEF Stored
    <1>3. PICK o : Fields(o) /\ o.uid = p.uid /\ o.ref = p.ref /\ super' = Written(super, o)
      <2>1. CASE \E o \in Edits(p, 2) : super' = Written(super, o)
        BY <1>2, <2>1, EditsCopy
      <2>2. CASE super' = Written(super, [p EXCEPT !.status = 1 - p.status])
        <3> DEFINE o == [p EXCEPT !.status = 1 - p.status]
        <3> HIDE DEF o
        <3>1. Fields(o) /\ o.uid = p.uid /\ o.ref = p.ref
          BY <1>2, ExceptStatus, Zenon DEF Copy, o
        <3>2. super' = Written(super, o)
          BY <2>2, Zenon DEF o
        <3> QED BY <3>1, <3>2
      <2> QED BY <1>1, <2>1, <2>2, Zenon
    <1>4. PICK b : /\ Fields(b) /\ b.uid = o.uid /\ b.ref = o.ref
                   /\ super' = {x \in super : x.uid # o.uid} \cup {b}
      BY <1>3, WrittenIs
    <1>5. Copy(b)
      BY <1>2, <1>3, <1>4, ChangedCopy
    <1>6. UNCHANGED <<kind, tenant, tenantCache, superCache, loaded, related, dws, uws, patrol>>
      BY DEF EditP, others, caches, workers
    <1> QED BY <1>4, <1>5, <1>6 DEF CopiesStep, Stored

LEMMA OthersStep ==
    ASSUME OwnedInv, kind \in DownwardKinds, Others
    PROVE  \E i, r : CopiesStep(i, r)
    <1>1. CASE DeleteV
      <2>1. /\ UNCHANGED <<kind, super, tenantCache, superCache, loaded, related, dws, uws, patrol>>
            /\ tenant' = {}
        BY <1>1 DEF DeleteV, others, caches, workers
      <2>2. CopiesStep(0, 0)
        BY <2>1 DEF CopiesStep, TenantStep, RelatedInv, Stored
      <2> QED BY <2>2
    <1>2. CASE DeleteP
      <2>1. /\ UNCHANGED <<kind, tenant, tenantCache, superCache, loaded, related, dws, uws, patrol>>
            /\ super' \subseteq super
        BY <1>2 DEF DeleteP, others, caches, workers
      <2>2. CopiesStep(0, 0)
        BY <2>1 DEF CopiesStep, Stored
      <2> QED BY <2>2
    <1>3. ~CreateP /\ ~Heartbeat
      BY KindsApart DEF CreateP, Heartbeat, UpwardKinds
    <1>4. CASE RelatedChanges
      <2>1. /\ UNCHANGED <<kind, tenant, super, tenantCache, superCache, loaded, dws, uws, patrol>>
            /\ kind # "namespace"
        BY <1>4 DEF RelatedChanges, others, objects, caches, workers
      <2>2. CopiesStep(0, 0)
        BY <2>1 DEF CopiesStep, RelatedInv, Stored
      <2> QED BY <2>2
    <1>5. CASE DeleteVC
      <2>1. /\ UNCHANGED <<kind, super, tenantCache, superCache, loaded, dws, uws, patrol>>
            /\ tenant' = {}
        BY <1>5 DEF DeleteVC, others, caches, workers
      <2>2. CopiesStep(0, 0)
        BY <2>1 DEF CopiesStep, TenantStep, RelatedInv, Stored
      <2> QED BY <2>2
    <1>6. CASE DefaultP
      <2>1. NoObj.ref = 0 /\ Fields(NoObj) /\ Create(NoObj).op = "create"
            /\ Create(NoObj).obj = NoObj
        BY NoObjFields, CallFields DEF Create
      <2>2. \A o \in super' : Born(o, Fresh, 0)
        BY <1>6, <2>1, CreatedIs DEF DefaultP
      <2>3. UNCHANGED <<kind, tenant, tenantCache, superCache, loaded, related, dws, uws, patrol>>
        BY <1>6 DEF DefaultP, others, caches, workers
      <2>4. CopiesStep(Fresh, 0)
        BY <2>2, <2>3 DEF CopiesStep, Stored
      <2> QED BY <2>4
    <1> QED BY <1>1, <1>2, <1>3, <1>4, <1>5, <1>6, CreateVStep, EditVStep, EditPStep DEF Others

LEMMA InformersStep ==
    ASSUME SeeV \/ SeeP
    PROVE  CopiesStep(0, 0)
    BY DEF SeeV, SeeP, CopiesStep, objects, workers, Stored

\* A tenant is loaded or removed, and its requests are dropped.
LEMMA ClusterStep ==
    ASSUME AddCluster \/ VCFails \/ VCGone \/ \E u \in Uid : Drop(u)
    PROVE  CopiesStep(0, 0)
    BY DEF AddCluster, VCFails, VCGone, removeCluster, Drop, CopiesStep, objects, caches,
           workers, Stored

LEMMA RestartStep ==
    ASSUME OwnedInv, kind \in DownwardKinds, Restart
    PROVE  CopiesStep(0, 0)
    <1>1. kind # "node"
      BY KindsApart DEF UpwardKinds
    <1>2. RelatedInv'
      BY <1>1 DEF Restart, RelatedInv, OwnedInv, objects
    <1> QED BY <1>2, IdleFits DEF Restart, CopiesStep, objects, Stored

LEMMA FailuresStep ==
    ASSUME OwnedInv, Failures
    PROVE  CopiesStep(0, 0)
    <1>1. CASE \E w \in dws : DwsFails(w)
      BY <1>1 DEF DwsFails, CopiesStep, objects, caches, Stored
    <1>2. CASE UwsFails
      BY <1>2, RetryStep DEF UwsFails
    <1>3. ~UpdateNodeFails
      BY DEF UpdateNodeFails, OwnedInv, StagesInv
    <1>4. CASE PatrolFails
      BY <1>4, IdleFits DEF PatrolFails, CopiesStep, objects, caches, Stored
    <1>5. CASE GiveUp
      BY <1>5 DEF GiveUp, CopiesStep, objects, caches, workers, Stored
    <1> QED BY <1>1, <1>2, <1>3, <1>4, <1>5 DEF Failures

\* Every step of the kinds that tenants own.
LEMMA OwnedStep ==
    ASSUME OwnedInv, kind \in DownwardKinds, [Next]_vars
    PROVE  OwnedInv' /\ kind' = kind
    <1>1. CASE Next
      <2>1. ASSUME NEW u \in Uid, NodeReconcile(u)
            PROVE  FALSE
        BY <2>1, KindsApart DEF NodeReconcile, UpwardKinds
      <2>2. ASSUME NEW u \in Uid, Dws(u)
            PROVE  \E i, r : CopiesStep(i, r)
        BY <2>2, DwsCallStep, NodeMapStep DEF Dws
      <2>3. ~UpwardBackPopulate /\ ~UpwardPatrollerDo
        BY KindsApart
           DEF UpwardBackPopulate, PVBackPopulate, StorageClassBackPopulate,
               PriorityClassBackPopulate, CRDBackPopulate, EventBackPopulate, NodeBackPopulate,
               UpwardPatrollerDo, ListPVs, PVPatrollerDo, checkStorageClassOfTenantCluster,
               StorageClassPatrollerDo, checkPriorityClassOfTenantCluster,
               PriorityClassPatrollerDo, checkCRDOfTenantCluster, CRDPatrollerDo, UpwardKinds,
               ClassKinds
      <2>4. \E i, r : CopiesStep(i, r)
        BY <1>1, <2>1, <2>2, <2>3, OthersStep, InformersStep, ClusterStep, ReconcileStep, BackPopulateStep,
           UwsStep, PatrollerStep, PatrolDeletesStep, FailuresStep, RestartStep
           DEF Next, Patrols
      <2>5. PICK i, r : CopiesStep(i, r)
        BY <2>4
      <2>6. OwnedInv'
        BY <2>5, StepKeeps
      <2> QED BY <2>5, <2>6 DEF CopiesStep
    <1>2. CASE UNCHANGED vars
      <2>1. CopiesStep(0, 0)
        BY <1>2 DEF vars, objects, caches, queues, workers, CopiesStep, Stored
      <2> QED BY <2>1, StepKeeps DEF CopiesStep
    <1> QED BY <1>1, <1>2

-----------------------------------------------------------------------------
(* The other kinds *)

\* No action changes the kind, and the patrols of the super cluster's kinds make no call
\* there.
LEMMA KindKept ==
    ASSUME [Next]_vars
    PROVE  kind' = kind
    <1>1. CASE Others
      BY <1>1 DEF Others, CreateV, EditV, DeleteV, CreateP, DefaultP, EditP, DeleteP, Heartbeat,
                  RelatedChanges, DeleteVC, others
    <1>2. CASE SeeV \/ SeeP \/ AddCluster \/ VCFails \/ VCGone \/ Restart
      BY <1>2 DEF SeeV, SeeP, AddCluster, VCFails, VCGone, removeCluster, Restart
    <1>3. ASSUME NEW u, NEW c, Decide(u, c)
          PROVE  kind' = kind
      BY <1>3 DEF Decide
    <1>4. ASSUME NEW u, Reconcile(u) \/ NodeReconcile(u) \/ Drop(u)
          PROVE  kind' = kind
      BY <1>3, <1>4
         DEF Reconcile, NodeReconcile, Drop, ConfigMapReconcile, SecretReconcile, ServiceReconcile,
             EndpointsReconcile, ServiceAccountReconcile, PVCReconcile, NamespaceReconcile,
             IngressReconcile
    <1>5. ASSUME NEW u, Dws(u)
          PROVE  kind' = kind
      BY <1>5 DEF Dws, DwsCall, NodeReconcileMap
    <1>6. ASSUME NEW x, BackPopulates(x)
          PROVE  kind' = kind
      BY <1>6 DEF BackPopulates
    <1>7. CASE BackPopulate \/ UpwardBackPopulate
      BY <1>6, <1>7, Zenon
         DEF BackPopulate, ServiceBackPopulate, IngressBackPopulate, PVCBackPopulate,
             MetaThenStatus, UpwardBackPopulate, PVBackPopulate, StorageClassBackPopulate,
             PriorityClassBackPopulate, CRDBackPopulate, EventBackPopulate, NodeBackPopulate
    <1>8. CASE Uws
      BY <1>8, Zenon
         DEF Uws, UwsDone, UwsCall, UpwardCall, UwsTenantCall, UwsRetry, ServiceUwsSuper, UwsMeta,
             UwsGet, updateClusterNodeForget, UpdateNode
    <1>9. ASSUME NEW x, PatrolAt(x)
          PROVE  kind' = kind
      BY <1>9 DEF PatrolAt
    <1>10. ASSUME NEW x, NEW v, Finds(x) \/ RequeueObject(v, x) \/ AddToQueue(x)
           PROVE  kind' = kind
      BY <1>9, <1>10 DEF Finds, RequeueObject, AddToQueue
    <1>11. CASE PatrollerDo
      BY <1>9, <1>10, <1>11
         DEF PatrollerDo, ListP, ConfigMapPatrollerDo, ServicePatrollerDo, EndpointsPatrollerDo,
             ServiceAccountPatrollerDo, PVCPatrollerDo, NamespacePatrollerDo,
             checkSecretOfTenantCluster, checkServiceAccountTokenTypeSecretOfTenantCluster,
             SecretPatrollerDo, checkIngressesOfTenantCluster, IngressPatrollerDo, SuperObjects,
             Difference, Requeue, PatrolDelete, ConfigMapUpdateFunc, ServiceUpdateFunc,
             EndpointsUpdateFunc, EndpointsDeleteFunc, ServiceAccountUpdateFunc, PVCUpdateFunc,
             NamespaceUpdateFunc, NamespaceDeleteFunc, deleteNamespace
    <1>12. CASE UpwardPatrollerDo
      BY <1>10, <1>12
         DEF UpwardPatrollerDo, ListPVs, PVPatrollerDo, PVDelete, CheckClass,
             checkStorageClassOfTenantCluster, StorageClassPatrollerDo,
             checkPriorityClassOfTenantCluster, PriorityClassPatrollerDo,
             checkCRDOfTenantCluster, CRDPatrollerDo, PublicObjects
    <1>13. CASE PatrolDeletes
      BY <1>13 DEF PatrolDeletes, PatrolCall
    <1>14. CASE Failures
      BY <1>14 DEF Failures, DwsFails, UwsFails, UwsRetry, UpdateNodeFails, PatrolFails, GiveUp
    <1>15. CASE UNCHANGED vars
      BY <1>15 DEF vars
    <1> QED BY <1>1, <1>2, <1>4, <1>5, <1>7, <1>8, <1>11, <1>12, <1>13, <1>14, <1>15
        DEF Next, Patrols

LEMMA UpwardStep ==
    ASSUME kind \in UpwardKinds, patrol.pc # "super", [Next]_vars
    PROVE  patrol'.pc # "super"
    <1>1. kind \notin DownwardKinds
      BY DEF DownwardKinds, DifferKinds, UpwardKinds, ClassKinds
    <1>2. CASE UNCHANGED patrol
      BY <1>2
    <1>3. ASSUME NEW x, NEW v, Finds(x) \/ RequeueObject(v, x) \/ AddToQueue(x)
          PROVE  patrol' = x
      BY <1>3 DEF Finds, RequeueObject, AddToQueue, PatrolAt
    <1>4. /\ Idle.pc # "super" /\ ClassChecked.pc # "super"
          /\ Listing.pc # "super" /\ \A c, o : At("tenant", c, o).pc # "super"
      BY AtFields DEF Idle, ClassChecked, Listing
    <1>5. CASE UpwardPatrollerDo
      BY <1>3, <1>4, <1>5
         DEF UpwardPatrollerDo, ListPVs, PVPatrollerDo, PVDelete, CheckClass,
             checkStorageClassOfTenantCluster, StorageClassPatrollerDo,
             checkPriorityClassOfTenantCluster, PriorityClassPatrollerDo,
             checkCRDOfTenantCluster, CRDPatrollerDo, PublicObjects
    <1>6. ~PatrollerDo
      BY <1>1
         DEF PatrollerDo, ListP, ConfigMapPatrollerDo, ServicePatrollerDo, EndpointsPatrollerDo,
             ServiceAccountPatrollerDo, PVCPatrollerDo, NamespacePatrollerDo,
             checkSecretOfTenantCluster, SecretPatrollerDo, checkIngressesOfTenantCluster,
             IngressPatrollerDo, DownwardKinds, DifferKinds
    <1>7. CASE PatrolDeletes
      BY <1>4, <1>7 DEF PatrolDeletes, PatrolCall
    <1>8. CASE Restart \/ PatrolFails
      BY <1>4, <1>8 DEF Restart, PatrolFails
    <1>9. CASE Others \/ SeeV \/ SeeP \/ AddCluster \/ VCFails \/ VCGone
      BY <1>2, <1>9
         DEF Others, CreateV, EditV, DeleteV, CreateP, DefaultP, EditP, DeleteP, Heartbeat,
             RelatedChanges, DeleteVC, others, workers, SeeV, SeeP, AddCluster, VCFails, VCGone,
             removeCluster
    <1>10. ASSUME NEW u, NEW c, Decide(u, c)
           PROVE  patrol' = patrol
      BY <1>10 DEF Decide
    <1>11. ASSUME NEW u, Reconcile(u) \/ NodeReconcile(u) \/ Drop(u)
           PROVE  patrol' = patrol
      BY <1>10, <1>11
         DEF Reconcile, NodeReconcile, Drop, workers, ConfigMapReconcile, SecretReconcile, ServiceReconcile,
             EndpointsReconcile, ServiceAccountReconcile, PVCReconcile, NamespaceReconcile,
             IngressReconcile
    <1>12. ASSUME NEW u, Dws(u)
           PROVE  patrol' = patrol
      BY <1>12 DEF Dws, DwsCall, NodeReconcileMap
    <1>13. ASSUME NEW x, BackPopulates(x)
           PROVE  patrol' = patrol
      BY <1>13 DEF BackPopulates
    <1>14. BackPopulate \/ UpwardBackPopulate => patrol' = patrol
      BY <1>13, Zenon
         DEF BackPopulate, ServiceBackPopulate, IngressBackPopulate, PVCBackPopulate,
             MetaThenStatus, UpwardBackPopulate, PVBackPopulate, StorageClassBackPopulate,
             PriorityClassBackPopulate, CRDBackPopulate, EventBackPopulate, NodeBackPopulate
    <1>15. Uws => patrol' = patrol
      BY Zenon
         DEF Uws, UwsDone, UwsCall, UpwardCall, UwsTenantCall, UwsRetry, ServiceUwsSuper, UwsMeta,
             UwsGet, updateClusterNodeForget, UpdateNode
    <1>16. Failures => patrol' = patrol \/ PatrolFails
      BY DEF Failures, DwsFails, UwsFails, UwsRetry, UpdateNodeFails, GiveUp, workers
    <1>17. CASE UNCHANGED vars
      BY <1>2, <1>17 DEF vars, workers
    <1> QED BY <1>2, <1>5, <1>6, <1>7, <1>8, <1>9, <1>11, <1>12, <1>14, <1>15, <1>16, <1>17
        DEF Next, Patrols

-----------------------------------------------------------------------------
(* The theorems *)

LEMMA InitDeletion == Init => DeletionInv
    <1> SUFFICES ASSUME Init
                 PROVE  DeletionInv
      OBVIOUS
    <1>1. kind \in UpwardKinds \cup DownwardKinds
      BY KindsAssumption DEF Init
    <1>2. /\ tenant = {} /\ super = {} /\ tenantCache = {} /\ superCache = {} /\ dws = {}
          /\ uws = Idle /\ patrol = Idle
      BY DEF Init
    <1>3. /\ Idle.pc = "idle" /\ Idle.p = NoObj /\ Idle.call.obj = NoObj
      BY CallFields DEF Idle, Nothing
    <1>4. Copies = {NoObj} /\ Stored = {NoObj}
      BY <1>2, <1>3 DEF Copies, Stored
    <1>5. ShapeInv /\ StagesInv /\ RelatedInv /\ DecidedInv
      BY <1>2, <1>3, <1>4, NoObjFields DEF ShapeInv, StagesInv, RelatedInv, DecidedInv
    <1>6. RealInv /\ KnownInv /\ IdsInv
      BY <1>2, <1>4, NoObjFields DEF RealInv, KnownInv, IdsInv, Seen
    <1> QED BY <1>1, <1>2, <1>3, <1>5, <1>6 DEF DeletionInv, OwnedInv

LEMMA StepDeletion == DeletionInv /\ [Next]_vars => DeletionInv'
    BY KindKept, OwnedStep, UpwardStep DEF DeletionInv

\* The inductive invariant: super objects belong to tenant objects that the informer has
\* seen, UIDs identify them in all copies, and what is about to be deleted by its UID has
\* lost its tenant object.
THEOREM CopiesAgree == Spec => []DeletionInv
    BY InitDeletion, StepDeletion, PTL DEF Spec

\* A deletion with a UID takes only the super object of that UID.
LEMMA DeletionHarmless ==
    ASSUME OwnedInv, NEW c, c.op = "delete", Doomed(c.uid),
           super' = After(super, c) \/ super' = super,
           NEW p \in super, Deleted(p)
    PROVE  \A v \in tenant : v.uid # p.ref
    <1>1. super' = {o \in super : c.uid \notin {0, o.uid}} \/ super' = super
      BY DeletedIs
    <1>2. p.uid = c.uid
      BY <1>1 DEF Deleted, Doomed
    <1> QED BY <1>2 DEF Doomed, Copies, Gone

LEMMA WorkerHarmless ==
    ASSUME OwnedInv, kind \in UidKinds, NEW w \in dws, DwsCall(w), NEW p \in super, Deleted(p)
    PROVE  \A v \in tenant : v.uid # p.ref
    <1>1. super' = After(super, w.call) \/ super' = super
      BY DEF DwsCall
    <1>2. CASE w.call.op = "delete"
      BY <1>1, <1>2, DeletionHarmless DEF OwnedInv, DecidedInv
    <1>3. CASE w.call.op = "collect"
      <2>1. super' = {o \in super : o.ref # w.call.uid} \/ super' = super
        BY <1>1, <1>3, DeletedIs
      <2>2. p.ref = w.call.uid
        BY <2>1 DEF Deleted
      <2> QED BY <1>3, <2>2 DEF OwnedInv, DecidedInv, Gone
    <1>4. CASE w.call.op = "update"
      <2>1. Fields(w.call.obj)
        BY DEF OwnedInv, ShapeInv, Copies
      <2>2. PICK b : /\ b.uid = w.call.obj.uid
                     /\ After(super, w.call) = {o \in super : o.uid # w.call.obj.uid} \cup {b}
        BY <1>4, <2>1, UpdatedIs
      <2> QED BY <1>1, <2>2 DEF Deleted
    <1>5. CASE Creates(w.call)
      <2>1. super \subseteq After(super, w.call)
        <3>1. CASE w.call.op = "create"
          BY <3>1, Zenon DEF After
        <3>2. CASE w.call.op = "ensure"
          BY <3>2, Zenon DEF After
        <3> QED BY <1>5, <3>1, <3>2 DEF Creates
      <2> QED BY <1>1, <2>1 DEF Deleted
    <1> QED BY <1>2, <1>3, <1>4, <1>5 DEF OwnedInv, StagesInv, Creates

\* What the patrol has condemned had lost its tenant object, and so has what it deletes,
\* but for a default account that was marked for another one in between.
LEMMA PatrolHarmless ==
    ASSUME DeletionInv, PatrolDeletes, NEW p \in super, Deleted(p)
    PROVE  NoneHas(p.ref) \/ Remarked(p)
    <1>1. CASE patrol.pc = "super"
      <2>1. OwnedInv
        BY <1>1 DEF DeletionInv
      <2>2. super' = After(super, patrol.call) \/ super' = super
        BY <1>1 DEF PatrolDeletes, PatrolCall
      <2>3. patrol.call.op = "delete" /\ Condemned(patrol)
        BY <1>1, <2>1 DEF OwnedInv, StagesInv, DecidedInv
      <2>4. CASE kind # "defaultsa"
        BY <2>1, <2>2, <2>3, <2>4, DeletionHarmless DEF Condemned, NoneHas
      <2>5. CASE kind = "defaultsa"
        BY <2>3, <2>5 DEF Condemned, Gone, NoneHas, Remarked
      <2> QED BY <2>4, <2>5
    <1>2. CASE patrol.pc # "super"
      BY <1>2 DEF PatrolDeletes, PatrolCall, Deleted
    <1> QED BY <1>1, <1>2

\* The syncer never deletes the super object of a tenant object that is there: neither
\* the patrols, nor the workers that delete with the UID as a precondition or by the label
\* with the UID, although both decide from copies of lagging caches and act later, and
\* tenants are removed and loaded again.  The exception is a default service account that
\* is marked for a new owner while the patrol is about to delete it for its former one.
THEOREM LiveObjectsStay == Spec => NeverDeletesLive
    <1> DEFINE Harmless ==
            \A p \in super :
                /\ Deleted(p)
                /\ PatrolDeletes \/ (kind \in UidKinds /\ \E w \in dws : DwsCall(w))
                => NoneHas(p.ref) \/ Remarked(p)
    <1>1. DeletionInv /\ [Next]_vars => [Harmless]_vars
      <2> SUFFICES ASSUME DeletionInv, NEW p \in super, Deleted(p),
                          PatrolDeletes \/ (kind \in UidKinds /\ \E w \in dws : DwsCall(w))
                   PROVE  NoneHas(p.ref) \/ Remarked(p)
        OBVIOUS
      <2>1. kind \in UidKinds => OwnedInv
        BY DEF DeletionInv, DownwardKinds, DifferKinds, UidKinds
      <2> QED BY <2>1, WorkerHarmless, PatrolHarmless DEF NoneHas
    <1>2. Spec => []DeletionInv
      BY CopiesAgree
    <1> QED BY <1>1, <1>2, PTL DEF Spec, NeverDeletesLive

-----------------------------------------------------------------------------
(* Second part: labels and annotations of the super cluster *)

\* An object with its version, labels and annotations.
Proper(o) == Fields(o) /\ o.rv \in Nat /\ DOMAIN o.meta = Keys

ProperInv == \A o \in Copies : Proper(o)

\* The objects of the two servers have UIDs of their own.
ServerInv ==
    /\ \A o \in tenant \cup super : o.uid # 0
    /\ \A v \in tenant, p \in super : v.uid # p.uid
    /\ \A a, b \in tenant : a.uid = b.uid => a = b
    /\ \A a, b \in super : a.uid = b.uid => a = b

\* UID and version tell what the protected keys are, in any copy.
SameKeys(a, b) == \A k \in ProtectedKeys : a.meta[k] = b.meta[k]
VersionInv ==
    \A a, b \in Copies : a.uid = b.uid /\ a.uid # 0 /\ a.rv = b.rv => SameKeys(a, b)

\* No copy is newer than what the server has.
AgeInv ==
    \A o \in tenant \cup super, c \in Copies : c.uid = o.uid => c.rv <= o.rv

\* New objects do not have the protected keys.
Clean(o) == \A k \in ProtectedKeys : o.meta[k] = 0
CleanInv == \A w \in dws : Creates(w.call) => Clean(w.call.obj)

KeysInv ==
    /\ ProperInv /\ StagesInv /\ ServerInv /\ VersionInv /\ AgeInv /\ CleanInv

\* A copy of one that there is, with the protected keys of that, or an object to be
\* created.
Faithful(o) ==
    /\ Proper(o)
    /\ o.uid = 0 \/ \E s \in Copies : s.uid = o.uid /\ s.rv = o.rv /\ SameKeys(o, s)

\* What workers and patrol may take on.
DwsKeeps(w) ==
    /\ w.call.op \in {"create", "ensure", "update", "delete", "collect"}
    /\ Faithful(w.call.obj) /\ (Creates(w.call) => Clean(w.call.obj))
UwsKeeps(x) ==
    /\ x.pc \in {"idle", "tenant", "meta", "get", "super"}
    /\ x.pc \in {"tenant", "meta", "super"} => x.call.op = "update"
    /\ Faithful(x.p) /\ Faithful(x.call.obj)
PatrolKeeps(x) ==
    /\ x.pc \in {"idle", "listed", "unlisted", "checked", "super"}
    /\ x.pc = "super" => x.call.op = "delete"
    /\ Faithful(x.p) /\ Faithful(x.call.obj)

\* One object n may be created, or get a new version.
NewVersion(n) ==
    /\ Proper(n) /\ n.uid # 0
    /\ ~InUse(n.uid) \/ \E x \in tenant \cup super : x.uid = n.uid /\ n.rv = x.rv + 1
VersionStep(n) ==
    /\ kind' = kind
    /\ tenant' \subseteq tenant \cup {n} /\ super' \subseteq super \cup {n}
    /\ n \in tenant' => n \notin super'
    /\ n \in tenant' \cup super' =>
         NewVersion(n) /\ \A o \in tenant' \cup super' : o.uid = n.uid => o = n
    /\ \A o \in tenantCache' \cup superCache' : o \in Copies \/ Faithful(o)
    /\ \A w \in dws' : w \in dws \/ DwsKeeps(w)
    /\ uws' = uws \/ UwsKeeps(uws')
    /\ patrol' = patrol \/ PatrolKeeps(patrol')

-----------------------------------------------------------------------------
(* A step of that form keeps the invariant *)

LEMMA CopyIsFaithful ==
    ASSUME KeysInv, NEW o \in Copies
    PROVE  Faithful(o)
    BY DEF Faithful, KeysInv, ProperInv, SameKeys

LEMMA VersionsAfter ==
    ASSUME KeysInv, NEW n, VersionStep(n), NEW o \in Copies'
    PROVE  Faithful(o) \/ (o = n /\ n \in tenant' \cup super')
    <1>1. tenant \cup super \subseteq Copies
      BY DEF Copies
    <1>2. ASSUME NEW x \in tenant' \cup super'
          PROVE  Faithful(x) \/ (x = n /\ n \in tenant' \cup super')
      BY <1>1, <1>2, CopyIsFaithful DEF VersionStep
    <1>3. ASSUME NEW x \in tenantCache' \cup superCache'
          PROVE  Faithful(x)
      BY <1>3, CopyIsFaithful DEF VersionStep
    <1>4. ASSUME NEW x \in {uws'.p, uws'.call.obj, patrol'.p, patrol'.call.obj}
          PROVE  Faithful(x)
      <2>1. {uws.p, uws.call.obj, patrol.p, patrol.call.obj} \subseteq Copies
        BY DEF Copies
      <2> QED BY <1>4, <2>1, CopyIsFaithful DEF VersionStep, UwsKeeps, PatrolKeeps
    <1>5. ASSUME NEW w \in dws'
          PROVE  Faithful(w.call.obj)
      <2>1. w \in dws => w.call.obj \in Copies
        BY DEF Copies
      <2> QED BY <1>5, <2>1, CopyIsFaithful DEF VersionStep, DwsKeeps
    <1> QED BY <1>2, <1>3, <1>4, <1>5 DEF Copies

LEMMA NewerThanCopies ==
    ASSUME KeysInv, NEW n, NewVersion(n), NEW s \in Copies, s.uid = n.uid
    PROVE  s.rv < n.rv
    <1>1. InUse(n.uid)
      BY CopiesUsed
    <1>2. PICK x \in tenant \cup super : x.uid = n.uid /\ n.rv = x.rv + 1
      BY <1>1 DEF NewVersion
    <1>3. s.rv <= x.rv /\ x \in Copies
      BY <1>2 DEF KeysInv, AgeInv, Copies
    <1>4. s.rv \in Nat /\ x.rv \in Nat
      BY <1>3 DEF KeysInv, ProperInv, Proper
    <1> QED BY <1>2, <1>3, <1>4

LEMMA VersionStepKeeps ==
    ASSUME KeysInv, NEW n, VersionStep(n)
    PROVE  KeysInv'
    <1>0. n \in tenant' \cup super' => NewVersion(n)
      BY DEF VersionStep
    <1>1. ASSUME NEW o \in Copies'
          PROVE  Proper(o)
      BY <1>0, <1>1, VersionsAfter DEF Faithful, NewVersion
    <1>2. ProperInv'
      BY <1>1 DEF ProperInv, Proper, Fields
    <1>3. StagesInv'
      <2>1. \A w \in dws' : w.call.op \in {"create", "ensure", "update", "delete", "collect"}
        BY DEF VersionStep, DwsKeeps, KeysInv, StagesInv
      <2>2. /\ uws'.pc \in {"idle", "tenant", "meta", "get", "super"}
            /\ uws'.pc \in {"tenant", "meta", "super"} => uws'.call.op = "update"
        BY DEF VersionStep, UwsKeeps, KeysInv, StagesInv
      <2>3. /\ patrol'.pc \in {"idle", "listed", "unlisted", "checked", "super"}
            /\ patrol'.pc = "super" => patrol'.call.op = "delete"
        BY DEF VersionStep, PatrolKeeps, KeysInv, StagesInv
      <2> QED BY <2>1, <2>2, <2>3 DEF StagesInv
    <1>4. ServerInv'
      <2>1. \A o \in tenant' \cup super' : o.uid # 0
        BY <1>0 DEF VersionStep, NewVersion, KeysInv, ServerInv
      <2>2. \A v \in tenant', p \in super' : v.uid # p.uid
        BY DEF VersionStep, KeysInv, ServerInv
      <2>3. \A a, b \in tenant' : a.uid = b.uid => a = b
        BY DEF VersionStep, KeysInv, ServerInv
      <2>4. \A a, b \in super' : a.uid = b.uid => a = b
        BY DEF VersionStep, KeysInv, ServerInv
      <2> QED BY <2>1, <2>2, <2>3, <2>4 DEF ServerInv
    <1>5. ProtectedKeys' = ProtectedKeys
      BY DEF VersionStep, ProtectedKeys
    <1>6. ASSUME NEW a \in Copies', NEW b \in Copies', a.uid = b.uid, a.uid # 0, a.rv = b.rv
          PROVE  SameKeys(a, b)
      <2>1. CASE Faithful(a) /\ Faithful(b)
        <3>1. PICK s \in Copies : s.uid = a.uid /\ s.rv = a.rv /\ SameKeys(a, s)
          BY <1>6, <2>1 DEF Faithful
        <3>2. PICK t \in Copies : t.uid = b.uid /\ t.rv = b.rv /\ SameKeys(b, t)
          BY <1>6, <2>1 DEF Faithful
        <3>3. SameKeys(s, t)
          BY <1>6, <3>1, <3>2 DEF KeysInv, VersionInv
        <3> QED BY <3>1, <3>2, <3>3 DEF SameKeys
      <2>2. ASSUME NEW c, Faithful(c), c.uid = n.uid, c.uid # 0, c.rv = n.rv, NewVersion(n)
            PROVE  FALSE
        <3>1. PICK s \in Copies : s.uid = c.uid /\ s.rv = c.rv
          BY <2>2 DEF Faithful
        <3>2. s.rv < n.rv /\ n.rv \in Nat
          BY <2>2, <3>1, NewerThanCopies DEF NewVersion, Proper
        <3> QED BY <2>2, <3>1, <3>2
      <2>3. CASE a = n /\ b = n
        BY <2>3 DEF SameKeys
      <2>4. /\ Faithful(a) \/ (a = n /\ NewVersion(n))
            /\ Faithful(b) \/ (b = n /\ NewVersion(n))
        BY <1>0, VersionsAfter
      <2> QED BY <1>6, <2>1, <2>2, <2>3, <2>4
    <1>7. VersionInv'
      BY <1>5, <1>6 DEF VersionInv, SameKeys
    <1>8. ASSUME NEW o \in tenant' \cup super', NEW c \in Copies', c.uid = o.uid
          PROVE  c.rv <= o.rv
      <2>0. o.uid # 0 /\ o.rv \in Nat /\ c.rv \in Nat /\ o \in Copies'
        <3>1. o \in Copies'
          BY DEF Copies
        <3> QED BY <3>1, <1>1, <1>4 DEF ServerInv, Proper
      <2>1. CASE o = n
        <3>1. CASE c = n
          BY <2>0, <2>1, <3>1
        <3>2. CASE Faithful(c)
          <4>1. PICK s \in Copies : s.uid = c.uid /\ s.rv = c.rv
            BY <1>8, <2>0, <3>2 DEF Faithful
          <4>2. s.rv < n.rv
            BY <1>0, <1>8, <2>1, <4>1, NewerThanCopies
          <4> QED BY <2>0, <2>1, <4>1, <4>2
        <3> QED BY <3>1, <3>2, VersionsAfter
      <2>2. CASE o # n
        <3>1. o \in tenant \cup super
          BY <2>2 DEF VersionStep
        <3>2. Faithful(c)
          BY <1>8, <2>2, VersionsAfter DEF VersionStep
        <3>3. PICK s \in Copies : s.uid = c.uid /\ s.rv = c.rv
          BY <1>8, <2>0, <3>2 DEF Faithful
        <3> QED BY <1>8, <3>1, <3>3 DEF KeysInv, AgeInv
      <2> QED BY <2>1, <2>2
    <1>9. AgeInv'
      BY <1>8 DEF AgeInv
    <1>10. CleanInv'
      BY <1>5 DEF CleanInv, VersionStep, DwsKeeps, KeysInv, Clean
    <1> QED BY <1>2, <1>3, <1>4, <1>7, <1>9, <1>10 DEF KeysInv

-----------------------------------------------------------------------------
(* Objects with another value of a field *)

LEMMA ProperSpec ==
    ASSUME NEW q, Proper(q), NEW x
    PROVE  /\ Proper([q EXCEPT !.spec = x])
           /\ [q EXCEPT !.spec = x].uid = q.uid /\ [q EXCEPT !.spec = x].rv = q.rv
           /\ [q EXCEPT !.spec = x].meta = q.meta
    <1> DEFINE r == [q EXCEPT !.spec = x]
    <1>1. r.uid = q.uid
      BY Zenon DEF Proper, Fields
    <1>2. r.rv = q.rv
      BY Zenon DEF Proper, Fields
    <1>3. r.meta = q.meta
      BY Zenon DEF Proper, Fields
    <1>4. Fields(r)
      BY Zenon DEF Proper, Fields
    <1> HIDE DEF r
    <1>5. Proper(r)
      BY <1>2, <1>3, <1>4 DEF Proper
    <1> QED BY <1>1, <1>2, <1>3, <1>5 DEF r

LEMMA ProperStatus ==
    ASSUME NEW q, Proper(q), NEW x
    PROVE  /\ Proper([q EXCEPT !.status = x])
           /\ [q EXCEPT !.status = x].uid = q.uid /\ [q EXCEPT !.status = x].rv = q.rv
           /\ [q EXCEPT !.status = x].meta = q.meta
    <1> DEFINE r == [q EXCEPT !.status = x]
    <1>1. r.uid = q.uid
      BY Zenon DEF Proper, Fields
    <1>2. r.rv = q.rv
      BY Zenon DEF Proper, Fields
    <1>3. r.meta = q.meta
      BY Zenon DEF Proper, Fields
    <1>4. Fields(r)
      BY Zenon DEF Proper, Fields
    <1> HIDE DEF r
    <1>5. Proper(r)
      BY <1>2, <1>3, <1>4 DEF Proper
    <1> QED BY <1>1, <1>2, <1>3, <1>5 DEF r

LEMMA ProperRef ==
    ASSUME NEW q, Proper(q), NEW x
    PROVE  /\ Proper([q EXCEPT !.ref = x])
           /\ [q EXCEPT !.ref = x].uid = q.uid /\ [q EXCEPT !.ref = x].rv = q.rv
           /\ [q EXCEPT !.ref = x].meta = q.meta
    <1> DEFINE r == [q EXCEPT !.ref = x]
    <1>1. r.uid = q.uid
      BY Zenon DEF Proper, Fields
    <1>2. r.rv = q.rv
      BY Zenon DEF Proper, Fields
    <1>3. r.meta = q.meta
      BY Zenon DEF Proper, Fields
    <1>4. Fields(r)
      BY Zenon DEF Proper, Fields
    <1> HIDE DEF r
    <1>5. Proper(r)
      BY <1>2, <1>3, <1>4 DEF Proper
    <1> QED BY <1>1, <1>2, <1>3, <1>5 DEF r

LEMMA ProperUid ==
    ASSUME NEW q, Proper(q), NEW x
    PROVE  /\ Proper([q EXCEPT !.uid = x])
           /\ [q EXCEPT !.uid = x].uid = x /\ [q EXCEPT !.uid = x].rv = q.rv
           /\ [q EXCEPT !.uid = x].meta = q.meta
    <1> DEFINE r == [q EXCEPT !.uid = x]
    <1>1. r.uid = x
      BY Zenon DEF Proper, Fields
    <1>2. r.rv = q.rv
      BY Zenon DEF Proper, Fields
    <1>3. r.meta = q.meta
      BY Zenon DEF Proper, Fields
    <1>4. Fields(r)
      BY Zenon DEF Proper, Fields
    <1> HIDE DEF r
    <1>5. Proper(r)
      BY <1>2, <1>3, <1>4 DEF Proper
    <1> QED BY <1>1, <1>2, <1>3, <1>5 DEF r

LEMMA ProperRv ==
    ASSUME NEW q, Proper(q), NEW x, x \in Nat
    PROVE  /\ Proper([q EXCEPT !.rv = x])
           /\ [q EXCEPT !.rv = x].uid = q.uid /\ [q EXCEPT !.rv = x].rv = x
           /\ [q EXCEPT !.rv = x].meta = q.meta
    <1> DEFINE r == [q EXCEPT !.rv = x]
    <1>1. r.uid = q.uid
      BY Zenon DEF Proper, Fields
    <1>2. r.rv = x
      BY Zenon DEF Proper, Fields
    <1>3. r.meta = q.meta
      BY Zenon DEF Proper, Fields
    <1>4. Fields(r)
      BY Zenon DEF Proper, Fields
    <1> HIDE DEF r
    <1>5. Proper(r)
      BY <1>2, <1>3, <1>4 DEF Proper
    <1> QED BY <1>1, <1>2, <1>3, <1>5 DEF r

LEMMA ProperMeta ==
    ASSUME NEW q, Proper(q), NEW x, DOMAIN x = Keys
    PROVE  /\ Proper([q EXCEPT !.meta = x])
           /\ [q EXCEPT !.meta = x].uid = q.uid /\ [q EXCEPT !.meta = x].rv = q.rv
           /\ [q EXCEPT !.meta = x].meta = x
    <1> DEFINE r == [q EXCEPT !.meta = x]
    <1>1. r.uid = q.uid
      BY Zenon DEF Proper, Fields
    <1>2. r.rv = q.rv
      BY Zenon DEF Proper, Fields
    <1>3. r.meta = x
      BY Zenon DEF Proper, Fields
    <1>4. Fields(r)
      BY Zenon DEF Proper, Fields
    <1> HIDE DEF r
    <1>5. Proper(r)
      BY <1>2, <1>3, <1>4 DEF Proper
    <1> QED BY <1>1, <1>2, <1>3, <1>5 DEF r

\* Other contents, the same keys.
LEMMA ChangedFaithful ==
    ASSUME NEW s, Faithful(s), NEW o, Proper(o), o.uid = s.uid, o.rv = s.rv, SameKeys(o, s)
    PROVE  Faithful(o)
    BY DEF Faithful, SameKeys

LEMMA FaithfulExcept ==
    ASSUME NEW s, Faithful(s), NEW x
    PROVE  /\ Faithful([s EXCEPT !.spec = x]) /\ Faithful([s EXCEPT !.status = x])
           /\ Faithful([s EXCEPT !.ref = x])
    <1>1. ASSUME NEW o, Proper(o), o.uid = s.uid, o.rv = s.rv, o.meta = s.meta
          PROVE  Faithful(o)
      BY <1>1, ChangedFaithful DEF SameKeys
    <1>2. Proper(s)
      BY DEF Faithful
    <1>3. Faithful([s EXCEPT !.spec = x])
      BY <1>1, <1>2, ProperSpec, Zenon
    <1>4. Faithful([s EXCEPT !.status = x])
      BY <1>1, <1>2, ProperStatus, Zenon
    <1>5. Faithful([s EXCEPT !.ref = x])
      BY <1>1, <1>2, ProperRef, Zenon
    <1> QED BY <1>3, <1>4, <1>5

\* Labels and annotations that differ in other keys only.
LEMMA FaithfulMeta ==
    ASSUME NEW s, Faithful(s), NEW m, DOMAIN m = Keys,
           \A k \in ProtectedKeys : m[k] = s.meta[k]
    PROVE  Faithful([s EXCEPT !.meta = m])
    <1> DEFINE o == [s EXCEPT !.meta = m]
    <1>1. Proper(o) /\ o.uid = s.uid /\ o.rv = s.rv /\ o.meta = m
      BY ProperMeta, Zenon DEF Faithful
    <1> HIDE DEF o
    <1>2. SameKeys(o, s)
      BY <1>1 DEF SameKeys
    <1>3. Faithful(o)
      BY <1>1, <1>2, ChangedFaithful
    <1> QED BY <1>3 DEF o

\* The keys that a check of the kind k leaves alone are the protected ones, and more.
LEMMA DWKeys ==
    ASSUME NEW k, k \in NoConfig => kind \in NoConfig, NEW a, NEW b
    PROVE  /\ DOMAIN checkDWKVEquality(k, a, b) = Keys
           /\ \A key \in ProtectedKeys : checkDWKVEquality(k, a, b)[key] = a[key]
    BY DEF checkDWKVEquality, hasPrefixInArray, isOpaquedKey, ProtectedKeys, Keys, NoConfig

LEMMA CleanKeys ==
    ASSUME NEW k, k \in NoConfig => kind \in NoConfig, NEW a
    PROVE  /\ DOMAIN CleanOpaqueKeys(k, a) = Keys
           /\ \A key \in ProtectedKeys : CleanOpaqueKeys(k, a)[key] = 0
    BY DEF CleanOpaqueKeys, hasPrefixInArray, isOpaquedKey, ProtectedKeys, Keys, NoConfig

LEMMA UWKeys ==
    ASSUME NEW a, NEW b
    PROVE  /\ DOMAIN checkUWKVEquality(a, b) = Keys
           /\ \A key \in ProtectedKeys : checkUWKVEquality(a, b)[key] = b[key]
    BY DEF checkUWKVEquality, hasPrefixInArray, ProtectedKeys, Keys, NoConfig

LEMMA FaithfulDW ==
    ASSUME NEW k, k \in NoConfig => kind \in NoConfig, NEW p, Faithful(p), NEW v
    PROVE  Faithful(CheckDWObjectMetaEquality(k, p, v))
    <1> DEFINE m == checkDWKVEquality(k, p.meta, v.meta)
    <1>1. DOMAIN m = Keys /\ \A key \in ProtectedKeys : m[key] = p.meta[key]
      BY DWKeys
    <1> HIDE DEF m
    <1>2. Faithful([p EXCEPT !.meta = m])
      BY <1>1, FaithfulMeta, Zenon
    <1> QED BY <1>2, Zenon DEF CheckDWObjectMetaEquality, m

LEMMA FaithfulChecks ==
    ASSUME NEW p, Faithful(p), NEW v
    PROVE  /\ kind = "configmap" => Faithful(CheckConfigMapEquality(p, v))
           /\ kind = "secret" => Faithful(CheckSecretEquality("secret", p, v))
           /\ Faithful(CheckBinaryDataEquality(p, v)) /\ Faithful(CheckEndpointsEquality(p, v))
           /\ kind = "service" => Faithful(CheckServiceEquality(p, v))
           /\ kind = "persistentvolumeclaim" => Faithful(CheckPVCEquality(p, v))
    <1> DEFINE D(k) == CheckDWObjectMetaEquality(k, p, v)
    <1>1. ASSUME NEW k, k \notin NoConfig \/ kind \in NoConfig
          PROVE  Faithful(D(k))
      BY <1>1, FaithfulDW
    <1> HIDE DEF D
    <1>2. Faithful([p EXCEPT !.spec = v.spec])
      BY FaithfulExcept, Zenon
    <1>3. ASSUME NEW k, k \notin NoConfig \/ kind \in NoConfig
          PROVE  Faithful([D(k) EXCEPT !.spec = v.spec])
      BY <1>1, <1>3, FaithfulExcept, Zenon
    <1>4. /\ "configmap" \notin NoConfig /\ "service" \notin NoConfig
          /\ "persistentvolumeclaim" \notin NoConfig
          /\ kind = "secret" => kind \in NoConfig
      BY DEF NoConfig
    <1>5. Faithful(CheckConfigMapEquality(p, v))
      BY <1>3, <1>4, Zenon DEF CheckConfigMapEquality, checkMapEquality, D
    <1>6. kind = "secret" => Faithful(CheckSecretEquality("secret", p, v))
      <2>1. CheckSecretEquality("secret", p, v) = [D("secret") EXCEPT !.spec = v.spec]
        BY Zenon DEF CheckSecretEquality, CheckBinaryDataEquality, D
      <2> QED BY <1>3, <1>4, <2>1, Zenon
    <1>7. Faithful(CheckServiceEquality(p, v)) /\ Faithful(CheckPVCEquality(p, v))
      BY <1>3, <1>4, Zenon DEF CheckServiceEquality, CheckPVCEquality, D
    <1>8. Faithful(CheckBinaryDataEquality(p, v)) /\ Faithful(CheckEndpointsEquality(p, v))
      BY <1>2, Zenon DEF CheckBinaryDataEquality, CheckEndpointsEquality
    <1> QED BY <1>5, <1>6, <1>7, <1>8

LEMMA FaithfulUpward ==
    ASSUME NEW v, Faithful(v), NEW p
    PROVE  /\ Faithful(CheckUWObjectMetaEquality(p, v)) /\ Faithful(CheckUWPVCStatusEquality(p, v))
           /\ Faithful([v EXCEPT !.status = p.status]) /\ Faithful(CheckIngressEquality(p, v))
    <1>1. Faithful(CheckUWObjectMetaEquality(p, v))
      <2> DEFINE m == checkUWKVEquality(p.meta, v.meta)
      <2>1. DOMAIN m = Keys /\ \A key \in ProtectedKeys : m[key] = v.meta[key]
        BY UWKeys
      <2> HIDE DEF m
      <2>2. Faithful([v EXCEPT !.meta = m])
        BY <2>1, FaithfulMeta, Zenon
      <2> QED BY <2>2, Zenon DEF CheckUWObjectMetaEquality, m
    <1>2. Faithful([v EXCEPT !.status = p.status])
      BY FaithfulExcept, Zenon
    <1>3. Faithful(CheckUWPVCStatusEquality(p, v))
      BY <1>2, Zenon DEF CheckUWPVCStatusEquality
    <1> DEFINE s == [v EXCEPT !.spec = p.spec]
               t == [s EXCEPT !.status = p.status]
    <1> HIDE DEF s, t
    <1>4. Faithful(s)
      BY FaithfulExcept, Zenon DEF s
    <1>5. Faithful(t)
      BY <1>4, FaithfulExcept, Zenon DEF t
    <1>6. Faithful(CheckIngressEquality(p, v))
      BY <1>5 DEF CheckIngressEquality, s, t
    <1> QED BY <1>1, <1>2, <1>3, <1>6

\* What is built for the super cluster does not have the protected keys.
LEMMA BuiltIsClean ==
    ASSUME NEW k, k \in NoConfig => kind \in NoConfig, NEW v, Proper(v)
    PROVE  LET o == BuildSuperClusterObject(k, v)
           IN  Faithful(o) /\ Clean(o)
    <1> DEFINE a == [v EXCEPT !.meta = CleanOpaqueKeys(k, v.meta)]
               b == [a EXCEPT !.uid = 0]
               c == [b EXCEPT !.rv = 0]
               d == [c EXCEPT !.ref = v.uid]
               e == [d EXCEPT !.status = 0]
               m == CleanOpaqueKeys(k, v.meta)
    <1>0. DOMAIN m = Keys /\ \A key \in ProtectedKeys : m[key] = 0
      BY CleanKeys
    <1> HIDE DEF a, b, c, d, e, m
    <1>1. Proper(a) /\ a.meta = m
      BY <1>0, ProperMeta, Zenon DEF a, m
    <1>2. Proper(b) /\ b.meta = m /\ b.uid = 0
      BY <1>1, ProperUid, Zenon DEF b
    <1>3. Proper(c) /\ c.meta = m /\ c.uid = 0
      <2>1. 0 \in Nat
        OBVIOUS
      <2> QED BY <1>2, <2>1, ProperRv, Zenon DEF c
    <1>4. Proper(d) /\ d.meta = m /\ d.uid = 0
      BY <1>3, ProperRef, Zenon DEF d
    <1>5. Proper(e) /\ e.meta = m /\ e.uid = 0
      BY <1>4, ProperStatus, Zenon DEF e
    <1>6. Faithful(e) /\ Clean(e)
      BY <1>0, <1>5 DEF Faithful, Clean
    <1>7. BuildSuperClusterObject(k, v) = e
      BY DEF BuildSuperClusterObject, buildCleanSuperClusterObject, ResetMetadata, a, b, c, d, e
    <1> QED BY <1>6, <1>7

LEMMA NamespaceIsClean ==
    ASSUME kind = "namespace", NEW v, Proper(v)
    PROVE  LET o == BuildSuperClusterNamespace(v)
           IN  Faithful(o) /\ Clean(o)
    <1>1. BuildSuperClusterNamespace(v) = BuildSuperClusterObject("namespace", v)
      BY Zenon DEF BuildSuperClusterNamespace, BuildSuperClusterObject
    <1>2. "namespace" \in NoConfig => kind \in NoConfig
      OBVIOUS
    <1> QED BY <1>1, <1>2, BuiltIsClean

-----------------------------------------------------------------------------
(* Reconciliation *)

LEMMA NoObjFaithful == Faithful(NoObj)
    <1>1. NoObj.rv = 0 /\ NoObj.meta = NoKeys /\ DOMAIN NoKeys = Keys
      BY DEF NoObj, NoKeys
    <1> QED BY <1>1, NoObjFields DEF Faithful, Proper

LEMMA CacheFaithful ==
    ASSUME KeysInv
    PROVE  /\ \A o \in tenantCache \cup superCache : Faithful(o) /\ Proper(o)
           /\ Faithful(The(superCache)) /\ Faithful(The(tenantCache))
    <1>1. \A o \in tenantCache \cup superCache : Faithful(o) /\ Proper(o)
      BY CopyIsFaithful DEF Copies, Faithful
    <1> QED BY <1>1, TheOne, NoObjFaithful

Keeps(u, c) == c = Nothing \/ c.op = "fail" \/ DwsKeeps([req |-> u, call |-> c])

LEMMA NothingKeeps ==
    ASSUME NEW u
    PROVE  Keeps(u, Nothing) /\ Keeps(u, Failure)
    BY CallFields DEF Keeps, Failure

LEMMA CreateKeeps ==
    ASSUME NEW u, NEW o, Faithful(o), Clean(o)
    PROVE  Keeps(u, Create(o)) /\ Keeps(u, Ensure(o))
    BY CallFields DEF Keeps, DwsKeeps, Create, Ensure

LEMMA BuildKeeps ==
    ASSUME NEW u, NEW k, k \in NoConfig => kind \in NoConfig, NEW v, Faithful(v)
    PROVE  Keeps(u, Create(BuildSuperClusterObject(k, v)))
    BY BuiltIsClean, CreateKeeps DEF Faithful

LEMMA UpdateKeeps ==
    ASSUME NEW u, NEW old, NEW o, Faithful(o)
    PROVE  Keeps(u, Update(o)) /\ Keeps(u, UpdateIfChanged(old, o))
    BY CallFields DEF Keeps, DwsKeeps, Update, UpdateIfChanged, Creates

LEMMA DeleteKeeps ==
    ASSUME NEW u, NEW p
    PROVE  Keeps(u, DeleteName) /\ Keeps(u, DeleteUid(p)) /\ Keeps(u, Collect(u))
    BY CallFields, NoObjFaithful DEF Keeps, DwsKeeps, DeleteName, DeleteUid, Collect, Creates

LEMMA DelegatedKeeps ==
    ASSUME NEW u, NEW p, NEW c, Keeps(u, c)
    PROVE  Keeps(u, Delegated(u, p, c))
    BY NothingKeeps DEF Delegated

\* Steps without a new version: caches, workers and patrol.
LEMMA QuietStep ==
    ASSUME KeysInv, kind' = kind, tenant' \subseteq tenant, super' \subseteq super,
           \A o \in tenantCache' \cup superCache' : o \in Copies \/ Faithful(o),
           \A w \in dws' : w \in dws \/ DwsKeeps(w),
           uws' = uws \/ UwsKeeps(uws'), patrol' = patrol \/ PatrolKeeps(patrol')
    PROVE  VersionStep(NoObj)
    <1>1. NoObj \notin tenant \cup super
      BY NoObjFields DEF KeysInv, ServerInv
    <1> QED BY <1>1 DEF VersionStep

LEMMA CachesInCopies == tenantCache \cup superCache \cup tenant \cup super \subseteq Copies
    BY DEF Copies

LEMMA DecideVersions ==
    ASSUME KeysInv, NEW u, NEW c, Decide(u, c), Keeps(u, c), UNCHANGED tenantCache,
           \A o \in superCache' : o \in Copies \/ Faithful(o)
    PROVE  VersionStep(NoObj)
    <1>1. dws' = dws \cup IF c = Nothing THEN {} ELSE {[req |-> u, call |-> c]}
      BY DEF Decide
    <1>2. \A w \in dws' : w \in dws \/ DwsKeeps(w)
      BY <1>1 DEF Decide, Keeps
    <1>3. UNCHANGED <<kind, tenant, super, uws, patrol>>
      BY DEF Decide, objects
    <1> QED BY <1>2, <1>3, CachesInCopies, QuietStep

LEMMA ConfigMapVersions ==
    ASSUME KeysInv, NEW u, ConfigMapReconcile(u)
    PROVE  VersionStep(NoObj)
    <1> DEFINE v == The(tenantCache)
               p == The(superCache)
               c == Switch(u, p, reconcileConfigMapCreate, reconcileConfigMapUpdate,
                           reconcileConfigMapRemove)
    <1>0. kind = "configmap" /\ UNCHANGED caches /\ Decide(u, c)
      BY DEF ConfigMapReconcile
    <1>1. Faithful(v) /\ Faithful(p)
      BY CacheFaithful
    <1>2. Keeps(u, reconcileConfigMapCreate(v))
      BY <1>0, <1>1, BuildKeeps DEF reconcileConfigMapCreate, NoConfig
    <1>3. Keeps(u, reconcileConfigMapUpdate(u, p, v))
      BY <1>0, <1>1, FaithfulChecks, UpdateKeeps, DelegatedKeeps, NothingKeeps DEF reconcileConfigMapUpdate
    <1>4. Keeps(u, reconcileConfigMapRemove(u, p))
      BY DeleteKeeps, DelegatedKeeps DEF reconcileConfigMapRemove
    <1>5. Keeps(u, c)
      BY <1>2, <1>3, <1>4, NothingKeeps DEF Switch
    <1> HIDE DEF c
    <1>6. UNCHANGED tenantCache /\ \A o \in superCache' : o \in Copies
      BY <1>0, CachesInCopies DEF caches
    <1> QED BY <1>0, <1>5, <1>6, DecideVersions

LEMMA ServiceVersions ==
    ASSUME KeysInv, NEW u, ServiceReconcile(u)
    PROVE  VersionStep(NoObj)
    <1> DEFINE v == The(tenantCache)
               p == The(superCache)
               c == Switch(u, p, reconcileServiceCreate, reconcileServiceUpdate,
                           reconcileServiceRemove)
    <1>0. kind = "service" /\ UNCHANGED caches /\ Decide(u, c)
      BY DEF ServiceReconcile
    <1>1. Faithful(v) /\ Faithful(p)
      BY CacheFaithful
    <1>2. Keeps(u, reconcileServiceCreate(v))
      BY <1>0, <1>1, BuildKeeps DEF reconcileServiceCreate, NoConfig
    <1>3. Keeps(u, reconcileServiceUpdate(u, p, v))
      BY <1>0, <1>1, FaithfulChecks, UpdateKeeps, DelegatedKeeps, NothingKeeps DEF reconcileServiceUpdate
    <1>4. Keeps(u, reconcileServiceRemove(u, p))
      BY DeleteKeeps, DelegatedKeeps DEF reconcileServiceRemove
    <1>5. Keeps(u, c)
      BY <1>2, <1>3, <1>4, NothingKeeps DEF Switch
    <1> HIDE DEF c
    <1>6. UNCHANGED tenantCache /\ \A o \in superCache' : o \in Copies
      BY <1>0, CachesInCopies DEF caches
    <1> QED BY <1>0, <1>5, <1>6, DecideVersions

LEMMA EndpointsVersions ==
    ASSUME KeysInv, NEW u, EndpointsReconcile(u)
    PROVE  VersionStep(NoObj)
    <1> DEFINE v == The(tenantCache)
               p == The(superCache)
               c == Switch(u, p, reconcileEndpointsCreate, reconcileEndpointsUpdate,
                           reconcileEndpointsRemove)
    <1>0. kind = "endpoints" /\ UNCHANGED caches /\ Decide(u, IF related THEN Nothing ELSE c)
      BY DEF EndpointsReconcile
    <1>1. Faithful(v) /\ Faithful(p)
      BY CacheFaithful
    <1>2. Keeps(u, reconcileEndpointsCreate(v))
      BY <1>0, <1>1, BuildKeeps DEF reconcileEndpointsCreate, NoConfig
    <1>3. Keeps(u, reconcileEndpointsUpdate(u, p, v))
      BY <1>0, <1>1, FaithfulChecks, UpdateKeeps, DelegatedKeeps, NothingKeeps DEF reconcileEndpointsUpdate
    <1>4. Keeps(u, reconcileEndpointsRemove(u, p))
      BY DeleteKeeps, DelegatedKeeps DEF reconcileEndpointsRemove
    <1>5. Keeps(u, c)
      BY <1>2, <1>3, <1>4, NothingKeeps DEF Switch
    <1> HIDE DEF c
    <1>6. UNCHANGED tenantCache /\ \A o \in superCache' : o \in Copies
      BY <1>0, CachesInCopies DEF caches
    <1> QED BY <1>0, <1>5, <1>6, NothingKeeps, DecideVersions

LEMMA PVCVersions ==
    ASSUME KeysInv, NEW u, PVCReconcile(u)
    PROVE  VersionStep(NoObj)
    <1> DEFINE v == The(tenantCache)
               p == The(superCache)
               c == Switch(u, p, reconcilePVCCreate, reconcilePVCUpdate,
                           reconcilePVCRemove)
    <1>0. kind = "persistentvolumeclaim" /\ UNCHANGED caches /\ Decide(u, c)
      BY DEF PVCReconcile
    <1>1. Faithful(v) /\ Faithful(p)
      BY CacheFaithful
    <1>2. Keeps(u, reconcilePVCCreate(v))
      BY <1>0, <1>1, BuildKeeps DEF reconcilePVCCreate, NoConfig
    <1>3. Keeps(u, reconcilePVCUpdate(u, p, v))
      BY <1>0, <1>1, FaithfulChecks, UpdateKeeps, DelegatedKeeps, NothingKeeps DEF reconcilePVCUpdate
    <1>4. Keeps(u, reconcilePVCRemove(u, p))
      BY DeleteKeeps, DelegatedKeeps DEF reconcilePVCRemove
    <1>5. Keeps(u, c)
      BY <1>2, <1>3, <1>4, NothingKeeps DEF Switch
    <1> HIDE DEF c
    <1>6. UNCHANGED tenantCache /\ \A o \in superCache' : o \in Copies
      BY <1>0, CachesInCopies DEF caches
    <1> QED BY <1>0, <1>5, <1>6, DecideVersions

LEMMA NamespaceVersions ==
    ASSUME KeysInv, NEW u, NamespaceReconcile(u)
    PROVE  VersionStep(NoObj)
    <1> DEFINE v == The(tenantCache)
               p == The(superCache)
               c == Switch(u, p, reconcileNamespaceCreate, reconcileNamespaceUpdate,
                           reconcileNamespaceRemove)
    <1>0. kind = "namespace" /\ UNCHANGED caches /\ Decide(u, c)
      BY DEF NamespaceReconcile
    <1>1. Faithful(v) /\ Faithful(p)
      BY CacheFaithful
    <1>2. Keeps(u, reconcileNamespaceCreate(v))
      BY <1>0, <1>1, NamespaceIsClean, CreateKeeps DEF reconcileNamespaceCreate, NoConfig, Faithful
    <1>3. Keeps(u, reconcileNamespaceUpdate(u, p, v))
      BY <1>0, <1>1, DelegatedKeeps, NothingKeeps DEF reconcileNamespaceUpdate
    <1>4. Keeps(u, reconcileNamespaceRemove(u, p))
      BY DeleteKeeps, DelegatedKeeps DEF reconcileNamespaceRemove
    <1>5. Keeps(u, c)
      BY <1>2, <1>3, <1>4, NothingKeeps DEF Switch
    <1> HIDE DEF c
    <1>6. UNCHANGED tenantCache /\ \A o \in superCache' : o \in Copies
      BY <1>0, CachesInCopies DEF caches
    <1> QED BY <1>0, <1>5, <1>6, DecideVersions

LEMMA IngressVersions ==
    ASSUME KeysInv, NEW u, IngressReconcile(u)
    PROVE  VersionStep(NoObj)
    <1> DEFINE v == The(tenantCache)
               p == The(superCache)
               c == Switch(u, p, reconcileIngressCreate, reconcileIngressUpdate,
                           reconcileIngressRemove)
    <1>0. kind = "ingress" /\ UNCHANGED caches /\ Decide(u, c)
      BY DEF IngressReconcile
    <1>1. Faithful(v) /\ Faithful(p)
      BY CacheFaithful
    <1>2. Keeps(u, reconcileIngressCreate(v))
      BY <1>0, <1>1, BuildKeeps DEF reconcileIngressCreate, NoConfig
    <1>3. Keeps(u, reconcileIngressUpdate(u, p, v))
      BY <1>0, <1>1, FaithfulUpward, UpdateKeeps, DelegatedKeeps, NothingKeeps DEF reconcileIngressUpdate
    <1>4. Keeps(u, reconcileIngressRemove(u, p))
      BY DeleteKeeps, DelegatedKeeps DEF reconcileIngressRemove
    <1>5. Keeps(u, c)
      BY <1>2, <1>3, <1>4, NothingKeeps DEF Switch
    <1> HIDE DEF c
    <1>6. UNCHANGED tenantCache /\ \A o \in superCache' : o \in Copies
      BY <1>0, CachesInCopies DEF caches
    <1> QED BY <1>0, <1>5, <1>6, DecideVersions

\* The default account of the super cluster is only marked as the tenant's.
LEMMA ServiceAccountVersions ==
    ASSUME KeysInv, NEW u, ServiceAccountReconcile(u)
    PROVE  VersionStep(NoObj)
    <1> DEFINE v == The(tenantCache)
               p == The(superCache)
               c == Switch(u, p, reconcileServiceAccountCreate,
                           reconcileServiceAccountUpdate, reconcileServiceAccountRemove)
    <1>0. /\ UNCHANGED tenantCache /\ Decide(u, c)
          /\ superCache' = IF c.op = "update" THEN {c.obj} ELSE superCache
      BY DEF ServiceAccountReconcile
    <1>1. Faithful(v) /\ Faithful(p)
      BY CacheFaithful
    <1>2. Keeps(u, reconcileServiceAccountCreate(v))
      BY <1>1, BuildKeeps DEF reconcileServiceAccountCreate, NoConfig
    <1>3. Keeps(u, reconcileServiceAccountUpdate(u, p, v))
      <2> DEFINE q == [p EXCEPT !.ref = v.uid]
      <2>1. Faithful(q)
        BY <1>1, FaithfulExcept, Zenon
      <2> HIDE DEF q
      <2>2. Keeps(u, UpdateIfChanged(p, q)) /\ Keeps(u, Delegated(u, p, Nothing))
        BY <2>1, UpdateKeeps, DelegatedKeeps, NothingKeeps
      <2> QED BY <2>2, Zenon DEF reconcileServiceAccountUpdate, q
    <1>4. Keeps(u, reconcileServiceAccountRemove(u, p))
      BY DeleteKeeps, DelegatedKeeps DEF reconcileServiceAccountRemove
    <1>5. Keeps(u, c)
      BY <1>2, <1>3, <1>4, NothingKeeps DEF Switch
    <1> HIDE DEF c
    <1>6. \A o \in superCache' : o \in Copies \/ Faithful(o)
      <2>1. Nothing.op # "update"
        BY CallFields DEF Nothing
      <2>2. c.op = "update" => Faithful(c.obj)
        BY <1>5, <2>1 DEF Keeps, DwsKeeps
      <2> QED BY <1>0, <2>2, CachesInCopies
    <1> QED BY <1>0, <1>5, <1>6, DecideVersions

LEMMA SecretVersions ==
    ASSUME KeysInv, NEW u, SecretReconcile(u)
    PROVE  VersionStep(NoObj)
    <1> DEFINE v == The(tenantCache)
               found == {o \in superCache : kind = "secret" \/ o.ref = u}
    <1>0. kind \in {"secret", "satoken"} /\ UNCHANGED caches
      BY DEF SecretReconcile
    <1>1. PICK p \in IF found = {} THEN {NoObj} ELSE found :
              Decide(u, Switch(u, p, reconcileSecretCreate, reconcileSecretUpdate,
                               reconcileSecretRemove))
      BY DEF SecretReconcile
    <1>2. Faithful(v) /\ Faithful(p)
      BY CacheFaithful, NoObjFaithful
    <1> DEFINE c == Switch(u, p, reconcileSecretCreate, reconcileSecretUpdate,
                           reconcileSecretRemove)
    <1>3. Keeps(u, reconcileSecretCreate(v))
      BY <1>0, <1>2, BuildKeeps
         DEF reconcileSecretCreate, reconcileServiceAccountSecretCreate,
             reconcileNormalSecretCreate, NoConfig
    <1>4. Keeps(u, reconcileSecretUpdate(u, p, v))
      BY <1>0, <1>2, FaithfulChecks, UpdateKeeps, DelegatedKeeps
         DEF reconcileSecretUpdate, reconcileServiceAccountSecretUpdate,
             reconcileNormalSecretUpdate
    <1>5. Keeps(u, reconcileSecretRemove(u, p))
      BY DeleteKeeps, DelegatedKeeps
         DEF reconcileSecretRemove, reconcileServiceAccountTokenSecretRemove,
             reconcileNormalSecretRemove
    <1>6. Keeps(u, c)
      BY <1>3, <1>4, <1>5, NothingKeeps DEF Switch
    <1> HIDE DEF c
    <1>7. UNCHANGED tenantCache /\ \A o \in superCache' : o \in Copies
      BY <1>0, CachesInCopies DEF caches
    <1> QED BY <1>1, <1>6, <1>7, DecideVersions DEF c

LEMMA ReconcileVersions ==
    ASSUME KeysInv, NEW u, Reconcile(u)
    PROVE  VersionStep(NoObj)
    BY ConfigMapVersions, SecretVersions, ServiceVersions, EndpointsVersions,
       ServiceAccountVersions, PVCVersions, NamespaceVersions, IngressVersions DEF Reconcile

-----------------------------------------------------------------------------
(* The patrol *)

LEMMA PatrolVersions ==
    ASSUME KeysInv, NEW x, PatrolAt(x), PatrolKeeps(x)
    PROVE  VersionStep(NoObj)
    <1>1. UNCHANGED <<kind, tenant, super, tenantCache, superCache, dws, uws>> /\ patrol' = x
      BY DEF PatrolAt, objects, caches
    <1> QED BY <1>1, CachesInCopies, QuietStep

LEMMA IdleKeeps == PatrolKeeps(Idle) /\ PatrolKeeps(Checked) /\ UwsKeeps(Idle)
    BY AtFields, CallFields, NoObjFaithful DEF PatrolKeeps, UwsKeeps, Idle, Checked, Nothing, At

LEMMA FindsVersions ==
    ASSUME KeysInv, NEW x, PatrolKeeps(x), NEW v,
           Finds(x) \/ RequeueObject(v, x) \/ AddToQueue(x)
    PROVE  VersionStep(NoObj)
    BY PatrolVersions DEF Finds, RequeueObject, AddToQueue

LEMMA PatrolDeleteVersions ==
    ASSUME KeysInv, NEW p \in Copies, PatrolDelete(p)
    PROVE  VersionStep(NoObj)
    <1>0. Faithful(p)
      BY CopyIsFaithful
    <1>1. PatrolKeeps(At("super", DeleteUid(p), p))
      BY <1>0, AtFields, CallFields, NoObjFaithful DEF PatrolKeeps, DeleteUid
    <1> QED BY <1>1, PatrolVersions DEF PatrolDelete, Finds

LEMMA PatrollerVersions ==
    ASSUME KeysInv, PatrollerDo
    PROVE  VersionStep(NoObj)
    <1>0. patrol.p \in Copies /\ superCache \subseteq Copies
      BY DEF Copies
    <1>1. CASE ListP
      <2>1. PatrolKeeps(Listing)
        BY AtFields, CallFields, CacheFaithful, NoObjFaithful DEF PatrolKeeps, Nothing, Listing
      <2> QED BY <1>1, <2>1, FindsVersions DEF ListP
    <1>2. CASE checkIngressesOfTenantCluster
      BY <1>2, FindsVersions, PatrolVersions, IdleKeeps DEF checkIngressesOfTenantCluster
    <1>3. CASE checkSecretOfTenantCluster \/ SecretPatrollerDo \/ IngressPatrollerDo
      BY <1>0, <1>3, FindsVersions, PatrolDeleteVersions, IdleKeeps
         DEF checkSecretOfTenantCluster, checkServiceAccountTokenTypeSecretOfTenantCluster,
             SecretPatrollerDo, IngressPatrollerDo, SuperObjects
    <1>4. ASSUME NEW v, Requeue(v)
          PROVE  VersionStep(NoObj)
      BY <1>4, FindsVersions, IdleKeeps DEF Requeue
    <1>5. ASSUME Finds(Idle) \/ AddToQueue(Idle)
          PROVE  VersionStep(NoObj)
      BY <1>5, FindsVersions, IdleKeeps
    <1>6. ASSUME PatrolDelete(patrol.p)
          PROVE  VersionStep(NoObj)
      BY <1>0, <1>6, PatrolDeleteVersions
    <1>7. CASE ConfigMapPatrollerDo \/ ServiceAccountPatrollerDo \/ EndpointsPatrollerDo
      BY <1>4, <1>5, <1>6, <1>7
         DEF ConfigMapPatrollerDo, ServiceAccountPatrollerDo, EndpointsPatrollerDo, Difference,
             ConfigMapUpdateFunc, ServiceAccountUpdateFunc, EndpointsUpdateFunc,
             EndpointsDeleteFunc
    <1>8. CASE ServicePatrollerDo \/ PVCPatrollerDo \/ NamespacePatrollerDo
      BY <1>4, <1>5, <1>6, <1>8
         DEF ServicePatrollerDo, PVCPatrollerDo, NamespacePatrollerDo, Difference,
             ServiceUpdateFunc, PVCUpdateFunc, NamespaceUpdateFunc, NamespaceDeleteFunc,
             deleteNamespace
    <1> QED BY <1>1, <1>2, <1>3, <1>7, <1>8 DEF PatrollerDo

-----------------------------------------------------------------------------
(* Calls of the API servers, with the versions they make *)

\* A new version of an object, or a new object, on one side.
LEMMA SuperVersion ==
    ASSUME KeysInv, NEW n, NewVersion(n), \A v \in tenant : v.uid # n.uid,
           super' \subseteq {o \in super : o.uid # n.uid} \cup {n},
           UNCHANGED <<kind, tenant, tenantCache, superCache>>, dws' \subseteq dws,
           uws' = uws \/ UwsKeeps(uws'), patrol' = patrol
    PROVE  VersionStep(n)
    <1>1. n \notin tenant'
      OBVIOUS
    <1>2. \A o \in tenant' \cup super' : o.uid = n.uid => o = n
      OBVIOUS
    <1> QED BY <1>1, <1>2, CachesInCopies DEF VersionStep

LEMMA TenantVersion ==
    ASSUME KeysInv, NEW n, NewVersion(n), \A p \in super : p.uid # n.uid,
           tenant' \subseteq {o \in tenant : o.uid # n.uid} \cup {n},
           UNCHANGED <<kind, super, tenantCache, superCache>>, dws' = dws,
           uws' = uws \/ UwsKeeps(uws'), patrol' = patrol
    PROVE  VersionStep(n)
    <1>1. n \notin super'
      OBVIOUS
    <1>2. \A o \in tenant' \cup super' : o.uid = n.uid => o = n
      OBVIOUS
    <1> QED BY <1>1, <1>2, CachesInCopies DEF VersionStep

LEMMA NewObjectIs ==
    ASSUME NEW S, NEW c, Creates(c), Proper(c.obj), UidLeft(c)
    PROVE  \E b : /\ NewVersion(b) /\ ~InUse(b.uid) /\ b.meta = c.obj.meta
                  /\ After(S, c) = S \cup {b} \/ After(S, c) = S
    <1>1. Fresh \in Uid /\ ~InUse(Fresh)
      BY DEF UidLeft, Fresh, Creates
    <1>2. Fresh # 0
      BY <1>1, UidNotZero
    <1> DEFINE a == [c.obj EXCEPT !.uid = Fresh]
               b == [a EXCEPT !.rv = 1]
    <1> HIDE DEF a, b
    <1>3. Proper(a) /\ a.uid = Fresh /\ a.meta = c.obj.meta
      BY ProperUid, Zenon DEF a
    <1>4. Proper(b) /\ b.uid = Fresh /\ b.meta = c.obj.meta
      <2>1. 1 \in Nat
        OBVIOUS
      <2> QED BY <1>3, <2>1, ProperRv, Zenon DEF b
    <1>5. After(S, c) = S \cup {b} \/ After(S, c) = S
      <2>1. b = [c.obj EXCEPT !.uid = Fresh, !.rv = 1]
        BY Zenon DEF a, b
      <2> HIDE DEF Fresh
      <2> QED BY <2>1, Zenon DEF After, Creates
    <1>6. NewVersion(b)
      BY <1>1, <1>2, <1>4 DEF NewVersion
    <1> QED BY <1>1, <1>4, <1>5, <1>6

LEMMA NextVersionIs ==
    ASSUME NEW S, NEW c, c.op = "update", Proper(c.obj)
    PROVE  \E b : /\ Proper(b) /\ b.uid = c.obj.uid /\ b.rv = c.obj.rv + 1
                  /\ b.meta = c.obj.meta
                  /\ After(S, c) = {o \in S : o.uid # c.obj.uid} \cup {b}
    <1> DEFINE r == c.obj.rv + 1
               b == [c.obj EXCEPT !.rv = r]
    <1>0. r \in Nat
      BY DEF Proper
    <1> HIDE DEF r
    <1>1. Proper(b) /\ b.uid = c.obj.uid /\ b.rv = r /\ b.meta = c.obj.meta
      BY <1>0, ProperRv, Zenon
    <1>2. After(S, c) = {o \in S : o.uid # c.obj.uid} \cup {b}
      BY Zenon DEF After, r
    <1> HIDE DEF b
    <1> QED BY <1>1, <1>2 DEF r

\* An update is accepted only of the version that the server has.
LEMMA AcceptedIs ==
    ASSUME NEW S, NEW c, c.op = "update", Accepts(S, c)
    PROVE  \E o \in S : o.uid = c.obj.uid /\ o.rv = c.obj.rv
    <1>1. Accepts(S, c) = \E o \in S : o.uid = c.obj.uid /\ o.rv = c.obj.rv
      BY Zenon DEF Accepts
    <1> QED BY <1>1

LEMMA UpdateVersion ==
    ASSUME KeysInv, NEW S, S = tenant \/ S = super, NEW c, c.op = "update",
           c.obj \in Copies, Accepts(S, c)
    PROVE  \E b : /\ NewVersion(b) /\ b.uid = c.obj.uid /\ b.meta = c.obj.meta
                  /\ \E x \in S : x.uid = b.uid /\ SameKeys(b, x)
                  /\ After(S, c) = {o \in S : o.uid # b.uid} \cup {b}
    <1>1. PICK x \in S : x.uid = c.obj.uid /\ x.rv = c.obj.rv
      BY AcceptedIs
    <1>2. Proper(c.obj) /\ x \in tenant \cup super /\ x \in Copies /\ x.uid # 0
      BY CachesInCopies DEF KeysInv, ProperInv, ServerInv
    <1>3. PICK b : /\ Proper(b) /\ b.uid = c.obj.uid /\ b.rv = c.obj.rv + 1
                   /\ b.meta = c.obj.meta
                   /\ After(S, c) = {o \in S : o.uid # c.obj.uid} \cup {b}
      BY <1>2, NextVersionIs
    <1>4. NewVersion(b)
      BY <1>1, <1>2, <1>3 DEF NewVersion
    <1>5. SameKeys(c.obj, x)
      BY <1>1, <1>2 DEF KeysInv, VersionInv
    <1>6. SameKeys(b, x)
      BY <1>3, <1>5 DEF SameKeys
    <1> QED BY <1>1, <1>3, <1>4, <1>6

\* What the call of a downward worker does to the super cluster: no object with new
\* protected keys, and no other value of them.
KeysKept(p, q) == p.uid = q.uid /\ SameKeys(q, p)
SuperKept ==
    \A q \in super' : \/ \E p \in super : KeysKept(p, q)
                      \/ (\A p \in super : p.uid # q.uid) /\ Clean(q)

LEMMA DwsCallVersions ==
    ASSUME KeysInv, NEW w \in dws, DwsCall(w)
    PROVE  (\E n : VersionStep(n)) /\ SuperKept
    <1> DEFINE c == w.call
    <1>0. /\ dws' \subseteq dws /\ UidLeft(c)
          /\ (Accepts(super, c) /\ super' = After(super, c)) \/ super' = super
          /\ UNCHANGED <<kind, tenant, tenantCache, superCache, uws, patrol>>
      BY DEF DwsCall, caches
    <1>1. c.obj \in Copies /\ Proper(c.obj)
      BY DEF Copies, KeysInv, ProperInv
    <1>2. ASSUME super' \subseteq super
          PROVE  VersionStep(NoObj) /\ SuperKept
      <2>1. VersionStep(NoObj)
        BY <1>0, <1>2, QuietStep, CachesInCopies
      <2> QED BY <1>2, <2>1 DEF SuperKept, KeysKept, SameKeys
    <1>3. CASE Creates(c) /\ super' = After(super, c)
      <2>1. PICK b : /\ NewVersion(b) /\ ~InUse(b.uid) /\ b.meta = c.obj.meta
                     /\ After(super, c) = super \cup {b} \/ After(super, c) = super
        BY <1>0, <1>1, <1>3, NewObjectIs
      <2>2. \A o \in tenant \cup super : o.uid # b.uid
        BY <2>1, CopiesUsed, CachesInCopies
      <2>3. CASE super' = super
        BY <1>2, <2>3
      <2>4. CASE super' = super \cup {b}
        <3>1. VersionStep(b)
          BY <1>0, <2>1, <2>2, <2>4, SuperVersion
        <3>2. Clean(b)
          BY <1>3, <2>1 DEF Clean, KeysInv, CleanInv
        <3> QED BY <2>2, <2>4, <3>1, <3>2 DEF SuperKept, KeysKept, SameKeys
      <2> QED BY <1>3, <2>1, <2>3, <2>4
    <1>4. CASE c.op = "update" /\ Accepts(super, c) /\ super' = After(super, c)
      <2>1. PICK b : /\ NewVersion(b) /\ b.uid = c.obj.uid /\ b.meta = c.obj.meta
                     /\ \E x \in super : x.uid = b.uid /\ SameKeys(b, x)
                     /\ After(super, c) = {o \in super : o.uid # b.uid} \cup {b}
        BY <1>1, <1>4, UpdateVersion
      <2>2. \A v \in tenant : v.uid # b.uid
        BY <2>1 DEF KeysInv, ServerInv
      <2>3. super' = {o \in super : o.uid # b.uid} \cup {b}
        BY <1>4, <2>1
      <2>4. VersionStep(b)
        BY <1>0, <2>1, <2>2, <2>3, SuperVersion
      <2> QED BY <2>1, <2>3, <2>4 DEF SuperKept, KeysKept, SameKeys
    <1>5. CASE (c.op = "delete" \/ c.op = "collect") /\ super' = After(super, c)
      <2>1. super' \subseteq super
        BY <1>5, DeletedIs
      <2> QED BY <1>2, <2>1
    <1>6. CASE super' = super
      BY <1>2, <1>6
    <1> QED BY <1>0, <1>3, <1>4, <1>5, <1>6 DEF KeysInv, StagesInv, Creates

LEMMA NodeMapVersions ==
    ASSUME KeysInv, NEW w \in dws, NodeReconcileMap(w)
    PROVE  FALSE
    BY DEF NodeReconcileMap, KeysInv, StagesInv

LEMMA PatrolDeletesVersions ==
    ASSUME KeysInv, PatrolDeletes
    PROVE  VersionStep(NoObj) /\ SuperKept
    <1>1. PatrolKeeps(patrol')
      BY IdleKeeps DEF PatrolDeletes, PatrolCall, ClassChecked, Checked
    <1>2. patrol.pc = "super" /\ patrol.call.op = "delete"
      BY DEF PatrolDeletes, PatrolCall, KeysInv, StagesInv
    <1>3. super' = After(super, patrol.call) \/ super' = super
      BY <1>2 DEF PatrolDeletes, PatrolCall
    <1>4. super' \subseteq super
      BY <1>2, <1>3, DeletedIs
    <1>5. UNCHANGED <<kind, tenant, tenantCache, superCache, dws, uws>>
      BY <1>2 DEF PatrolDeletes, PatrolCall, caches
    <1>6. VersionStep(NoObj)
      BY <1>1, <1>4, <1>5, QuietStep, CachesInCopies
    <1> QED BY <1>4, <1>6 DEF SuperKept, KeysKept, SameKeys

-----------------------------------------------------------------------------
(* The upward workers, with versions *)

LEMMA SuperStays ==
    ASSUME super' = super
    PROVE  SuperKept
    BY DEF SuperKept, KeysKept, SameKeys

LEMMA RetryVersions ==
    ASSUME KeysInv, UwsRetry
    PROVE  VersionStep(NoObj) /\ SuperKept
    <1>1. UNCHANGED <<kind, tenant, super, tenantCache, superCache, dws, patrol>> /\ uws' = Idle
      BY DEF UwsRetry, objects, caches
    <1> QED BY <1>1, IdleKeeps, QuietStep, CachesInCopies, SuperStays

LEMMA TenantCallVersions ==
    ASSUME KeysInv, NEW x, UwsKeeps(x), uws.call.op = "update", UwsTenantCall(x)
    PROVE  (\E n : VersionStep(n)) /\ SuperKept
    <1>1. CASE UwsRetry
      BY <1>1, RetryVersions
    <1>2. CASE /\ Accepts(tenant, uws.call) /\ tenant' = After(tenant, uws.call) /\ uws' = x
               /\ UNCHANGED <<kind, super, caches, related, queues, dws, patrol, events>>
      <2>1. uws.call.obj \in Copies
        BY DEF Copies
      <2>2. PICK b : /\ NewVersion(b)
                     /\ \E t \in tenant : t.uid = b.uid /\ SameKeys(b, t)
                     /\ After(tenant, uws.call) = {o \in tenant : o.uid # b.uid} \cup {b}
        BY <1>2, <2>1, UpdateVersion
      <2>3. \A p \in super : p.uid # b.uid
        BY <2>2 DEF KeysInv, ServerInv
      <2>4. VersionStep(b)
        BY <1>2, <2>2, <2>3, TenantVersion DEF caches
      <2> QED BY <1>2, <2>4, SuperStays
    <1> QED BY <1>1, <1>2 DEF UwsTenantCall

LEMMA UpdateAtKeeps ==
    ASSUME NEW pc \in {"tenant", "meta", "super"}, NEW o, Faithful(o), NEW p, Faithful(p)
    PROVE  UwsKeeps(At(pc, Update(o), p))
    BY AtFields, CallFields DEF UwsKeeps, Update

LEMMA UwsVersions ==
    ASSUME KeysInv, Uws
    PROVE  (\E n : VersionStep(n)) /\ SuperKept
    <1>0. /\ uws.p \in Copies /\ uws.call.obj \in Copies
          /\ Faithful(uws.p) /\ Faithful(uws.call.obj)
      BY CopyIsFaithful DEF Copies
    <1>1. CASE UwsDone
      BY <1>1, IdleKeeps, TenantCallVersions DEF UwsDone, KeysInv, StagesInv
    <1>2. CASE ServiceUwsSuper
      <2>1. uws.pc = "super" /\ uws.call.op = "update"
        BY <1>2 DEF ServiceUwsSuper, KeysInv, StagesInv
      <2>2. CASE UwsRetry
        BY <2>2, RetryVersions
      <2>3. CASE /\ Accepts(super, uws.call) /\ super' = After(super, uws.call) /\ uws' = Idle
                 /\ UNCHANGED <<kind, tenant, caches, related, queues, dws, patrol, events>>
        <3>1. PICK b : /\ NewVersion(b)
                       /\ \E x \in super : x.uid = b.uid /\ SameKeys(b, x)
                       /\ After(super, uws.call) = {o \in super : o.uid # b.uid} \cup {b}
          BY <1>0, <2>1, <2>3, UpdateVersion
        <3>2. \A v \in tenant : v.uid # b.uid
          BY <3>1 DEF KeysInv, ServerInv
        <3>3. super' = {o \in super : o.uid # b.uid} \cup {b}
          BY <2>3, <3>1
        <3>4. VersionStep(b)
          BY <2>3, <3>1, <3>2, <3>3, IdleKeeps, SuperVersion DEF caches
        <3> QED BY <3>1, <3>3, <3>4 DEF SuperKept, KeysKept, SameKeys
      <2> QED BY <1>2, <2>2, <2>3 DEF ServiceUwsSuper
    <1>3. CASE UwsMeta
      <2>1. UwsKeeps(At("get", Nothing, uws.p))
        BY <1>0, AtFields, CallFields, NoObjFaithful DEF UwsKeeps, Nothing
      <2> QED BY <1>3, <2>1, IdleKeeps, TenantCallVersions DEF UwsMeta, KeysInv, StagesInv
    <1>4. CASE UwsGet
      <2>1. CASE UwsRetry
        BY <2>1, RetryVersions
      <2>2. CASE /\ tenant # {}
                 /\ uws' = At("tenant", Update([The(tenant) EXCEPT !.status = uws.p.status]),
                              NoObj)
                 /\ UNCHANGED <<kind, objects, caches, related, queues, dws, patrol, events>>
        <3> DEFINE o == [The(tenant) EXCEPT !.status = uws.p.status]
        <3> HIDE DEF o
        <3>1. Faithful(The(tenant))
          BY <2>2, TheOne, CachesInCopies, CopyIsFaithful
        <3>2. Faithful(o)
          BY <3>1, FaithfulExcept, Zenon DEF o
        <3>3. UwsKeeps(At("tenant", Update(o), NoObj))
          BY <3>2, NoObjFaithful, UpdateAtKeeps
        <3>4. uws' = At("tenant", Update(o), NoObj)
          BY <2>2 DEF o
        <3>5. UNCHANGED <<kind, tenant, super, tenantCache, superCache, dws, patrol>>
          BY <2>2 DEF objects, caches
        <3> QED BY <3>3, <3>4, <3>5, QuietStep, CachesInCopies, SuperStays
      <2> QED BY <1>4, <2>1, <2>2 DEF UwsGet
    <1>5. ~UpwardCall
      BY DEF UpwardCall, updateClusterNodeForget, UpdateNode, KeysInv, StagesInv
    <1> QED BY <1>1, <1>2, <1>3, <1>4, <1>5 DEF Uws, UwsCall

LEMMA BackPopulatesVersions ==
    ASSUME KeysInv, NEW x, UwsKeeps(x), BackPopulates(x), UNCHANGED tenantCache,
           \A o \in superCache' : o \in Copies \/ Faithful(o)
    PROVE  VersionStep(NoObj)
    <1>1. UNCHANGED <<kind, tenant, super, dws, patrol>> /\ uws' = x
      BY DEF BackPopulates, objects
    <1> QED BY <1>1, QuietStep, CachesInCopies

LEMMA DoneVersions ==
    ASSUME KeysInv, BackPopulates(Idle), UNCHANGED caches
    PROVE  VersionStep(NoObj)
    BY IdleKeeps, BackPopulatesVersions, CachesInCopies DEF caches

LEMMA OwnerVersions ==
    ASSUME KeysInv, UNCHANGED caches, MetaThenStatus(The(superCache), The(tenantCache))
    PROVE  VersionStep(NoObj)
    <1> DEFINE p == The(superCache)
               v == The(tenantCache)
               new == CheckUWObjectMetaEquality(p, v)
               old == [v EXCEPT !.status = p.status]
    <1>1. Faithful(p) /\ Faithful(new) /\ Faithful(old)
      BY CacheFaithful, FaithfulUpward
    <1>2. /\ UwsKeeps(At("meta", Update(new), p)) /\ UwsKeeps(At("tenant", Update(old), NoObj))
          /\ UwsKeeps(Idle)
      BY <1>1, IdleKeeps, NoObjFaithful, UpdateAtKeeps
    <1>3. PICK x : /\ BackPopulates(x)
                   /\ x \in {At("meta", Update(new), p), At("tenant", Update(old), NoObj), Idle}
      <2> DEFINE next == CASE new # v -> At("meta", Update(new), p)
                           [] new = v /\ p.status # v.status -> At("tenant", Update(old), NoObj)
                           [] OTHER -> Idle
      <2>1. BackPopulates(next)
        BY Zenon DEF MetaThenStatus
      <2> HIDE DEF new, old
      <2>2. next \in {At("meta", Update(new), p), At("tenant", Update(old), NoObj), Idle}
        OBVIOUS
      <2> HIDE DEF next
      <2> QED BY <2>1, <2>2
    <1> HIDE DEF new, old, p, v
    <1>4. UwsKeeps(x)
      BY <1>2, <1>3
    <1>5. UNCHANGED tenantCache /\ \A o \in superCache' : o \in Copies
      BY CachesInCopies DEF caches
    <1> QED BY <1>3, <1>4, <1>5, BackPopulatesVersions

LEMMA ServiceUwsVersions ==
    ASSUME KeysInv, ServiceBackPopulate
    PROVE  VersionStep(NoObj)
    <1> DEFINE p == The(superCache)
               m == [p.meta EXCEPT !["clusterIP"] = 2]
               annotated == [p EXCEPT !.meta = m]
    <1>1. CASE /\ superCache' = {annotated} /\ UNCHANGED tenantCache
               /\ BackPopulates(At("super", Update(annotated), NoObj))
      <2>1. Faithful(p) /\ DOMAIN p.meta = Keys
        BY CacheFaithful DEF Faithful, Proper
      <2>2. DOMAIN m = Keys
        BY <2>1, Zenon
      <2>3. \A k \in ProtectedKeys : k # "clusterIP"
        BY DEF ProtectedKeys
      <2>4. \A k \in ProtectedKeys : k \in Keys
        BY DEF ProtectedKeys, Keys
      <2>5. \A k \in ProtectedKeys : m[k] = p.meta[k]
        BY <2>1, <2>3, <2>4, Zenon
      <2> HIDE DEF m
      <2>6. Faithful(annotated)
        BY <2>1, <2>2, <2>5, FaithfulMeta, Zenon
      <2> HIDE DEF annotated
      <2>7. UwsKeeps(At("super", Update(annotated), NoObj))
        BY <2>6, NoObjFaithful, UpdateAtKeeps
      <2> QED BY <1>1, <2>6, <2>7, BackPopulatesVersions
    <1>2. CASE UNCHANGED caches /\ BackPopulates(Idle)
      BY <1>2, DoneVersions
    <1>3. CASE UNCHANGED caches /\ MetaThenStatus(p, The(tenantCache))
      BY <1>3, OwnerVersions
    <1>4. \/ /\ superCache' = {annotated} /\ UNCHANGED tenantCache
             /\ BackPopulates(At("super", Update(annotated), NoObj))
          \/ UNCHANGED caches /\ BackPopulates(Idle)
          \/ UNCHANGED caches /\ MetaThenStatus(p, The(tenantCache))
      BY Zenon DEF ServiceBackPopulate, caches
    <1> QED BY <1>1, <1>2, <1>3, <1>4

LEMMA PVCUwsVersions ==
    ASSUME KeysInv, PVCBackPopulate
    PROVE  VersionStep(NoObj)
    <1> DEFINE p == The(superCache)
               v == The(tenantCache)
               new == CheckUWPVCStatusEquality(p, v)
    <1>1. CASE BackPopulates(Idle) /\ UNCHANGED caches
      BY <1>1, DoneVersions
    <1>2. CASE BackPopulates(At("tenant", Update(new), NoObj)) /\ UNCHANGED caches
      <2>1. Faithful(new)
        BY CacheFaithful, FaithfulUpward
      <2> HIDE DEF new
      <2>2. UwsKeeps(At("tenant", Update(new), NoObj))
        BY <2>1, NoObjFaithful, UpdateAtKeeps
      <2> QED BY <1>2, <2>2, BackPopulatesVersions, CachesInCopies DEF caches
    <1> HIDE DEF new
    <1> QED BY <1>1, <1>2 DEF PVCBackPopulate, new

LEMMA BackPopulateVersions ==
    ASSUME KeysInv, BackPopulate
    PROVE  VersionStep(NoObj)
    BY ServiceUwsVersions, DoneVersions, OwnerVersions, PVCUwsVersions
       DEF BackPopulate, IngressBackPopulate

-----------------------------------------------------------------------------
(* Everybody else, with versions *)

LEMMA ProperKey ==
    ASSUME NEW q, Proper(q), NEW k, NEW x
    PROVE  LET r == [q EXCEPT !.meta[k] = x]
           IN  Proper(r) /\ r.uid = q.uid /\ r.rv = q.rv
    <1> DEFINE m == [q.meta EXCEPT ![k] = x]
    <1>1. DOMAIN m = Keys
      BY Zenon DEF Proper
    <1>2. [q EXCEPT !.meta[k] = x] = [q EXCEPT !.meta = m]
      BY Zenon
    <1> HIDE DEF m
    <1> QED BY <1>1, <1>2, ProperMeta, Zenon

LEMMA EditsProper ==
    ASSUME NEW o, Proper(o), NEW value, NEW q \in Edits(o, value)
    PROVE  Proper(q) /\ q.uid = o.uid /\ q.rv = o.rv
    <1>1. q = [o EXCEPT !.spec = 1 - o.spec]
          \/ \E k \in WrittenKeys : q = [o EXCEPT !.meta[k] = IF o.meta[k] = value THEN 0 ELSE value]
      BY Zenon DEF Edits
    <1>2. CASE q = [o EXCEPT !.spec = 1 - o.spec]
      BY <1>2, ProperSpec, Zenon
    <1>3. ASSUME NEW k, q = [o EXCEPT !.meta[k] = IF o.meta[k] = value THEN 0 ELSE value]
          PROVE  Proper(q) /\ q.uid = o.uid /\ q.rv = o.rv
      <2> DEFINE x == IF o.meta[k] = value THEN 0 ELSE value
      <2>1. q = [o EXCEPT !.meta[k] = x]
        BY <1>3
      <2> HIDE DEF x
      <2> QED BY <2>1, ProperKey, Zenon
    <1> QED BY <1>1, <1>2, <1>3

LEMMA NewObjectsProper ==
    ASSUME NEW value, NEW o \in NewObjects(value)
    PROVE  Proper(o)
    <1>0. Proper(NoObj)
      BY NoObjFaithful DEF Faithful
    <1>1. o = NoObj \/ \E k \in WrittenKeys : o = [NoObj EXCEPT !.meta[k] = value]
      BY Zenon DEF NewObjects
    <1>2. ASSUME NEW k, o = [NoObj EXCEPT !.meta[k] = value]
          PROVE  Proper(o)
      BY <1>0, <1>2, ProperKey, Zenon
    <1> QED BY <1>0, <1>1, <1>2

LEMMA WrittenVersion ==
    ASSUME KeysInv, NEW S, S \subseteq tenant \cup super, NEW x \in S,
           NEW o, Proper(o), o.uid = x.uid, o.rv = x.rv
    PROVE  \E b : /\ NewVersion(b) /\ b.uid = x.uid
                  /\ Written(S, o) = {y \in S : y.uid # b.uid} \cup {b}
    <1>1. Update(o).op = "update" /\ Update(o).obj = o
      BY CallFields DEF Update
    <1>2. PICK b : /\ Proper(b) /\ b.uid = o.uid /\ b.rv = o.rv + 1
                   /\ Written(S, o) = {y \in S : y.uid # o.uid} \cup {b}
      BY <1>1, NextVersionIs DEF Written
    <1>3. NewVersion(b)
      BY <1>2 DEF NewVersion, KeysInv, ServerInv
    <1> QED BY <1>2, <1>3

LEMMA CreateVersions ==
    ASSUME KeysInv, NEW o, Proper(o), UidLeft(Create(o))
    PROVE  \E b : NewVersion(b) /\ ~InUse(b.uid) /\ After({}, Create(o)) \subseteq {b}
    <1>1. Creates(Create(o)) /\ Create(o).obj = o
      BY CallFields DEF Create, Creates
    <1>2. PICK b : /\ NewVersion(b) /\ ~InUse(b.uid)
                   /\ After({}, Create(o)) = {} \cup {b} \/ After({}, Create(o)) = {}
      BY <1>1, NewObjectIs
    <1> QED BY <1>2

LEMMA CreateVVersions ==
    ASSUME KeysInv, CreateV
    PROVE  \E n : VersionStep(n)
    <1>1. PICK o \in NewObjects(1) : UidLeft(Create(o)) /\ tenant' = After({}, Create(o))
      BY DEF CreateV
    <1>2. PICK b : NewVersion(b) /\ ~InUse(b.uid) /\ tenant' \subseteq {b}
      BY <1>1, NewObjectsProper, CreateVersions
    <1>3. UNCHANGED <<kind, super, tenantCache, superCache, dws, uws, patrol>>
      BY DEF CreateV, others, caches, workers
    <1>4. \A p \in super : p.uid # b.uid
      BY <1>2, CopiesUsed, CachesInCopies
    <1>5. VersionStep(b)
      BY <1>2, <1>3, <1>4, TenantVersion
    <1> QED BY <1>5

LEMMA DefaultPVersions ==
    ASSUME KeysInv, DefaultP
    PROVE  \E n : VersionStep(n)
    <1>1. UidLeft(Create(NoObj)) /\ super' = After({}, Create(NoObj))
      BY DEF DefaultP
    <1>2. PICK b : NewVersion(b) /\ ~InUse(b.uid) /\ super' \subseteq {b}
      BY <1>1, NoObjFaithful, CreateVersions DEF Faithful
    <1>3. UNCHANGED <<kind, tenant, tenantCache, superCache, dws, uws, patrol>>
      BY DEF DefaultP, others, caches, workers
    <1>4. \A v \in tenant : v.uid # b.uid
      BY <1>2, CopiesUsed, CachesInCopies
    <1>5. VersionStep(b)
      BY <1>2, <1>3, <1>4, SuperVersion
    <1> QED BY <1>5

LEMMA EditVVersions ==
    ASSUME KeysInv, EditV
    PROVE  \E n : VersionStep(n)
    <1>0. PICK v \in tenant : \E o \in Edits(v, 1) : tenant' = Written(tenant, o)
      BY DEF EditV
    <1>1. PICK o \in Edits(v, 1) : tenant' = Written(tenant, o)
      BY <1>0
    <1>2. Proper(v)
      BY CachesInCopies DEF KeysInv, ProperInv
    <1>3. Proper(o) /\ o.uid = v.uid /\ o.rv = v.rv
      BY <1>2, EditsProper
    <1>4. PICK b : /\ NewVersion(b) /\ b.uid = v.uid
                   /\ tenant' = {y \in tenant : y.uid # b.uid} \cup {b}
      BY <1>1, <1>3, WrittenVersion
    <1>5. UNCHANGED <<kind, super, tenantCache, superCache, dws, uws, patrol>>
      BY DEF EditV, others, caches, workers
    <1>6. \A p \in super : p.uid # b.uid
      BY <1>4 DEF KeysInv, ServerInv
    <1>7. VersionStep(b)
      BY <1>4, <1>5, <1>6, TenantVersion
    <1> QED BY <1>7

LEMMA EditPVersions ==
    ASSUME KeysInv, EditP
    PROVE  \E n : VersionStep(n)
    <1>1. PICK p \in super :
             \/ \E o \in Edits(p, 2) : super' = Written(super, o)
             \/ super' = Written(super, [p EXCEPT !.status = 1 - p.status])
      BY Zenon DEF EditP
    <1>2. Proper(p)
      BY CachesInCopies DEF KeysInv, ProperInv
    <1>3. PICK o : Proper(o) /\ o.uid = p.uid /\ o.rv = p.rv /\ super' = Written(super, o)
      <2>1. CASE \E o \in Edits(p, 2) : super' = Written(super, o)
        BY <1>2, <2>1, EditsProper
      <2>2. CASE super' = Written(super, [p EXCEPT !.status = 1 - p.status])
        <3> DEFINE o == [p EXCEPT !.status = 1 - p.status]
        <3> HIDE DEF o
        <3>1. Proper(o) /\ o.uid = p.uid /\ o.rv = p.rv
          BY <1>2, ProperStatus, Zenon DEF o
        <3>2. super' = Written(super, o)
          BY <2>2, Zenon DEF o
        <3> QED BY <3>1, <3>2
      <2> QED BY <1>1, <2>1, <2>2, Zenon
    <1>4. PICK b : /\ NewVersion(b) /\ b.uid = p.uid
                   /\ super' = {y \in super : y.uid # b.uid} \cup {b}
      BY <1>3, WrittenVersion
    <1>5. UNCHANGED <<kind, tenant, tenantCache, superCache, dws, uws, patrol>>
      BY DEF EditP, others, caches, workers
    <1>6. \A v \in tenant : v.uid # b.uid
      BY <1>4 DEF KeysInv, ServerInv
    <1>7. VersionStep(b)
      BY <1>4, <1>5, <1>6, SuperVersion
    <1> QED BY <1>7

LEMMA DownwardApart == \A k \in DownwardKinds : k \notin UpwardKinds /\ k \notin ClassKinds
    BY DEF DownwardKinds, DifferKinds, UpwardKinds, ClassKinds

LEMMA OthersVersions ==
    ASSUME KeysInv, kind \in DownwardKinds, Others
    PROVE  \E n : VersionStep(n)
    <1>1. CASE DeleteV \/ DeleteP \/ RelatedChanges
      <2>1. /\ UNCHANGED <<kind, tenantCache, superCache, dws, uws, patrol>>
            /\ tenant' \subseteq tenant /\ super' \subseteq super
        BY <1>1 DEF DeleteV, DeleteP, RelatedChanges, others, objects, caches, workers
      <2> QED BY <2>1, QuietStep, CachesInCopies
    <1>2. ~CreateP /\ ~Heartbeat
      BY DownwardApart DEF CreateP, Heartbeat, UpwardKinds
    <1>3. CASE DeleteVC
      <2>1. /\ UNCHANGED <<kind, super, tenantCache, superCache, dws, uws, patrol>>
            /\ tenant' = {}
        BY <1>3 DEF DeleteVC, others, caches, workers
      <2> QED BY <2>1, QuietStep, CachesInCopies
    <1> QED BY <1>1, <1>2, <1>3, CreateVVersions, EditVVersions, DefaultPVersions, EditPVersions
            DEF Others

LEMMA InformersVersions ==
    ASSUME KeysInv, SeeV \/ SeeP \/ Restart \/ AddCluster \/ VCFails \/ VCGone
    PROVE  VersionStep(NoObj)
    <1>1. /\ UNCHANGED <<kind, tenant, super>>
          /\ tenantCache' \cup superCache' \subseteq Copies
          /\ dws' \subseteq dws /\ uws' \in {uws, Idle} /\ patrol' \in {patrol, Idle}
      BY CachesInCopies
         DEF SeeV, SeeP, Restart, AddCluster, VCFails, VCGone, removeCluster, objects, workers
    <1> QED BY <1>1, IdleKeeps, QuietStep

LEMMA DropVersions ==
    ASSUME KeysInv, NEW u, Drop(u)
    PROVE  VersionStep(NoObj)
    BY QuietStep, CachesInCopies DEF Drop, objects, caches, workers

LEMMA FailuresVersions ==
    ASSUME KeysInv, Failures
    PROVE  VersionStep(NoObj)
    <1>1. CASE UwsFails
      BY <1>1, RetryVersions DEF UwsFails
    <1>2. ~UpdateNodeFails
      BY DEF UpdateNodeFails, KeysInv, StagesInv
    <1>3. CASE (\E w \in dws : DwsFails(w)) \/ PatrolFails \/ GiveUp
      <2>1. /\ UNCHANGED <<kind, tenant, super, tenantCache, superCache, uws>>
            /\ dws' \subseteq dws /\ patrol' \in {patrol, Idle}
        BY <1>3 DEF DwsFails, PatrolFails, GiveUp, objects, caches, workers
      <2> QED BY <2>1, IdleKeeps, QuietStep, CachesInCopies
    <1> QED BY <1>1, <1>2, <1>3 DEF Failures

LEMMA KeysStep ==
    ASSUME KeysInv, kind \in DownwardKinds, [Next]_vars
    PROVE  KeysInv'
    <1>1. CASE Next
      <2>1. ASSUME NEW u \in Uid, NodeReconcile(u)
            PROVE  FALSE
        BY <2>1, DownwardApart DEF NodeReconcile, UpwardKinds
      <2>2. ASSUME NEW u \in Uid, Dws(u)
            PROVE  \E n : VersionStep(n)
        BY <2>2, DwsCallVersions, NodeMapVersions DEF Dws
      <2>3. ~UpwardBackPopulate /\ ~UpwardPatrollerDo
        BY DownwardApart
           DEF UpwardBackPopulate, PVBackPopulate, StorageClassBackPopulate,
               PriorityClassBackPopulate, CRDBackPopulate, EventBackPopulate, NodeBackPopulate,
               UpwardPatrollerDo, ListPVs, PVPatrollerDo, checkStorageClassOfTenantCluster,
               StorageClassPatrollerDo, checkPriorityClassOfTenantCluster,
               PriorityClassPatrollerDo, checkCRDOfTenantCluster, CRDPatrollerDo, UpwardKinds,
               ClassKinds
      <2>4. \E n : VersionStep(n)
        BY <1>1, <2>1, <2>2, <2>3, OthersVersions, InformersVersions, ReconcileVersions,
           BackPopulateVersions, UwsVersions, PatrollerVersions, PatrolDeletesVersions,
           FailuresVersions, DropVersions
           DEF Next, Patrols
      <2> QED BY <2>4, VersionStepKeeps
    <1>2. CASE UNCHANGED vars
      <2>1. VersionStep(NoObj)
        BY <1>2, QuietStep, CachesInCopies DEF vars, objects, caches, workers
      <2> QED BY <2>1, VersionStepKeeps
    <1> QED BY <1>1, <1>2

LEMMA InitKeys == Init => KeysInv
    <1> SUFFICES ASSUME Init
                 PROVE  KeysInv
      OBVIOUS
    <1>1. /\ Idle.p = NoObj /\ Idle.call = Nothing /\ Idle.pc = "idle"
          /\ Nothing.obj = NoObj /\ Nothing.op = "none"
      BY DEF Idle, Nothing, Call
    <1>2. Copies = {NoObj} /\ tenant = {} /\ super = {} /\ dws = {} /\ uws = Idle /\ patrol = Idle
      BY <1>1 DEF Init, Copies
    <1>3. Proper(NoObj)
      BY NoObjFaithful DEF Faithful
    <1>4. ProperInv /\ ServerInv /\ VersionInv /\ AgeInv /\ CleanInv
      BY <1>2, <1>3 DEF ProperInv, ServerInv, VersionInv, AgeInv, CleanInv, SameKeys
    <1>5. StagesInv
      BY <1>1, <1>2 DEF StagesInv
    <1> QED BY <1>4, <1>5 DEF KeysInv

\* In every copy that a worker, a cache or a patrol has of an object, UID and resource
\* version tell what the labels and annotations of the super cluster were: an update that
\* the API server accepts cannot change them.
THEOREM VersionsAgree == Spec => [](kind \in DownwardKinds => KeysInv)
    <1>1. Init => (kind \in DownwardKinds => KeysInv)
      BY InitKeys
    <1>2. (kind \in DownwardKinds => KeysInv) /\ [Next]_vars
              => (kind \in DownwardKinds => KeysInv)'
      BY KeysStep, KindKept
    <1> QED BY <1>1, <1>2, PTL DEF Spec

\* The syncer never changes or removes a label or an annotation that belongs to the super
\* cluster, nor does it create an object with one: whatever the versions of the copies
\* that it works with (checkDWKVEquality, CleanOpaqueKeys and the uws.go of services).
THEOREM SuperKeysKept == Spec => OpaqueKept
    <1> DEFINE Kept == SyncerSteps /\ kind \in DownwardKinds =>
                 \A q \in super' : \A k \in ProtectedKeys :
                     \/ \E p \in super : p.uid = q.uid /\ q.meta[k] = p.meta[k]
                     \/ (\A p \in super : p.uid # q.uid) /\ q.meta[k] = 0
    <1>1. ASSUME kind \in DownwardKinds => KeysInv
          PROVE  Kept
      <2>1. SUFFICES ASSUME SyncerSteps, kind \in DownwardKinds
                     PROVE  SuperKept
        BY DEF SuperKept, KeysKept, SameKeys, Clean
      <2> QED BY <1>1, <2>1, DwsCallVersions, UwsVersions, PatrolDeletesVersions DEF SyncerSteps
    <1>2. (kind \in DownwardKinds => KeysInv) => Kept
      BY <1>1
    <1> QED BY <1>2, VersionsAgree, PTL DEF OpaqueKept
=============================================================================
