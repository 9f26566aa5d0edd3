------------------------------ MODULE SyncState ------------------------------
(***************************************************************************)
(* What the resource syncers of virtualcluster/pkg/syncer/resources have   *)
(* in common: one object name on the tenant's side and its counterpart in  *)
(* the super cluster, the informer caches that lag behind the two API      *)
(* servers, the downward queue (mccontroller) and the upward queue         *)
(* (uwcontroller) with their workers, and the patroller.  A worker reads   *)
(* copies from the caches, decides on a call, and makes the call later.    *)
(*                                                                         *)
(* kind is the kind of the object, chosen at the start.  Each side is the  *)
(* set of the objects of that name: one at most, but for the secrets of    *)
(* service account tokens, which have generated names in the super         *)
(* cluster.                                                                *)
(***************************************************************************)
EXTENDS Conversion, FiniteSets

CONSTANTS Kinds,      \* the kinds of object to look at
          MaxUid,     \* bound: UIDs that are told apart at any one time
          MaxCopies,  \* bound: secrets with a generated name in the super cluster
          MaxEvents   \* bound, by kind: what users and other controllers do on both sides,
                      \* failed calls, requests given up and restarts

ASSUME BoundAssumption ==
    MaxUid \in Nat \ {0} /\ MaxCopies \in Nat \ {0} /\ MaxEvents \in [Kinds -> Nat]

VARIABLES
    kind,                     \* the kind of the object
    tenant, super,            \* the objects in the two API servers
    tenantCache, superCache,  \* the copies in the syncer's informers
    loaded,                   \* is the tenant registered, and has its cache been synced?
    related,                  \* is the other object there that the kind depends on?
    requests,                 \* the downward queue; a request carries a UID
    upward,                   \* is the object's key in the upward queue?
    dws, uws, patrol,         \* downward workers, upward worker and patroller
    givenUp,                  \* was a request or key given up (MaxReconcileRetryAttempts)?
    events                    \* events so far

objects == <<tenant, super>>
caches == <<tenantCache, superCache, loaded>>
queues == <<requests, upward, givenUp>>
workers == <<dws, uws, patrol>>
vars == <<kind, objects, caches, related, queues, workers, events>>

Uid == 1..MaxUid
Obj == [uid : 0..MaxUid, ref : 0..MaxUid, rv : Nat, spec : 0..1, status : 0..1, meta : KV]
NoObj == [uid |-> 0, ref |-> 0, rv |-> 0, spec |-> 0, status |-> 0, meta |-> NoKeys]
The(objs) == IF objs = {} THEN NoObj ELSE CHOOSE o \in objs : TRUE
Exists(o) == o # NoObj

-----------------------------------------------------------------------------
(* Calls of an API server.  An update needs the UID and the version that    *)
(* the server has.  A deletion may have a UID as precondition (0: none);    *)
(* "delete" takes a missing object for success, "remove" does not;          *)
(* "collect" deletes the objects with the label LabelSecretUID; "ensure" is *)
(* a creation that takes an object that exists already for success.         *)
(* patchStatus and patchSpec change one part of whatever has the name.      *)

Call(op, obj, uid) == [op |-> op, obj |-> obj, uid |-> uid]
Nothing == Call("none", NoObj, 0)
Failure == Call("fail", NoObj, 0)
Create(o) == Call("create", o, 0)
Ensure(o) == Call("ensure", o, 0)
Update(o) == Call("update", o, 0)
PatchStatus(o) == Call("patchStatus", o, 0)
PatchSpec(o) == Call("patchSpec", o, 0)
DeleteName == Call("delete", NoObj, 0)
DeleteUid(o) == Call("delete", NoObj, o.uid)
RemoveName == Call("remove", NoObj, 0)
Collect(u) == Call("collect", NoObj, u)
UpdateIfChanged(old, new) == IF new = old THEN Nothing ELSE Update(new)

Idle == [pc |-> "idle", call |-> Nothing, p |-> NoObj]
At(pc, call, p) == [pc |-> pc, call |-> call, p |-> p]

Copies == tenant \cup super \cup tenantCache \cup superCache \cup {uws.p, patrol.p}
          \cup {uws.call.obj, patrol.call.obj} \cup {w.call.obj : w \in dws}
InUse(i) ==
    \/ i \in requests \/ \E w \in dws : i \in {w.req, w.call.uid}
    \/ i \in {uws.call.uid, patrol.call.uid}
    \/ \E o \in Copies : i \in {o.uid, o.ref}
Fresh == CHOOSE i \in Uid : ~InUse(i)
\* Bound: a creation waits until there is a UID that nobody has.
UidLeft(c) == c.op \in {"create", "ensure"} => \E i \in Uid : ~InUse(i)

Accepts(objs, c) ==
    CASE c.op = "create" -> objs = {} \/ kind = "satoken"
      [] c.op = "update" -> \E o \in objs : o.uid = c.obj.uid /\ o.rv = c.obj.rv
      [] c.op = "delete" -> objs = {} \/ c.uid = 0 \/ \E o \in objs : o.uid = c.uid
      [] c.op \in {"remove", "patchStatus", "patchSpec"} -> objs # {}
      [] c.op \in {"collect", "ensure"} -> TRUE
Patched(o, new) == IF new = o THEN o ELSE [new EXCEPT !.rv = o.rv + 1]
After(objs, c) ==
    CASE c.op = "create" \/ (c.op = "ensure" /\ objs = {}) ->
             objs \cup {[c.obj EXCEPT !.uid = Fresh, !.rv = 1]}
      [] c.op = "ensure" /\ objs # {} -> objs
      [] c.op = "update" -> {o \in objs : o.uid # c.obj.uid}
                            \cup {[c.obj EXCEPT !.rv = c.obj.rv + 1]}
      [] c.op \in {"delete", "remove"} -> {o \in objs : c.uid \notin {0, o.uid}}
      [] c.op = "collect" -> {o \in objs : o.ref # c.uid}
      [] c.op = "patchStatus" -> {Patched(o, [o EXCEPT !.status = c.obj.status]) : o \in objs}
      [] c.op = "patchSpec" -> {Patched(o, [o EXCEPT !.spec = c.obj.spec]) : o \in objs}

\* What somebody else does on a side.
Written(objs, o) == After(objs, Update(o))

Event == events < MaxEvents[kind] /\ events' = events + 1

-----------------------------------------------------------------------------
(* Downward: one worker per request. *)

\* The worker of request u knows what to do.  After a failure the request stays in the
\* queue, and so it does until the tenant's cache has been synced.
Decide(u, call) ==
    /\ loaded /\ u \in requests /\ call.op # "fail" /\ \A w \in dws : w.req # u
    /\ requests' = requests \ {u}
    /\ dws' = dws \cup IF call = Nothing THEN {} ELSE {[req |-> u, call |-> call]}
    /\ UNCHANGED <<kind, objects, related, upward, givenUp, uws, patrol, events>>

\* Requests of a cluster that has been removed are dropped.
Drop(u) ==
    /\ ~loaded /\ u \in requests /\ requests' = requests \ {u}
    /\ UNCHANGED <<kind, objects, caches, related, upward, givenUp, workers, events>>

DwsCall(w) ==
    /\ w.call.op \notin {"map", "unmap"} /\ dws' = dws \ {w}
    /\ UidLeft(w.call)
    /\ kind = "satoken" /\ w.call.op = "create" => Cardinality(super) < MaxCopies
    /\ IF Accepts(super, w.call)
       THEN super' = After(super, w.call) /\ UNCHANGED requests
       ELSE requests' = requests \cup {w.req} /\ UNCHANGED super
    /\ UNCHANGED <<kind, tenant, caches, related, upward, givenUp, uws, patrol, events>>

DwsFails(w) ==
    /\ w.call.op \notin {"map", "unmap"} /\ Event
    /\ dws' = dws \ {w} /\ requests' = requests \cup {w.req}
    /\ UNCHANGED <<kind, objects, caches, related, upward, givenUp, uws, patrol>>

\* Requests and keys that keep failing are dropped.
GiveUp ==
    /\ Event /\ givenUp' = TRUE
    /\ \/ \E u \in requests : requests' = requests \ {u} /\ UNCHANGED upward
       \/ upward /\ upward' = FALSE /\ UNCHANGED requests
    /\ UNCHANGED <<kind, objects, caches, related, workers>>

(* Upward: BackPopulate of the object's key. *)

Take == upward /\ uws = Idle
\* The worker is done with the key, or goes on with a call.
BackPopulates(next) ==
    /\ upward' = FALSE /\ uws' = next
    /\ UNCHANGED <<kind, objects, related, requests, givenUp, dws, patrol, events>>
UwsRetry ==
    /\ uws' = Idle /\ upward' = TRUE
    /\ UNCHANGED <<kind, objects, caches, related, requests, givenUp, dws, patrol>>

\* The call of the upward worker in the tenant, after which it is at next.
UwsTenantCall(next) ==
    /\ UidLeft(uws.call)
    /\ IF Accepts(tenant, uws.call)
       THEN /\ tenant' = After(tenant, uws.call) /\ uws' = next
            /\ UNCHANGED <<kind, super, caches, related, queues, dws, patrol, events>>
       ELSE UwsRetry /\ UNCHANGED events

UwsFails == uws.pc \in {"tenant", "meta", "get", "super"} /\ UwsRetry /\ Event

(* The patroller.  A tenant that is not loaded when a round begins, or when *)
(* its objects are listed, is not in the round's knownClusterSet.           *)

Known == loaded /\ patrol.pc = "listed"
Listing == At(IF loaded THEN "listed" ELSE "unlisted", Nothing, The(superCache))
VList == IF Known THEN tenantCache ELSE {}

PatrolAt(next) ==
    patrol' = next /\ UNCHANGED <<kind, objects, caches, related, givenUp, dws, uws, events>>
Finds(next) == PatrolAt(next) /\ UNCHANGED <<requests, upward>>
RequeueObject(v, next) == PatrolAt(next) /\ requests' = requests \cup {v.uid} /\ UNCHANGED upward
AddToQueue(next) == PatrolAt(next) /\ upward' = TRUE /\ UNCHANGED requests

\* A deletion of the patrol: a failure is only logged.
PatrolCall(next) ==
    /\ patrol' = next
    /\ \/ /\ patrol.pc = "super" /\ UNCHANGED tenant
          /\ super' = IF Accepts(super, patrol.call) THEN After(super, patrol.call) ELSE super
       \/ /\ patrol.pc = "tenant" /\ UNCHANGED super
          /\ tenant' = IF Accepts(tenant, patrol.call) THEN After(tenant, patrol.call)
                       ELSE tenant
    /\ UNCHANGED <<kind, caches, related, queues, dws, uws, events>>

PatrolFails ==
    /\ patrol.pc \in {"super", "tenant"} /\ patrol' = Idle /\ Event
    /\ UNCHANGED <<kind, objects, caches, related, queues, dws, uws>>
=============================================================================
