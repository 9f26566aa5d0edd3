------------------------------ MODULE PlaneState ------------------------------
(***************************************************************************)
(* The objects that the controllers of tenant control planes share: one    *)
(* VirtualCluster, what its provisioner has made for it, and, with the     *)
(* provisioner "capi", the Cluster and the objects of its nested control   *)
(* plane.                                                                  *)
(*                                                                         *)
(* A copy of the VirtualCluster that was taken before its last change is   *)
(* in old; an update with such a copy is a conflict.                       *)
(***************************************************************************)
EXTENDS Naturals, FiniteSets, Sequences, TLC

CONSTANTS Flavours,  \* names of provisioners
          Hooks,     \* those with the webhook on
          Cuts,      \* bound: how many secrets may have been written when a call fails
          Failing,   \* bound: the components of a control plane that have outages
          Costs,     \* bound: by provisioner, the kinds of events that happen and what each costs
          Budget     \* bound: what all events may cost

ASSUME BoundAssumption ==
    /\ Flavours \subseteq {"native", "aliyun", "capi"} /\ Hooks \subseteq Flavours
    /\ Cuts \subseteq 0..6 /\ Budget \in Nat
    /\ \A f \in Flavours : \A kind \in DOMAIN Costs[f] : Costs[f][kind] \in Nat \ {0}

VARIABLES
    flavour,   \* the provisioner the manager was started with
    vc,        \* the VirtualCluster: [there, fin, deleting, status, labels, ann]
    seen,      \* the informer's copy of it
    old,       \* the outdated ones of the copies "seen" and "mem"
    w,         \* the worker: [pc, mem, retry, part, pki]
    version,   \* version of the ClusterVersion, 0 when it is not there
    plane,     \* native: [ns, secrets, sts]
    cloud,     \* aliyun: [state, ns, secret]
    hook,      \* the webhook: [on, bundle, cert]
    cluster,   \* capi: the Cluster, [there, deleting, infra, endpoint, paused]
    ncp,       \* its NestedControlPlane: [there, fin, deleting, init, ready]
    nested,    \* what its controllers have made: [secrets, manifests, svc, infra]
    parts,     \* NestedEtcd, ...: [there, owned, phase, sts]
    reads,     \* what the running reconcile of ncp has read: "ready" or "unready" parts, or "none"
    spent,     \* the cost of the events so far
    faults     \* kinds of events so far

vcVars == <<vc, seen, old, w, version, hook>>
nestedVars == <<cluster, ncp, nested, parts, reads>>
counts == <<spent, faults>>
vars == <<flavour, vcVars, plane, cloud, nestedVars, counts>>

Event(kind) ==
    /\ kind \in DOMAIN Costs[flavour] /\ spent + Costs[flavour][kind] <= Budget
    /\ spent' = spent + Costs[flavour][kind] /\ faults' = faults \cup {kind}
NoEvent == UNCHANGED counts

-----------------------------------------------------------------------------
(* The VirtualCluster and the API server. *)

NoStatus == [phase |-> "unset", retry |-> 0, note |-> "unset"]
Gone == [there |-> FALSE, fin |-> FALSE, deleting |-> FALSE, status |-> NoStatus,
         labels |-> [upgrade |-> FALSE, applied |-> 0], ann |-> {}]
NewVC == [Gone EXCEPT !.there = TRUE]
\* An object that is being deleted goes with its last finalizer.
Stored(v) == IF v.deleting /\ ~v.fin THEN Gone ELSE v

\* api/v1alpha1: a phase is not made empty again.
validateVirtualClusterUpdate(v) == vc.status.phase # "unset" => v.status.phase # "unset"
Serving == w.pc \notin {"boot", "register"}
\* The webhook fails closed: with its server down or another certificate, nobody gets through.
Reached == hook.on /\ hook.bundle # 0 => hook.bundle = hook.cert /\ Serving
Admitted(v) ==
    Reached /\ (hook.on /\ hook.bundle # 0 => validateVirtualClusterUpdate(v))

NoPKI == [ca |-> 0, key |-> 0]
Idle == [pc |-> "idle", mem |-> Gone, retry |-> 0, part |-> 0, pki |-> NoPKI]
Rest == w' = Idle /\ old' = old \ {"mem"}

\* Others write the object, whatever its version.
Others(v) ==
    /\ Reached /\ vc' = Stored(v)
    /\ old' = IF vc' = vc THEN old ELSE {"seen"} \cup {"mem" : x \in {w.pc} \ {"idle", "boot", "register"}}

SeeVC ==
    /\ "seen" \in old /\ seen' = vc /\ old' = old \ {"seen"}
    /\ NoEvent /\ UNCHANGED <<flavour, vc, w, version, hook, plane, cloud, nestedVars>>

Parts == <<"etcd", "apiserver", "controller-manager">>
PartNames == {Parts[i] : i \in DOMAIN Parts}
=============================================================================
