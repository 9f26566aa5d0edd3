-------------------------- MODULE VirtualClusterCtrl --------------------------
(***************************************************************************)
(* virtualcluster/pkg/controller: the manager's controllers of a           *)
(* VirtualCluster (virtualcluster_controller.go for the provisioners       *)
(* native and aliyun, capi_virtualcluster_controller.go), and the webhook  *)
(* that the manager registers when it starts.                              *)
(*                                                                         *)
(* A reconcile may start at any time, because of events, retries and       *)
(* resyncs, with the copy of the object that the informer has.  There is   *)
(* one worker for the object.                                              *)
(***************************************************************************)
EXTENDS Provisioners

OfCtrl == UNCHANGED <<flavour, seen, version, plane, cloud>>

\* The phase decides what a reconcile does with the object m in memory.
Dispatch(m) ==
    LET work == [Idle EXCEPT !.mem = m]
        status(phase, retry, note) == [work EXCEPT !.pc = "status", !.mem = SetVCStatus(m, phase, retry, note)]
    IN CASE m.status.phase = "unset" -> status("Pending", 3, "creating")
         [] m.status.phase = "Pending" /\ m.status.retry > 0 -> [work EXCEPT !.pc = "create", !.retry = m.status.retry]
         [] m.status.phase = "Pending" /\ m.status.retry = 0 -> status("Error", 0, "failed")
         [] m.status.phase = "Running" /\ m.labels.upgrade -> [work EXCEPT !.pc = "upgrade"]
         [] OTHER -> Idle

\* The Cluster is provisioned.
Provisioned == cluster.infra
DispatchCAPI(m) ==
    LET status(phase, retry, note) ==
            [Idle EXCEPT !.pc = "status", !.mem = SetVCStatus(m, phase, retry, note)]
    IN CASE m.status.phase = "unset" -> status("Pending", 3, "creating")
         [] m.status.phase = "Pending" /\ Provisioned -> status("Running", 0, "running")
         [] OTHER -> Idle
Continue(m) == IF flavour = "capi" THEN DispatchCAPI(m) ELSE Dispatch(m)

\* What a reconcile first does: register the finalizer, activate it, or look at the phase.
FirstStep(m) ==
    CASE ~m.deleting /\ ~m.fin -> [Idle EXCEPT !.pc = "register finalizer", !.mem = [m EXCEPT !.fin = TRUE]]
      [] ~m.deleting /\ m.fin  -> Continue(m)
      [] m.deleting /\ m.fin   -> [Idle EXCEPT !.pc = "delete", !.mem = m]
      [] OTHER                 -> Idle
Outdated(next) == {"mem" : x \in IF next = Idle THEN {} ELSE old \cap {"seen"}}
Start ==
    /\ w.pc = "idle" /\ seen.there /\ NoEvent
    /\ w' = FirstStep(seen) /\ old' = old \cup Outdated(w')
    /\ UNCHANGED <<vc, hook, nestedVars>> /\ OfCtrl
Reconcile == flavour # "capi" /\ Start
\* Without its Cluster nothing is done with a VirtualCluster, not even its deletion.
ReconcileCAPI == flavour = "capi" /\ cluster.there /\ Start

DeleteCluster ==
    /\ At("capi", "delete") /\ OfCtrl /\ UNCHANGED <<vc, hook, ncp, nested, parts, reads>>
    /\ \/ /\ cluster.there /\ cluster' = [cluster EXCEPT !.deleting = TRUE]
          /\ Unregisters /\ UNCHANGED old /\ NoEvent
       \/ ~cluster.there /\ UNCHANGED cluster /\ Rest /\ NoEvent
       \/ cluster.there /\ UNCHANGED cluster /\ Rest /\ Event("call")

-----------------------------------------------------------------------------
(* Updates of the object.  On a conflict it is read again, from the cache, *)
(* and only the status in memory is kept, or the status and the labels.    *)

Updates == {"register finalizer", "status", "labels", "unregister"}
Merged ==
    LET status == [seen EXCEPT !.status = w.mem.status]
    IN IF w.pc = "labels" THEN [status EXCEPT !.labels = w.mem.labels] ELSE status
OfUpdate == UNCHANGED <<hook, nestedVars>> /\ OfCtrl
\* After the registration of the finalizer, the same reconcile looks at the phase.
AfterUpdate(m) == IF w.pc = "register finalizer" THEN Continue(m) ELSE Idle
RetryUpdateVCStatusOnConflict ==
    /\ w.pc \in Updates /\ vc.there /\ "mem" \notin old /\ Admitted(w.mem)
    /\ vc' = Stored(w.mem)
    /\ w' = AfterUpdate(w.mem) /\ NoEvent
    /\ old' = IF vc' = vc THEN old ELSE {"seen"}
    /\ OfUpdate
Conflict ==
    /\ w.pc \in Updates /\ vc.there /\ "mem" \in old
    /\ w' = [w EXCEPT !.mem = Merged]
    /\ old' = (old \ {"mem"}) \cup {"mem" : x \in old \cap {"seen"}}
    /\ faults' = faults \cup {"unregistered" : x \in {w.pc} \cap {"register finalizer"}}
    /\ UNCHANGED <<vc, spent>> /\ OfUpdate
\* The object is gone or the webhook does not let it through; a call fails or conflicts too often.
UpdateFails ==
    /\ w.pc \in Updates /\ Rest
    /\ IF vc.there /\ "mem" \notin old /\ Admitted(w.mem)
       THEN Event("call")
       ELSE (vc.there /\ "mem" \in old => "seen" \in old) /\ NoEvent
    /\ UNCHANGED vc /\ OfUpdate

-----------------------------------------------------------------------------
(* The manager, its webhook, and the users. *)

\* Add: the server gets a new certificate, then the configuration that trusts it is made;
\* a configuration that is there is deleted first.
genCertificate ==
    /\ w.pc = "boot" /\ NoEvent
    /\ IF hook.on
       THEN hook' = [hook EXCEPT !.cert = CHOOSE c \in 1..2 : c # hook.bundle] /\ w' = [w EXCEPT !.pc = "register"]
       ELSE UNCHANGED hook /\ w' = Idle
    /\ UNCHANGED <<vc, old, nestedVars>> /\ OfCtrl
createValidatingWebhookConfiguration ==
    /\ w.pc = "register" /\ NoEvent
    /\ IF hook.bundle = 0
       THEN hook' = [hook EXCEPT !.bundle = hook.cert] /\ w' = Idle
       ELSE hook' = [hook EXCEPT !.bundle = 0] /\ UNCHANGED w
    /\ UNCHANGED <<vc, old, nestedVars>> /\ OfCtrl
\* The manager ends, by itself when a step of its start fails; informers list everything again.
Crash ==
    /\ Event("crash") /\ w' = [Idle EXCEPT !.pc = "boot"]
    /\ hook' = [hook EXCEPT !.cert = 0] /\ seen' = vc /\ old' = {}
    /\ UNCHANGED <<flavour, vc, version, plane, cloud, nestedVars>>

OfUser == UNCHANGED <<flavour, seen, w, hook, plane, cloud, nestedVars>>
DeleteVC ==
    /\ vc.there /\ ~vc.deleting /\ Event(IF vc.fin THEN "delete" ELSE "early delete")
    /\ Others([vc EXCEPT !.deleting = TRUE]) /\ UNCHANGED version /\ OfUser
\* Something that no controller looks at is changed: all copies get outdated.
EditVC ==
    /\ vc.there /\ Reached /\ Event("edit")
    /\ old' = {"seen"} \cup {"mem" : x \in {w.pc} \ {"idle", "boot", "register"}}
    /\ UNCHANGED <<vc, version>> /\ OfUser
\* The ClusterVersion gets a new version, or is deleted, and an upgrade is asked for.
RequestUpgrade ==
    /\ vc.there /\ vc.status.phase = "Running" /\ ~vc.labels.upgrade /\ Event("upgrade")
    /\ Others([vc EXCEPT !.labels.upgrade = TRUE]) /\ version' \in {0, 1, 2} /\ OfUser

Manager ==
    \/ Reconcile \/ ReconcileCAPI \/ DeleteCluster
    \/ RetryUpdateVCStatusOnConflict \/ Conflict \/ UpdateFails
    \/ genCertificate \/ createValidatingWebhookConfiguration
Users == Crash \/ DeleteVC \/ EditVC \/ RequestUpgrade
=============================================================================
