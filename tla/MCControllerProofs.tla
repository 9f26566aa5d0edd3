------------------------- MODULE MCControllerProofs -------------------------
(***************************************************************************)
(* Proofs about MCController without super cluster pooling: its workers    *)
(* are proper clients of the fair queue, so what FairQueueProofs proves    *)
(* holds for the controller, and no request is reconciled twice at a time. *)
(***************************************************************************)
EXTENDS MCController, FairQueueProofs

\* A worker is in a stage of processNextWorkItem exactly while it is busy, and never
\* calls Done besides the deferred one.
StageInv ==
    /\ stage \in [Worker -> Stage]
    /\ \A w \in Worker : stage[w] # "none" <=> status[w] = "busy"
    /\ \A w \in Worker : stage[w] # "extraDone"

CtrlInv == SafeInv /\ StageInv

\* A step of the controller is a step of the queue, or leaves the queue alone.
LEMMA QueueStep ==
    ASSUME ~SuperClusterPooling, CtrlInv, [MCNext]_mcVars
    PROVE  [Next]_vars
<1>0. ASSUME NEW w \in Worker, status[w] = "busy" PROVE holds[w] \in Item
    BY <1>0 DEF CtrlInv, SafeInv, TypeOK
<1>1. ASSUME NEW w \in Worker, processNextWorkItem(w) PROVE [Next]_vars
    <2>1. CASE WorkerGet(w)
        BY <2>1 DEF WorkerGet, Next, Get
    <2>2. CASE DropNotScheduledHere(w) \/ ExtraDone(w)
        BY <2>2 DEF DropNotScheduledHere, ExtraDone, At, CtrlInv, StageInv
    <2>3. CASE ReconcileRequeueAfter(w) \/ ReconcileRequeue(w) \/ RetryLater(w)
        <3>1. /\ mode = "running" /\ status[w] = "busy"
              /\ waiting' = IF shuttingDown THEN waiting ELSE waiting \cup {holds[w]}
              /\ UNCHANGED <<queueVars, shuttingDown, holds, mode>>
            BY <2>3 DEF ReconcileRequeueAfter, ReconcileRequeue, RetryLater, At
        <3>2. holds[w] \in Item
            BY <1>0, <3>1
        <3>3. CASE shuttingDown
            BY <3>1, <3>3 DEF vars, queueVars
        <3>4. CASE ~shuttingDown
            <4>1. AddAfter(holds[w])
                BY <3>1, <3>4 DEF AddAfter, queueVars
            <4> QED
                BY <3>2, <4>1 DEF Next
        <3> QED
            BY <3>3, <3>4
    <2>4. CASE DropClusterGone(w) \/ Reconcile(w) \/ ReconcileEnds(w) \/ ReconcileFails(w)
               \/ RetryCount(w) \/ Forget(w)
        BY <2>4 DEF DropClusterGone, Reconcile, ReconcileEnds, ReconcileFails, RetryCount, Forget
    <2>5. CASE WorkerDone(w)
        BY <2>5 DEF WorkerDone, Next
    <2> QED
        BY <1>1, <2>1, <2>2, <2>3, <2>4, <2>5 DEF processNextWorkItem
<1>2. ASSUME NEW x \in Item, EnqueueRequestForObject(x) \/ RequeueObject(x) \/ DelayedAdd(x)
      PROVE  [Next]_vars
    BY <1>2 DEF EnqueueRequestForObject, RequeueObject, DelayedAdd, Next
<1>3. ASSUME NEW g \in Group,
             \/ RegisterClusterResource(g) \/ WatchClusterResource(g)
             \/ TeardownClusterResource(g) \/ InformersEnd(g)
             \/ Expire(g) \/ CleanIdle(g)
      PROVE  [Next]_vars
    BY <1>3 DEF RegisterClusterResource, WatchClusterResource, TeardownClusterResource,
                InformersEnd, Next
<1>4. CASE ShutDown
    BY <1>4 DEF Next
<1>5. CASE UNCHANGED mcVars
    BY <1>5 DEF mcVars
<1> QED
    BY <1>1, <1>2, <1>3, <1>4, <1>5 DEF MCNext

\* Steps that neither give a worker an item nor take one from it keep who is busy.
LEMMA BusyKept ==
    ASSUME TypeOK,
           \/ \E x \in Item : Add(x) \/ AddAfter(x) \/ WaitingLoopAdd(x)
           \/ \E w \in Worker : GetWait(w) \/ GetStop(w) \/ GetStuck(w)
           \/ ShutDown
           \/ \E g \in Group : Expire(g) \/ CleanIdle(g)
           \/ UNCHANGED vars
    PROVE  \A w \in Worker : status'[w] = "busy" <=> status[w] = "busy"
<1>1. ASSUME NEW x \in Item, Add(x) \/ WaitingLoopAdd(x)
      PROVE  \A w \in Worker : status'[w] = "busy" <=> status[w] = "busy"
    BY <1>1, QueueAddType DEF Add, WaitingLoopAdd
<1>2. ASSUME NEW v \in Worker, GetWait(v) \/ GetStop(v) \/ GetStuck(v)
      PROVE  \A w \in Worker : status'[w] = "busy" <=> status[w] = "busy"
    BY <1>2 DEF GetWait, GetStop, GetStuck, TypeOK
<1>3. ASSUME ShutDown
      PROVE  \A w \in Worker : status'[w] = "busy" <=> status[w] = "busy"
    BY <1>3 DEF ShutDown, Broadcast, TypeOK
<1>4. CASE UNCHANGED status
    BY <1>4
<1> QED
    BY <1>1, <1>2, <1>3, <1>4 DEF AddAfter, Expire, CleanIdle, vars

LEMMA StageStep ==
    ASSUME ~SuperClusterPooling, CtrlInv, [MCNext]_mcVars
    PROVE  StageInv'
<1>0. TypeOK /\ StageInv
    BY DEF CtrlInv, SafeInv
<1>1. ASSUME UNCHANGED stage, \A w \in Worker : status'[w] = "busy" <=> status[w] = "busy"
      PROVE  StageInv'
    BY <1>0, <1>1 DEF StageInv
<1>2. ASSUME NEW w \in Worker, NEW s \in Stage \ {"none", "extraDone"}, GoTo(w, s),
             status[w] = "busy", UNCHANGED status
      PROVE  StageInv'
    BY <1>0, <1>2 DEF StageInv, GoTo
<1>3. ASSUME NEW w \in Worker, processNextWorkItem(w) PROVE StageInv'
    <2>1. CASE GetItem(w) /\ stage' = [stage EXCEPT ![w] = "got"]
        <3>1. status' = [status EXCEPT ![w] = "busy"]
            BY <1>0, <2>1, GetItemFacts
        <3> QED
            BY <1>0, <2>1, <3>1 DEF StageInv, Stage, TypeOK
    <2>2. CASE (GetWait(w) \/ GetStop(w) \/ GetStuck(w)) /\ UNCHANGED ctrlVars
        BY <1>0, <1>1, <2>2, BusyKept DEF ctrlVars
    <2>3. CASE DropNotScheduledHere(w) \/ ExtraDone(w)
        BY <1>0, <2>3 DEF DropNotScheduledHere, ExtraDone, At, StageInv
    <2>4. CASE \/ DropClusterGone(w) \/ Reconcile(w) \/ ReconcileEnds(w)
               \/ ReconcileRequeueAfter(w) \/ ReconcileRequeue(w) \/ ReconcileFails(w)
               \/ RetryCount(w) \/ RetryLater(w) \/ Forget(w)
        <3>1. status[w] = "busy" /\ UNCHANGED status
            BY <2>4 DEF DropClusterGone, Reconcile, ReconcileEnds, ReconcileRequeueAfter,
                        ReconcileRequeue, ReconcileFails, RetryCount, RetryLater, Forget, At, vars, queueVars
        <3>2. \E s \in Stage \ {"none", "extraDone"} : GoTo(w, s)
            BY <2>4 DEF DropClusterGone, Reconcile, ReconcileEnds, ReconcileRequeueAfter,
                        ReconcileRequeue, ReconcileFails, RetryCount, RetryLater, Forget, Stage
        <3> QED
            BY <1>2, <3>1, <3>2
    <2>5. CASE WorkerDone(w)
        <3>1. stage' = [stage EXCEPT ![w] = "none"] /\ Done(w)
            BY <2>5 DEF WorkerDone, GoTo
        <3>2. \A v \in Worker : status'[v] = "busy" <=> v # w /\ status[v] = "busy"
            BY <1>0, <3>1, DoneBusy
        <3> QED
            BY <1>0, <3>1, <3>2 DEF StageInv, Stage
    <2> QED
        BY <1>3, <2>1, <2>2, <2>3, <2>4, <2>5 DEF processNextWorkItem, WorkerGet
<1>4. ASSUME NEW x \in Item, EnqueueRequestForObject(x) \/ RequeueObject(x) \/ DelayedAdd(x)
      PROVE  StageInv'
    BY <1>0, <1>1, <1>4, BusyKept
       DEF EnqueueRequestForObject, RequeueObject, DelayedAdd, ctrlVars
<1>5. ASSUME NEW g \in Group,
             \/ RegisterClusterResource(g) \/ WatchClusterResource(g)
             \/ TeardownClusterResource(g) \/ InformersEnd(g)
      PROVE  StageInv'
    BY <1>0, <1>1, <1>5, BusyKept
       DEF RegisterClusterResource, WatchClusterResource, TeardownClusterResource, InformersEnd
<1>6. ASSUME NEW g \in Group, Expire(g) \/ CleanIdle(g), UNCHANGED ctrlVars PROVE StageInv'
    BY <1>0, <1>1, <1>6, BusyKept DEF ctrlVars
<1>7. CASE ShutDown /\ UNCHANGED ctrlVars
    BY <1>0, <1>1, <1>7, BusyKept DEF ctrlVars
<1>8. CASE UNCHANGED mcVars
    BY <1>0, <1>1, <1>8, BusyKept DEF mcVars, ctrlVars
<1> QED
    BY <1>3, <1>4, <1>5, <1>6, <1>7, <1>8 DEF MCNext

LEMMA CtrlStep ==
    ASSUME ~SuperClusterPooling PROVE CtrlInv /\ [MCNext]_mcVars => CtrlInv' /\ [Next]_vars
BY QueueStep, StageStep, SafeStep DEF CtrlInv

LEMMA CtrlInit == MCInit => Init /\ CtrlInv
<1> SUFFICES ASSUME MCInit PROVE Init /\ CtrlInv
    OBVIOUS
<1>1. Init /\ SafeInv
    BY InitSafe DEF MCInit
<1>2. StageInv
    BY DEF MCInit, Init, StageInv, Stage
<1> QED
    BY <1>1, <1>2 DEF CtrlInv

\* The worker loop calls Done once for every Get, on every path through
\* processNextWorkItem, and otherwise touches the queue only through Add and AddAfter:
\* without pooling, the controller's behaviours are behaviours of the fair queue.
THEOREM ControllerRefinesFairQueue ==
    ASSUME ~SuperClusterPooling PROVE MCSpec => ImplementsFairQueue
BY CtrlInit, CtrlStep, PTL DEF MCSpec, Spec, ImplementsFairQueue

\* "the reconcileHandler is never invoked concurrently with the same object"
\* (mccontroller.go:382) holds without pooling, for any number of workers.
THEOREM NeverConcurrentReconcile ==
    ASSUME ~SuperClusterPooling PROVE MCSpec => []NeverConcurrent
<1>1. CtrlInv => NeverConcurrent
    BY DEF CtrlInv, StageInv, SafeInv, OneWorkerPerItem, NeverConcurrent
<1> QED
    BY <1>1, CtrlInit, CtrlStep, PTL DEF MCSpec

-----------------------------------------------------------------------------
(* The retries.  A worker that holds a request is the only one (Held), so   *)
(* what it read of the rate limiter still holds when it counts.             *)

\* The failures counted of a request exceed the limit by a result.Requeue at most, and
\* only until its Forget; a worker that is about to count a failure is below the limit.
CountInv ==
    /\ requeues \in [Item -> 0..(MaxReconcileRetryAttempts + 1)]
    /\ \A x \in Item : requeues[x] > MaxReconcileRetryAttempts =>
           \E w \in Worker : stage[w] = "forget" /\ holds[w] = x
    /\ \A w \in Worker : stage[w] = "count" => requeues[holds[w]] < MaxReconcileRetryAttempts

\* A request that is to be retried waits for its back-off, is dirty, or is held by a worker
\* that has yet to put it back or has just taken it.
OwedInv ==
    \A x \in owed : \/ shuttingDown \/ x \in waiting \/ x \in dirty
                    \/ \E w \in Worker : holds[w] = x /\ stage[w] \in {"got", "count", "requeue"}

SetsInv == clusters \subseteq Group /\ watching \subseteq Group /\ owed \subseteq Item

LEMMA Held ==
    ASSUME CtrlInv
    PROVE  /\ \A w \in Worker : stage[w] # "none" => holds[w] \in Item
           /\ \A v, w \in Worker : v # w /\ stage[v] # "none" /\ stage[w] # "none" =>
                  holds[v] # holds[w]
    BY DEF CtrlInv, StageInv, SafeInv, TypeOK, OneWorkerPerItem

\* What the steps of the queue do to held, waiting and dirty items.
LEMMA AddEffect ==
    ASSUME NEW x \in Item, Add(x) \/ WaitingLoopAdd(x)
    PROVE  /\ UNCHANGED <<holds, shuttingDown>> /\ dirty \subseteq dirty'
           /\ \A y \in waiting : y \in waiting' \/ y \in dirty'
    BY DEF Add, WaitingLoopAdd, QueueAdd, Enqueue, queueVars

LEMMA OtherEffect ==
    ASSUME \/ \E w \in Worker : GetWait(w) \/ GetStop(w) \/ GetStuck(w)
           \/ \E g \in Group : Expire(g) \/ CleanIdle(g)
           \/ ShutDown \/ UNCHANGED vars
    PROVE  UNCHANGED <<holds, waiting, dirty>> /\ (shuttingDown => shuttingDown')
    BY DEF GetWait, GetStop, GetStuck, Expire, CleanIdle, ShutDown, vars

LEMMA DoneEffect ==
    ASSUME NEW w \in Worker, Done(w)
    PROVE  UNCHANGED <<waiting, dirty, shuttingDown>> /\ holds' = [holds EXCEPT ![w] = NoItem]
    BY DEF Done, QueueDone

\* Steps that leave the controller's own variables alone, or change no more than which
\* clusters there are.
QuietStep ==
    \/ \E x \in Item : (Add(x) \/ WaitingLoopAdd(x)) /\ UNCHANGED ctrlVars
    \/ /\ \/ \E w \in Worker : GetWait(w) \/ GetStop(w) \/ GetStuck(w)
          \/ \E g \in Group : Expire(g) \/ CleanIdle(g)
          \/ ShutDown \/ UNCHANGED vars
       /\ UNCHANGED <<requeues, stage, owed>>

LEMMA StepCases ==
    ASSUME ~SuperClusterPooling, [MCNext]_mcVars
    PROVE  \/ QuietStep
           \/ \E w \in Worker :
                 \/ GetItem(w) /\ stage' = [stage EXCEPT ![w] = "got"] /\ UNCHANGED <<requeues, owed>>
                 \/ DropClusterGone(w) \/ Reconcile(w) \/ ReconcileEnds(w)
                 \/ ReconcileRequeueAfter(w) \/ ReconcileRequeue(w) \/ ReconcileFails(w)
                 \/ RetryCount(w) \/ RetryLater(w) \/ Forget(w) \/ WorkerDone(w)
                 \/ ExtraDone(w)
<1>1. ASSUME NEW w \in Worker, WorkerGet(w)
      PROVE  \/ QuietStep
             \/ GetItem(w) /\ stage' = [stage EXCEPT ![w] = "got"] /\ UNCHANGED <<requeues, owed>>
    BY <1>1 DEF WorkerGet, QuietStep, ctrlVars
<1>2. ASSUME NEW x \in Item, EnqueueRequestForObject(x) \/ RequeueObject(x) \/ DelayedAdd(x)
      PROVE  QuietStep
    BY <1>2 DEF EnqueueRequestForObject, RequeueObject, DelayedAdd, QuietStep
<1>3. ASSUME NEW g \in Group,
             \/ RegisterClusterResource(g) \/ WatchClusterResource(g)
             \/ TeardownClusterResource(g) \/ InformersEnd(g)
             \/ (Expire(g) \/ CleanIdle(g)) /\ UNCHANGED ctrlVars
      PROVE  QuietStep
    BY <1>3 DEF RegisterClusterResource, WatchClusterResource, TeardownClusterResource,
        InformersEnd, QuietStep, ctrlVars
<1>4. CASE (ShutDown /\ UNCHANGED ctrlVars) \/ UNCHANGED mcVars
    BY <1>4 DEF QuietStep, mcVars, ctrlVars
<1>5. ASSUME NEW w \in Worker PROVE ~DropNotScheduledHere(w)
    BY DEF DropNotScheduledHere
<1> QED
    BY <1>1, <1>2, <1>3, <1>4, <1>5 DEF MCNext, processNextWorkItem

LEMMA SetsStep == SetsInv /\ CtrlInv /\ [MCNext]_mcVars => SetsInv'
<1> SUFFICES ASSUME SetsInv, CtrlInv, [MCNext]_mcVars PROVE SetsInv'
    OBVIOUS
<1>1. ASSUME NEW w \in Worker, processNextWorkItem(w) PROVE SetsInv'
    <2>1. UNCHANGED <<clusters, watching>>
        BY <1>1 DEF processNextWorkItem, WorkerGet, ctrlVars, DropClusterGone,
            DropNotScheduledHere, ExtraDone, Reconcile, ReconcileEnds, ReconcileRequeueAfter,
            ReconcileRequeue, ReconcileFails, RetryCount, RetryLater, Forget, WorkerDone
    <2>2. owed' \subseteq owed \/ (ReconcileFails(w) /\ owed' \subseteq owed \cup {holds[w]})
        BY <1>1 DEF processNextWorkItem, WorkerGet, ctrlVars, DropClusterGone,
            DropNotScheduledHere, ExtraDone, Reconcile, ReconcileEnds, ReconcileRequeueAfter,
            ReconcileRequeue, ReconcileFails, RetryCount, RetryLater, Forget, WorkerDone
    <2>3. ReconcileFails(w) => holds[w] \in Item
        BY Held DEF ReconcileFails, At
    <2> QED
        BY <2>1, <2>2, <2>3 DEF SetsInv
<1>2. ASSUME NEW g \in Group,
             \/ RegisterClusterResource(g) \/ WatchClusterResource(g)
             \/ TeardownClusterResource(g) \/ InformersEnd(g)
      PROVE  SetsInv'
    BY <1>2 DEF SetsInv, RegisterClusterResource, WatchClusterResource, TeardownClusterResource,
        InformersEnd
<1>3. CASE UNCHANGED ctrlVars
    BY <1>3 DEF SetsInv, ctrlVars
<1> QED
    BY <1>1, <1>2, <1>3 DEF MCNext, EnqueueRequestForObject, RequeueObject, DelayedAdd, mcVars

LEMMA OwedStep ==
    ASSUME ~SuperClusterPooling, CtrlInv, OwedInv, [MCNext]_mcVars
    PROVE  OwedInv'
<1>0. holds \in [Worker -> Item \cup {NoItem}] /\ stage \in [Worker -> Stage]
    BY DEF CtrlInv, SafeInv, TypeOK, StageInv
<1>1. CASE QuietStep
    BY <1>1, AddEffect, OtherEffect DEF QuietStep, OwedInv, ctrlVars
<1>2. ASSUME NEW w \in Worker, GetItem(w), stage' = [stage EXCEPT ![w] = "got"], UNCHANGED owed
      PROVE  OwedInv'
    <2>1. PICK x \in Item : dirty' = dirty \ {x} /\ holds' = [holds EXCEPT ![w] = x]
        BY <1>2, GetItemFacts DEF CtrlInv, SafeInv
    <2>2. stage[w] = "none" /\ UNCHANGED <<waiting, shuttingDown>>
        BY <1>2 DEF GetItem, CtrlInv, StageInv
    <2> QED
        BY <1>0, <1>2, <2>1, <2>2 DEF OwedInv
<1>3. ASSUME NEW w \in Worker, DropClusterGone(w) \/ Reconcile(w) PROVE OwedInv'
    <2>1. /\ owed' = owed \ {holds[w]} /\ UNCHANGED <<waiting, dirty, shuttingDown, holds>>
          /\ \A v \in Worker \ {w} : stage'[v] = stage[v]
        BY <1>0, <1>3 DEF DropClusterGone, Reconcile, GoTo, vars
    <2> QED
        BY <2>1 DEF OwedInv
<1>4. ASSUME NEW w \in Worker,
             ReconcileEnds(w) \/ ReconcileRequeueAfter(w) \/ ReconcileRequeue(w) \/ Forget(w)
      PROVE  OwedInv'
    <2>1. /\ waiting \subseteq waiting' /\ UNCHANGED <<dirty, shuttingDown, holds, owed>>
          /\ \A v \in Worker \ {w} : stage'[v] = stage[v]
          /\ stage[w] \in {"reconcile", "forget"}
        BY <1>0, <1>4 DEF ReconcileEnds, ReconcileRequeueAfter, ReconcileRequeue, Forget, At, GoTo,
            vars, queueVars
    <2> QED
        BY <2>1 DEF OwedInv
<1>5. ASSUME NEW w \in Worker, ReconcileFails(w) PROVE OwedInv'
    <2>1. /\ UNCHANGED <<waiting, dirty, shuttingDown, holds>>
          /\ \A v \in Worker \ {w} : stage'[v] = stage[v]
          /\ stage[w] = "reconcile"
          /\ owed' = owed \/ (owed' = owed \cup {holds[w]} /\ stage'[w] = "count")
        BY <1>0, <1>5 DEF ReconcileFails, At, GoTo, vars
    <2> QED
        BY <2>1 DEF OwedInv
<1>6. ASSUME NEW w \in Worker, RetryCount(w) PROVE OwedInv'
    <2>1. /\ UNCHANGED <<waiting, dirty, shuttingDown, holds, owed>>
          /\ \A v \in Worker \ {w} : stage'[v] = stage[v]
          /\ stage'[w] = "requeue"
        BY <1>0, <1>6 DEF RetryCount, At, GoTo, vars
    <2> QED
        BY <2>1 DEF OwedInv
<1>7. ASSUME NEW w \in Worker, RetryLater(w) PROVE OwedInv'
    <2>1. /\ UNCHANGED <<dirty, shuttingDown, holds, owed>>
          /\ \A v \in Worker \ {w} : stage'[v] = stage[v]
          /\ waiting \subseteq waiting' /\ (shuttingDown \/ holds[w] \in waiting')
        BY <1>0, <1>7 DEF RetryLater, At, GoTo, queueVars
    <2> QED
        BY <2>1 DEF OwedInv
<1>8. ASSUME NEW w \in Worker, WorkerDone(w) PROVE OwedInv'
    <2>1. /\ UNCHANGED <<waiting, dirty, shuttingDown, owed>> /\ stage[w] = "done"
          /\ \A v \in Worker \ {w} : stage'[v] = stage[v] /\ holds'[v] = holds[v]
        BY <1>0, <1>8, DoneEffect DEF WorkerDone, GoTo
    <2> QED
        BY <2>1 DEF OwedInv
<1>9. ASSUME NEW w \in Worker PROVE ~ExtraDone(w)
    BY DEF ExtraDone, At, CtrlInv, StageInv
<1> QED
    BY <1>1, <1>2, <1>3, <1>4, <1>5, <1>6, <1>7, <1>8, <1>9, StepCases

LEMMA CountStep ==
    ASSUME ~SuperClusterPooling, CtrlInv, CountInv, [MCNext]_mcVars
    PROVE  CountInv'
<1> DEFINE Max == MaxReconcileRetryAttempts
<1>0. /\ holds \in [Worker -> Item \cup {NoItem}] /\ stage \in [Worker -> Stage] /\ Max \in Nat
      /\ requeues \in [Item -> 0..(Max + 1)]
    BY RetryAssumption DEF CtrlInv, SafeInv, TypeOK, StageInv, CountInv
<1>1. CASE QuietStep
    BY <1>1, AddEffect, OtherEffect DEF QuietStep, CountInv, ctrlVars
<1>2. ASSUME NEW w \in Worker, GetItem(w), stage' = [stage EXCEPT ![w] = "got"], UNCHANGED requeues
      PROVE  CountInv'
    <2>1. PICK x \in Item : holds' = [holds EXCEPT ![w] = x]
        BY <1>2, GetItemFacts DEF CtrlInv, SafeInv
    <2>2. stage[w] = "none"
        BY <1>2 DEF GetItem, CtrlInv, StageInv
    <2>3. \A v \in Worker \ {w} : stage'[v] = stage[v] /\ holds'[v] = holds[v]
        BY <1>0, <1>2, <2>1
    <2>4. stage'[w] = "got"
        BY <1>0, <1>2
    <2> QED
        BY <1>2, <2>2, <2>3, <2>4 DEF CountInv
<1>3. ASSUME NEW w \in Worker,
             \/ DropClusterGone(w) \/ Reconcile(w) \/ ReconcileEnds(w)
             \/ ReconcileRequeueAfter(w) \/ RetryLater(w)
      PROVE  CountInv'
    <2>1. /\ UNCHANGED <<requeues, holds>>
          /\ \A v \in Worker \ {w} : stage'[v] = stage[v]
          /\ stage[w] # "forget" /\ stage'[w] # "count"
        BY <1>0, <1>3 DEF DropClusterGone, Reconcile, ReconcileEnds, ReconcileRequeueAfter,
            RetryLater, At, GoTo, vars
    <2> QED
        BY <2>1 DEF CountInv
<1>4. ASSUME NEW w \in Worker, ReconcileFails(w) PROVE CountInv'
    <2>1. /\ UNCHANGED <<requeues, holds>> /\ stage[w] = "reconcile"
          /\ \A v \in Worker \ {w} : stage'[v] = stage[v]
          /\ stage'[w] = "count" => ~(requeues[holds[w]] >= Max)
        BY <1>0, <1>4 DEF ReconcileFails, At, GoTo, vars
    <2>2. holds[w] \in Item
        BY <2>1, Held
    <2>3. requeues[holds[w]] \in Nat
        BY <1>0, <2>2
    <2>4. stage'[w] = "count" => requeues[holds[w]] < Max
        BY <1>0, <2>1, <2>3
    <2> QED
        BY <2>1, <2>4 DEF CountInv
<1>5. ASSUME NEW w \in Worker, NEW d \in 0..(Max + 1), UNCHANGED holds, stage[w] # "none",
             requeues' = [requeues EXCEPT ![holds[w]] = d],
             \A v \in Worker \ {w} : stage'[v] = stage[v],
             stage'[w] # "count", d > Max => stage'[w] = "forget"
      PROVE  CountInv'
    <2>1. holds[w] \in Item /\ \A v \in Worker \ {w} : stage[v] # "none" => holds[v] # holds[w]
        BY <1>5, Held
    <2>2. /\ requeues' \in [Item -> 0..(Max + 1)]
          /\ \A x \in Item : requeues'[x] = IF x = holds[w] THEN d ELSE requeues[x]
        BY <1>0, <1>5, <2>1
    <2>3. ASSUME NEW x \in Item, requeues'[x] > Max
          PROVE  \E v \in Worker : stage'[v] = "forget" /\ holds[v] = x
        <3>1. CASE x = holds[w]
            BY <1>5, <2>2, <2>3, <3>1
        <3>2. CASE x # holds[w]
            <4>1. PICK v \in Worker : stage[v] = "forget" /\ holds[v] = x
                BY <2>2, <2>3, <3>2 DEF CountInv
            <4> QED
                BY <1>5, <3>2, <4>1
        <3> QED
            BY <3>1, <3>2
    <2>4. ASSUME NEW v \in Worker, stage'[v] = "count" PROVE requeues'[holds[v]] < Max
        <3>1. v # w /\ stage[v] = "count"
            BY <1>5, <2>4
        <3>2. holds[v] \in Item /\ holds[v] # holds[w]
            BY <2>1, <3>1, Held
        <3> QED
            BY <2>2, <3>1, <3>2 DEF CountInv
    <2> QED
        BY <1>5, <2>2, <2>3, <2>4 DEF CountInv
<1>6. ASSUME NEW w \in Worker, ReconcileRequeue(w) PROVE CountInv'
    <2>1. /\ stage[w] = "reconcile" /\ UNCHANGED holds
          /\ requeues' = [requeues EXCEPT ![holds[w]] = requeues[holds[w]] + 1]
          /\ stage' = [stage EXCEPT ![w] = "forget"]
        BY <1>6 DEF ReconcileRequeue, At, GoTo
    <2>2. holds[w] \in Item /\ ~(requeues[holds[w]] > Max)
        BY <2>1, Held DEF CountInv
    <2>3. requeues[holds[w]] + 1 \in 0..(Max + 1)
        BY <1>0, <2>2
    <2>4. stage'[w] = "forget" /\ \A v \in Worker \ {w} : stage'[v] = stage[v]
        BY <1>0, <2>1
    <2> QED
        BY <1>5, <2>1, <2>3, <2>4
<1>7. ASSUME NEW w \in Worker, RetryCount(w) PROVE CountInv'
    <2>1. /\ stage[w] = "count" /\ UNCHANGED holds
          /\ requeues' = [requeues EXCEPT ![holds[w]] = requeues[holds[w]] + 1]
          /\ stage' = [stage EXCEPT ![w] = "requeue"]
        BY <1>7 DEF RetryCount, At, GoTo, vars
    <2>2. holds[w] \in Item /\ requeues[holds[w]] < Max
        BY <2>1, Held DEF CountInv
    <2>3. requeues[holds[w]] + 1 \in 0..(Max + 1) /\ ~(requeues[holds[w]] + 1 > Max)
        BY <1>0, <2>2
    <2>4. stage'[w] = "requeue" /\ \A v \in Worker \ {w} : stage'[v] = stage[v]
        BY <1>0, <2>1
    <2> QED
        BY <1>5, <2>1, <2>3, <2>4
<1>8. ASSUME NEW w \in Worker, Forget(w) PROVE CountInv'
    <2>1. /\ stage[w] = "forget" /\ UNCHANGED holds
          /\ requeues' = [requeues EXCEPT ![holds[w]] = 0]
          /\ stage' = [stage EXCEPT ![w] = "done"]
        BY <1>8 DEF Forget, At, GoTo, vars
    <2>2. 0 \in 0..(Max + 1) /\ ~(0 > Max)
        BY <1>0
    <2>3. stage'[w] = "done" /\ \A v \in Worker \ {w} : stage'[v] = stage[v]
        BY <1>0, <2>1
    <2> QED
        BY <1>5, <2>1, <2>2, <2>3
<1>9. ASSUME NEW w \in Worker, WorkerDone(w) PROVE CountInv'
    <2>1. /\ UNCHANGED requeues /\ stage[w] = "done" /\ stage'[w] = "none"
          /\ \A v \in Worker \ {w} : stage'[v] = stage[v] /\ holds'[v] = holds[v]
        BY <1>0, <1>9, DoneEffect DEF WorkerDone, GoTo
    <2> QED
        BY <2>1 DEF CountInv
<1>10. ASSUME NEW w \in Worker PROVE ~ExtraDone(w)
    BY DEF ExtraDone, At, CtrlInv, StageInv
<1> QED
    BY <1>1, <1>2, <1>3, <1>4, <1>6, <1>7, <1>8, <1>9, <1>10, StepCases

LEMMA RetryInit == MCInit => SetsInv /\ OwedInv /\ CountInv
    BY RetryAssumption DEF MCInit, SetsInv, OwedInv, CountInv

\* A request whose reconcile failed below the limit is not lost on its way back through
\* AddRateLimited, the waiting loop, Add and Done, for any number of workers, tenants and
\* requests: without pooling, and if no worker keeps an item past queueExpireDuration.
THEOREM RetriesAreKept ==
    ASSUME ~SuperClusterPooling, ~SlowWork PROVE MCSpec => []RetryKept
<1>1. SafeInv /\ NothingLost /\ OwedInv => RetryKept
    BY DEF SafeInv, NothingLost, OneWorkerPerItem, OwedInv, RetryKept
<1>2. CtrlInv /\ OwedInv /\ [MCNext]_mcVars => OwedInv'
    BY OwedStep
<1>3. MCSpec => [](CtrlInv /\ OwedInv)
    BY <1>2, CtrlInit, RetryInit, CtrlStep, PTL DEF MCSpec
<1>4. CtrlInv => SafeInv
    BY DEF CtrlInv
<1> QED
    BY <1>1, <1>3, <1>4, ControllerRefinesFairQueue, SweepsLoseNothing, PTL
    DEF ImplementsFairQueue

LEMMA AlwaysCounted ==
    ASSUME ~SuperClusterPooling PROVE MCSpec => [](CtrlInv /\ CountInv /\ SetsInv)
<1>1. CtrlInv /\ CountInv /\ [MCNext]_mcVars => CountInv'
    BY CountStep
<1> QED
    BY <1>1, CtrlInit, RetryInit, CtrlStep, SetsStep, PTL DEF MCSpec

\* A request that has failed MaxReconcileRetryAttempts times in a row is not queued for
\* another try (NumRequeues, AddRateLimited and Forget), without pooling and for any number
\* of workers.
THEOREM RetriesAreLimited ==
    ASSUME ~SuperClusterPooling PROVE MCSpec => RetryLimit
<1>1. CountInv => \A x \in Item : requeues[x] > MaxReconcileRetryAttempts =>
                     \E w \in Worker : stage[w] = "forget" /\ holds[w] = x
    BY DEF CountInv
<1> QED
    BY <1>1, AlwaysCounted, PTL DEF RetryLimit

\* The variables of the controller keep their types; without pooling the failure count stays
\* within one of the limit, well inside the bound that CtrlTypeOK allows.
THEOREM ControllerTypes ==
    ASSUME ~SuperClusterPooling, Worker # {} PROVE MCSpec => []CtrlTypeOK
<1>1. Cardinality(Worker) \in Nat /\ Cardinality(Worker) >= 1
    BY WorkerAssumption, FS_CardinalityType, FS_EmptySet
<1>2. CtrlInv /\ CountInv /\ SetsInv => CtrlTypeOK
    <2> SUFFICES ASSUME CtrlInv, CountInv, SetsInv PROVE CtrlTypeOK
        OBVIOUS
    <2>1. 0..(MaxReconcileRetryAttempts + 1) \subseteq
              0..(MaxReconcileRetryAttempts + 2 * Cardinality(Worker) - 1)
        BY <1>1, RetryAssumption
    <2>2. requeues \in [Item -> 0..(MaxReconcileRetryAttempts + 2 * Cardinality(Worker) - 1)]
        BY <2>1 DEF CountInv
    <2> QED
        BY <2>2 DEF CtrlInv, StageInv, SafeInv, SetsInv, CtrlTypeOK
<1> QED
    BY <1>2, AlwaysCounted, PTL
=============================================================================
