----------------------------- MODULE FairQueue -----------------------------
(***************************************************************************)
(* The multi-tenant work queue of virtualcluster/pkg/util/fairqueue        *)
(* (fair.go, fifo.go and the interface of delaying.go), with the workers   *)
(* that call Get and Done.  Every method holds q.cond.L from start to end, *)
(* so each is one step; Get releases the lock only in cond.Wait.           *)
(*                                                                         *)
(* Time is abstracted to what the code compares: `idle` holds the groups   *)
(* whose lastActiveTime is more than queueExpireDuration old.  SlowWork    *)
(* says whether a worker may keep an item longer than that.                *)
(***************************************************************************)
EXTENDS Integers, Sequences, FiniteSets, RoundRobin

CONSTANTS Item,      \* reconcile requests
          Group,     \* tenant clusters, the items' GroupName()
          GroupName, \* [Item -> Group]
          Worker,    \* worker goroutines of the controller
          NoItem,    \* what an unoccupied worker holds
          SlowWork   \* may an item be processed for longer than queueExpireDuration?

ASSUME ItemAssumption   == IsFiniteSet(Item) /\ NoItem \notin Item
ASSUME GroupAssumption  == GroupName \in [Item -> Group]
ASSUME WorkerAssumption == IsFiniteSet(Worker)
ASSUME SlowAssumption   == SlowWork \in BOOLEAN

VARIABLES
    groups,       \* keys of queueGroup
    fifo,         \* queueGroup's queues (empty for a group that has none)
    length,       \* q.length
    dirty,        \* q.dirty
    processing,   \* q.processing
    ring, pos,    \* q.balancer, see RoundRobin
    idle,         \* groups whose queue is past its expire duration
    shuttingDown, \* q.shuttingDown (and q.stopCh closed)
    waiting,      \* items given to AddAfter that the waiting loop has yet to add
    status,       \* what each worker does
    holds,        \* the item each worker processes
    mode          \* "running", or the way Get failed

balancerVars == <<ring, pos>>
queueVars == <<groups, fifo, length, dirty, processing, ring, pos, idle, status>>
vars == <<groups, fifo, length, dirty, processing, ring, pos, idle, shuttingDown,
          waiting, status, holds, mode>>

\* "ready" will call Get, "waiting" sleeps in cond.Wait, "busy" processes holds[w],
\* "stopped" has left its loop.
Status == {"ready", "waiting", "busy", "stopped"}

TypeOK ==
    /\ groups \subseteq Group
    /\ fifo \in [Group -> Seq(Item)]
    /\ length \in Nat
    /\ dirty \subseteq Item
    /\ processing \subseteq Item
    /\ ring \in Seq(Group)
    /\ pos \in Int /\ -1 <= pos /\ (pos < Len(ring) \/ pos = -1)
    /\ idle \subseteq groups
    /\ shuttingDown \in BOOLEAN
    /\ waiting \subseteq Item
    /\ status \in [Worker -> Status]
    /\ holds \in [Worker -> Item \cup {NoItem}]
    /\ \A w \in Worker : status[w] = "busy" <=> holds[w] # NoItem
    /\ mode \in {"running", "spinning", "panicked"}

\* The items in some FIFO queue.
Elements(s) == {s[j] : j \in 1..Len(s)}
Queued == UNION {Elements(fifo[g]) : g \in Group}

\* cond.Signal wakes one sleeping worker, if there is one; it runs its loop again.
Sleeping(st) == {w \in Worker : st[w] = "waiting"}
Signal(st) ==
    IF Sleeping(st) = {} THEN {st}
    ELSE {[st EXCEPT ![w] = "ready"] : w \in Sleeping(st)}
\* Mutant of Broadcast: nobody is woken.
BroadcastNone(st) == st
Broadcast(st) == [w \in Worker |-> IF st[w] = "waiting" THEN "ready" ELSE st[w]]

-----------------------------------------------------------------------------
Init ==
    /\ groups = {} /\ fifo = [g \in Group |-> <<>>] /\ length = 0
    /\ dirty = {} /\ processing = {}
    /\ ring = <<>> /\ pos = -1 /\ idle = {}
    /\ shuttingDown = FALSE /\ waiting = {}
    /\ status = [w \in Worker |-> "ready"]
    /\ holds = [w \in Worker |-> NoItem]
    /\ mode = "running"

\* Mutants of Enqueue: no cond.Signal; the item is not counted.
EnqueueSilent(x, st) ==
    /\ fifo' = [fifo EXCEPT ![GroupName[x]] = Append(@, x)]
    /\ idle' = idle \ {GroupName[x]}
    /\ length' = length + 1
    /\ status' = st
EnqueueUncounted(x, st) ==
    /\ fifo' = [fifo EXCEPT ![GroupName[x]] = Append(@, x)]
    /\ idle' = idle \ {GroupName[x]}
    /\ length' = length
    /\ status' \in Signal(st)

\* fifo.Add, q.length++ and cond.Signal.  A fifo.Add refreshes lastActiveTime.
Enqueue(x, st) ==
    /\ fifo' = [fifo EXCEPT ![GroupName[x]] = Append(@, x)]
    /\ idle' = idle \ {GroupName[x]}
    /\ length' = length + 1
    /\ status' \in Signal(st)

\* Mutant of QueueAdd: the processing set is not looked at.
QueueAddProcessing(x) ==
    \/ /\ shuttingDown \/ x \in dirty
       /\ UNCHANGED queueVars
    \/ /\ ~shuttingDown /\ x \notin dirty
       /\ dirty' = dirty \cup {x}
       /\ groups' = groups \cup {GroupName[x]}
       /\ ring' = IF GroupName[x] \in groups THEN ring ELSE Append(ring, GroupName[x])
       /\ Enqueue(x, status)
       /\ UNCHANGED <<processing, pos>>

\* Mutant of QueueAdd: the processing set is looked at before dirty is set.
QueueAddSwapped(x) ==
    \/ /\ shuttingDown \/ x \in dirty \/ x \in processing
       /\ UNCHANGED queueVars
    \/ /\ ~shuttingDown /\ x \notin dirty /\ x \notin processing
       /\ dirty' = dirty \cup {x}
       /\ groups' = groups \cup {GroupName[x]}
       /\ ring' = IF GroupName[x] \in groups THEN ring ELSE Append(ring, GroupName[x])
       /\ Enqueue(x, status)
       /\ UNCHANGED <<processing, pos>>

\* Add queues an item unless it is dirty already, or is being processed (Done
\* will queue it).  The first item of a group makes its queue and registers it
\* with the balancer.
QueueAdd(x) ==
    \/ /\ shuttingDown \/ x \in dirty
       /\ UNCHANGED queueVars
    \/ /\ ~shuttingDown /\ x \notin dirty /\ x \in processing
       /\ dirty' = dirty \cup {x}
       /\ UNCHANGED <<groups, fifo, length, processing, ring, pos, idle, status>>
    \/ /\ ~shuttingDown /\ x \notin dirty /\ x \notin processing
       /\ dirty' = dirty \cup {x}
       /\ groups' = groups \cup {GroupName[x]}
       /\ ring' = IF GroupName[x] \in groups THEN ring ELSE Append(ring, GroupName[x])
       /\ Enqueue(x, status)
       /\ UNCHANGED <<processing, pos>>

Add(x) ==
    /\ mode = "running"
    /\ QueueAdd(x)
    /\ UNCHANGED <<shuttingDown, waiting, holds, mode>>

\* AddAfter with a positive delay hands the item to the waiting loop.
AddAfter(x) ==
    /\ mode = "running" /\ ~shuttingDown
    /\ waiting' = waiting \cup {x}
    /\ UNCHANGED <<groups, fifo, length, dirty, processing, ring, pos, idle,
                   shuttingDown, status, holds, mode>>

\* The waiting loop adds an entry whose time has come.  It ends with ShutDown.
WaitingLoopAdd(x) ==
    /\ mode = "running" /\ ~shuttingDown /\ x \in waiting
    /\ waiting' = waiting \ {x}
    /\ QueueAdd(x)
    /\ UNCHANGED <<shuttingDown, holds, mode>>

\* Get with an empty queue: sleep, or leave once the queue is shut down.
GetWait(w) ==
    /\ mode = "running" /\ status[w] = "ready"
    /\ length = 0 /\ ~shuttingDown
    /\ status' = [status EXCEPT ![w] = "waiting"]
    /\ UNCHANGED <<groups, fifo, length, dirty, processing, ring, pos, idle,
                   shuttingDown, waiting, holds, mode>>

GetStop(w) ==
    /\ mode = "running" /\ status[w] = "ready"
    /\ length = 0 /\ shuttingDown
    /\ status' = [status EXCEPT ![w] = "stopped"]
    /\ UNCHANGED <<groups, fifo, length, dirty, processing, ring, pos, idle,
                   shuttingDown, waiting, holds, mode>>

\* The k-th call of balancer.Next in the loop of Get is the first that names a
\* group with an item.  The balancer names every group it knows in Len(ring) calls.
FirstNonEmpty(k) ==
    /\ fifo[KeyAfter(ring, pos, k)] # <<>>
    /\ \A m \in 1..(k - 1) : fifo[KeyAfter(ring, pos, m)] = <<>>

\* The head of the queue of group g is handed to worker w.
Hand(w, g) ==
    LET x == Head(fifo[g])
    IN  /\ fifo' = [fifo EXCEPT ![g] = Tail(@)]
        /\ length' = length - 1
        /\ processing' = processing \cup {x}
        /\ dirty' = dirty \ {x}
        /\ holds' = [holds EXCEPT ![w] = x]
        /\ status' = [status EXCEPT ![w] = "busy"]

\* Mutant of GetItem: the balancer is not moved.
GetItemKeepsPos(w) ==
    /\ mode = "running" /\ status[w] = "ready" /\ length # 0
    /\ \E k \in 1..Len(ring) :
         /\ FirstNonEmpty(k)
         /\ Hand(w, KeyAfter(ring, pos, k))
         /\ idle' = idle \ {KeyAfter(ring, pos, k)}
    /\ UNCHANGED <<groups, ring, pos, shuttingDown, waiting, mode>>

GetItem(w) ==
    /\ mode = "running" /\ status[w] = "ready" /\ length # 0
    /\ \E k \in 1..Len(ring) :
         /\ FirstNonEmpty(k)
         /\ Hand(w, KeyAfter(ring, pos, k))
         /\ pos' = PosAfter(ring, pos, k)
         /\ idle' = idle \ {KeyAfter(ring, pos, k)}
    /\ UNCHANGED <<groups, ring, shuttingDown, waiting, mode>>

\* The items counted by length are all in groups the balancer does not know: with
\* no group at all Next returns "" and the nil queue is dereferenced, otherwise
\* the loop never ends, with the lock held.
GetStuck(w) ==
    /\ mode = "running" /\ status[w] = "ready" /\ length # 0
    /\ \A g \in RingKeys(ring) : fifo[g] = <<>>
    /\ mode' = IF ring = <<>> THEN "panicked" ELSE "spinning"
    /\ UNCHANGED <<groups, fifo, length, dirty, processing, ring, pos, idle,
                   shuttingDown, waiting, status, holds>>

Get(w) == GetWait(w) \/ GetStop(w) \/ GetItem(w) \/ GetStuck(w)

\* Done queues the item again when it was added while it was processed.  When the
\* group's queue is gone, Done only makes a new queue for the group: the item is
\* not put in it and the balancer does not hear of it (fair.go:176-182).
QueueDone(x, st) ==
    /\ processing' = processing \ {x}
    /\ \/ /\ GroupName[x] \in groups /\ x \in dirty
          /\ Enqueue(x, st)
          /\ UNCHANGED groups
       \/ /\ GroupName[x] \notin groups \/ x \notin dirty
          /\ groups' = IF x \in dirty THEN groups \cup {GroupName[x]} ELSE groups
          /\ status' = st
          /\ UNCHANGED <<fifo, length, idle>>
    /\ UNCHANGED <<dirty, ring, pos>>

Done(w) ==
    /\ mode = "running" /\ status[w] = "busy"
    /\ QueueDone(holds[w], [status EXCEPT ![w] = "ready"])
    /\ holds' = [holds EXCEPT ![w] = NoItem]
    /\ UNCHANGED <<shuttingDown, waiting, mode>>

ShutDown ==
    /\ mode = "running" /\ ~shuttingDown
    /\ shuttingDown' = TRUE
    /\ status' = Broadcast(status)
    /\ UNCHANGED <<groups, fifo, length, dirty, processing, ring, pos, idle, waiting,
                   holds, mode>>

\* Time passes: queueExpireDuration since the last fifo.Add or fifo.Get of g.
\* Unless work is slow, an item taken from g is no longer processed by then.
Expire(g) ==
    /\ mode = "running"
    /\ g \in groups \ idle
    /\ SlowWork \/ \A x \in processing : GroupName[x] # g
    /\ idle' = idle \cup {g}
    /\ UNCHANGED <<groups, fifo, length, dirty, processing, ring, pos, shuttingDown,
                   waiting, status, holds, mode>>

\* checkAndCleanIdleQueue for one group.  A tick that removes several groups is as
\* many of these steps: between them is the state of a tick at which only the
\* first groups had expired.
CleanIdle(g) ==
    /\ mode = "running"
    /\ g \in idle /\ fifo[g] = <<>>
    /\ groups' = groups \ {g}
    /\ idle' = idle \ {g}
    /\ IF g \in RingKeys(ring)
       THEN ring' = RingWithout(ring, g) /\ pos' = PosWithout(ring, pos, g)
       ELSE UNCHANGED <<ring, pos>>
    /\ UNCHANGED <<fifo, length, dirty, processing, shuttingDown, waiting, status,
                   holds, mode>>

-----------------------------------------------------------------------------
Next ==
    \/ \E x \in Item : Add(x) \/ AddAfter(x) \/ WaitingLoopAdd(x)
    \/ \E w \in Worker : Get(w) \/ Done(w)
    \/ ShutDown
    \/ \E g \in Group : Expire(g) \/ CleanIdle(g)

\* The workers and the waiting loop are goroutines that never block for good: the
\* Go scheduler runs them, and a reconcile ends (its client calls time out).
Fairness ==
    /\ \A w \in Worker : WF_vars(Get(w)) /\ WF_vars(Done(w))
    /\ \A x \in Item : WF_vars(WaitingLoopAdd(x))

Spec == Init /\ [][Next]_vars
LiveSpec == Spec /\ Fairness

-----------------------------------------------------------------------------
(* Properties.  Those that name SlowWork hold when no worker keeps an item  *)
(* past queueExpireDuration; the others hold without that assumption.       *)

\* "Every element of queue should be in the dirty set and not in the processing
\* set" (fifo.go:41-43), in the queue of its own group only, and once only.
QueuedIsPending ==
    /\ Queued \subseteq dirty \ processing
    /\ \A g \in Group : \A j \in 1..Len(fifo[g]) :
         /\ GroupName[fifo[g][j]] = g
         /\ \A m \in 1..Len(fifo[g]) : fifo[g][j] = fifo[g][m] => j = m

\* "length is the sum of queues size" (fair.go:42): Get sleeps exactly when there
\* is nothing to take.
LengthCounts == length = Cardinality(Queued)

\* The worker loop "enforces that the reconcileHandler is never invoked
\* concurrently with the same object" (mccontroller.go:382): two workers never
\* hold the same item, and an item is marked processing exactly while it is held.
OneWorkerPerItem ==
    /\ \A v, w \in Worker : (status[v] = "busy" /\ status[w] = "busy" /\ v # w)
                              => holds[v] # holds[w]
    /\ processing = {holds[w] : w \in {v \in Worker : status[v] = "busy"}}

\* Signal is called once per queued item, never once per sleeper: while a worker
\* sleeps, every queued item has a worker of its own on the way to Get.
NoLostWakeup ==
    Sleeping(status) # {} => length <= Cardinality({w \in Worker : status[w] = "ready"})

\* An item that was added and not yet taken is in a queue, or is being processed
\* (then Done queues it): Add, which drops dirty items, may rely on it.
NothingLost == dirty \subseteq Queued \cup processing

\* Get always finds the item that length promises: the balancer knows every group
\* that has one.
GetFinds ==
    /\ mode = "running"
    /\ \A g \in Group : fifo[g] # <<>> => g \in RingKeys(ring)

\* The fair queue is a work queue: its step on dirty and processing is always one
\* of the steps of WorkQueue, the contract the worker loop is written against.
Contract == INSTANCE WorkQueue
              WITH pending <- dirty, active <- processing, closed <- shuttingDown
ImplementsWorkQueue == Contract!Spec

\* Calls of Next until the balancer names group h.
Distance(h) ==
    CHOOSE k \in 1..Len(ring) :
        KeyAfter(ring, pos, k) = h /\ \A m \in 1..(k - 1) : KeyAfter(ring, pos, m) # h

\* Fairness among tenants: an item taken from one group brings every other group
\* that has items nearer to its turn, however many items the first one has.
FairTurn ==
    [][\A w \in Worker : GetItem(w) =>
         \A h \in RingKeys(ring) :
             (fifo[h] # <<>> /\ fifo'[h] = fifo[h]) => Distance(h)' < Distance(h)]_vars

\* Idle groups are swept a finite number of times.  Every sweep of a group takes
\* queueExpireDuration without activity in it, and a group that comes back goes to
\* the end of the ring: if a tenant could expire and come back between any two
\* calls of Get, it could keep its turn ahead of the others for ever.
SweepsCease == <>[][\A g \in Group : ~CleanIdle(g)]_vars

\* The sweep loses nothing, which SweepsLoseNothing (FairQueueProofs) establishes for
\* workers that are not slow.
SweepsAreSafe == [](NothingLost /\ GetFinds)

\* Every added item is eventually taken, also when the queue is shut down meanwhile
\* and however many items other tenants add, as long as sweeps lose nothing.
Served ==
    (SweepsCease /\ SweepsAreSafe) => \A x \in Item : x \in dirty ~> x \in processing

\* After ShutDown the workers drain the queue and leave, as long as sweeps lose nothing.
ShutDownCompletes ==
    SweepsAreSafe => (shuttingDown ~> \A w \in Worker : status[w] = "stopped")
=============================================================================
