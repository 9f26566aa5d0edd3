--------------------------- MODULE DelayingQueue ---------------------------
(***************************************************************************)
(* The delayed adds of the fair queue, virtualcluster/pkg/util/fairqueue/  *)
(* delaying.go: AddAfter sends to a bounded channel, and one goroutine,    *)
(* waitingLoop, keeps the entries in a heap and adds them when their time  *)
(* has come.  FairQueue sees this module as its set `waiting`.             *)
(*                                                                         *)
(* The heap and waitingEntryByData are one function from items to their    *)
(* readyAt: insert keeps a single entry per item.                          *)
(***************************************************************************)
EXTENDS Integers, Sequences, FiniteSets, FiniteSetsExt, Functions

CONSTANTS Item,
          ChanCap,   \* capacity of waitingForAddCh (1000 in the code)
          MaxDelay,  \* bound on the delays asked for
          MaxTime    \* bound on the clock

ASSUME ChanAssumption == ChanCap \in Nat \ {0}
ASSUME TimeAssumption == MaxDelay \in Nat \ {0} /\ MaxTime \in Nat

VARIABLES
    now,          \* the clock
    ch,           \* waitingForAddCh
    heap,         \* waitingForQueue and waitingEntryByData
    pc,           \* where waitingLoop is
    timer,        \* when nextReadyAt fires, Never for the placeholder channel
    shuttingDown,
    added,        \* items the last step gave to q.Add
    deadline      \* what callers were promised: the earliest readyAt asked for
                  \* and not yet served (history, not in the code)

vars == <<now, ch, heap, pc, timer, shuttingDown, added, deadline>>

Never == MaxTime + MaxDelay + 1
Time == 0..Never
Entry == [data : Item, readyAt : Time]

TypeOK ==
    /\ now \in 0..MaxTime
    /\ ch \in Seq(Entry) /\ Len(ch) <= ChanCap
    /\ heap \in UNION {[S -> Time] : S \in SUBSET Item}
    /\ pc \in {"top", "select", "drain", "exited"}
    /\ timer \in Time
    /\ shuttingDown \in BOOLEAN
    /\ added \subseteq Item
    /\ deadline \in [Item -> Time]

\* The earliest time left for an item in a heap and a channel.
Left(x, h, c) ==
    Min({Never} \cup {h[y] : y \in DOMAIN h \cap {x}}
                \cup {c[j].readyAt : j \in {m \in 1..Len(c) : c[m].data = x}})

\* The items of S are given to q.Add; what is left for them is in h and c.
GiveToAdd(S, h, c) ==
    /\ added' = S
    /\ deadline' = [x \in Item |-> IF x \in S THEN Left(x, h, c) ELSE deadline[x]]

-----------------------------------------------------------------------------
Init ==
    /\ now = 0 /\ ch = <<>> /\ heap = [x \in {} |-> Never]
    /\ pc = "top" /\ timer = Never /\ shuttingDown = FALSE
    /\ added = {} /\ deadline = [x \in Item |-> Never]

\* Mutant of AddAfter: the channel has no bound.
AddAfterUnbounded(x, duration) ==
    /\ ~shuttingDown
    /\ ch' = Append(ch, [data |-> x, readyAt |-> now + duration])
    /\ deadline' = [deadline EXCEPT ![x] = Min({@, now + duration})]
    /\ added' = {}
    /\ UNCHANGED <<now, heap, pc, timer, shuttingDown>>

\* A delay of 0 or less is an immediate Add and does not come here.  A caller
\* blocks while the channel is full.
AddAfter(x, duration) ==
    /\ ~shuttingDown /\ Len(ch) < ChanCap
    /\ ch' = Append(ch, [data |-> x, readyAt |-> now + duration])
    /\ deadline' = [deadline EXCEPT ![x] = Min({@, now + duration})]
    /\ added' = {}
    /\ UNCHANGED <<now, heap, pc, timer, shuttingDown>>

\* Mutant of insert: a sooner time for an item that waits already is ignored.
insertFirst(entry) ==
    heap' = IF entry.data \in DOMAIN heap THEN heap
            ELSE [y \in DOMAIN heap \cup {entry.data} |->
                    IF y = entry.data THEN entry.readyAt ELSE heap[y]]

\* insert keeps the sooner time of an item that waits already.
insert(entry) ==
    LET x == entry.data
        t == IF x \in DOMAIN heap THEN Min({heap[x], entry.readyAt}) ELSE entry.readyAt
    IN  heap' = [y \in DOMAIN heap \cup {x} |-> IF y = x THEN t ELSE heap[y]]

\* Mutant of LoopTop: the loop ends when nothing waits.
LoopTopEnds ==
    /\ pc = "top" /\ ~shuttingDown
    /\ LET ready == {x \in DOMAIN heap : heap[x] <= now}
       IN  /\ heap' = Restrict(heap, DOMAIN heap \ ready)
           /\ GiveToAdd(ready, heap', ch)
    /\ timer' = Min({Never} \cup {heap'[x] : x \in DOMAIN heap'})
    /\ pc' = IF DOMAIN heap' = {} THEN "exited" ELSE "select"
    /\ UNCHANGED <<now, ch, shuttingDown>>

\* Top of the loop: add the ready entries, arm the timer for the first of the rest.
LoopTop ==
    /\ pc = "top" /\ ~shuttingDown
    /\ LET ready == {x \in DOMAIN heap : heap[x] <= now}
       IN  /\ heap' = Restrict(heap, DOMAIN heap \ ready)
           /\ GiveToAdd(ready, heap', ch)
    /\ timer' = Min({Never} \cup {heap'[x] : x \in DOMAIN heap'})
    /\ pc' = "select"
    /\ UNCHANGED <<now, ch, shuttingDown>>

\* nextReadyAt fires.
TimerFires ==
    /\ pc = "select" /\ timer <= now
    /\ pc' = "top" /\ added' = {}
    /\ UNCHANGED <<now, ch, heap, timer, shuttingDown, deadline>>

\* The heartbeat, every maxWait.
Heartbeat ==
    /\ pc = "select"
    /\ pc' = "top" /\ added' = {}
    /\ UNCHANGED <<now, ch, heap, timer, shuttingDown, deadline>>

\* Mutant of Receive: the loop goes back to sleep without arming the timer again.
ReceiveAsleep ==
    /\ pc \in {"select", "drain"} /\ ch # <<>>
    /\ insert(Head(ch)) /\ added' = {} /\ UNCHANGED deadline
    /\ ch' = Tail(ch)
    /\ UNCHANGED <<now, pc, timer, shuttingDown>>

\* Mutant of Receive: an entry is added whether or not its time has come.
ReceiveAndAdd ==
    /\ pc \in {"select", "drain"} /\ ch # <<>>
    /\ GiveToAdd({Head(ch).data}, heap, Tail(ch)) /\ UNCHANGED heap
    /\ ch' = Tail(ch)
    /\ pc' = "drain"
    /\ UNCHANGED <<now, timer, shuttingDown>>

\* An entry is received, in the select or while the channel is drained.
Receive ==
    /\ pc \in {"select", "drain"} /\ ch # <<>>
    /\ IF Head(ch).readyAt > now
       THEN insert(Head(ch)) /\ added' = {} /\ UNCHANGED deadline
       ELSE GiveToAdd({Head(ch).data}, heap, Tail(ch)) /\ UNCHANGED heap
    /\ ch' = Tail(ch)
    /\ pc' = "drain"
    /\ UNCHANGED <<now, timer, shuttingDown>>

Drained ==
    /\ pc = "drain" /\ ch = <<>>
    /\ pc' = "top" /\ added' = {}
    /\ UNCHANGED <<now, ch, heap, timer, shuttingDown, deadline>>

\* The loop sees the shutdown at its top or in its select, and drops what waits.
LoopExit ==
    /\ pc \in {"top", "select"} /\ shuttingDown
    /\ pc' = "exited" /\ added' = {}
    /\ UNCHANGED <<now, ch, heap, timer, shuttingDown, deadline>>

ShutDown ==
    /\ ~shuttingDown
    /\ shuttingDown' = TRUE /\ added' = {}
    /\ UNCHANGED <<now, ch, heap, pc, timer, deadline>>

Tick ==
    /\ now < MaxTime
    /\ now' = now + 1 /\ added' = {}
    /\ UNCHANGED <<ch, heap, pc, timer, shuttingDown, deadline>>

waitingLoop == LoopTop \/ TimerFires \/ Heartbeat \/ Receive \/ Drained \/ LoopExit

QueueNext ==
    \/ \E x \in Item, duration \in 1..MaxDelay : AddAfter(x, duration)
    \/ waitingLoop
    \/ ShutDown
    \/ Tick

\* The loop is a goroutine of its own, and Go's select picks at random among the
\* cases that are ready: a heartbeat cannot win for ever over an entry that waits
\* in the channel, and a channel that is empty again and again is once found so.
\* The clock goes on.
Fairness ==
    /\ WF_vars(LoopTop) /\ WF_vars(TimerFires) /\ WF_vars(Tick)
    /\ SF_vars(Receive) /\ SF_vars(Drained)

Spec == Init /\ [][QueueNext]_vars
LiveSpec == Spec /\ Fairness

-----------------------------------------------------------------------------
\* What a caller asked for is still in the channel or the heap: AddAfter never
\* loses an item, whichever entries insert merges (until ShutDown drops them).
NothingDropped == \A x \in Item : deadline[x] = Left(x, heap, ch)

\* The loop never sleeps past a deadline without the heartbeat's help: when it is
\* blocked (nothing received, timer not due) no item's time has come.
NeverOversleeps ==
    (pc = "select" /\ ch = <<>> /\ timer > now) =>
        \A x \in Item : deadline[x] > now

\* No item is added before the earliest time someone asked for.
NeverEarly == [][\A x \in added' : deadline[x] <= now]_vars

\* A caller blocked on the full channel gets through, or the queue is shut down.
CallersUnblock == (Len(ch) = ChanCap) ~> (Len(ch) < ChanCap \/ shuttingDown)

\* An item that waits is added once its time has come, unless the queue shuts
\* down, as long as callers let the channel run empty now and then: the inner loop
\* of waitingLoop drains it before it looks at the heap again.
EventuallyAdded ==
    []<>(ch = <<>>) =>
      \A x \in Item : (deadline[x] <= MaxTime) ~> (x \in added \/ shuttingDown)
=============================================================================
