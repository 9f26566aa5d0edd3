-------------------------- MODULE FairQueueProofs --------------------------
(***************************************************************************)
(* Proofs about FairQueue, for every set of items, groups and workers.     *)
(***************************************************************************)
EXTENDS FairQueue, FiniteSetTheorems, SequenceTheorems, WellFoundedInduction, TLAPS

-----------------------------------------------------------------------------
(* The balancer's ring. *)

\* IndexOf finds a key that is in the ring.
LEMMA IndexOfKey ==
    ASSUME NEW ring_, NEW key, key \in RingKeys(ring_)
    PROVE  IndexOf(ring_, key) \in 1..Len(ring_) /\ ring_[IndexOf(ring_, key)] = key
BY DEF IndexOf, RingKeys

\* Next names a key of the ring, and its position stays in range.
LEMMA NextType ==
    ASSUME NEW S, NEW ring_ \in Seq(S), NEW pos_ \in Int,
           -1 <= pos_, pos_ < Len(ring_) \/ pos_ = -1,
           NEW k \in 1..Len(ring_)
    PROVE  /\ KeyAfter(ring_, pos_, k) \in S
           /\ KeyAfter(ring_, pos_, k) \in RingKeys(ring_)
           /\ PosAfter(ring_, pos_, k) \in Int
           /\ -1 <= PosAfter(ring_, pos_, k)
           /\ PosAfter(ring_, pos_, k) < Len(ring_)
<1>1. Len(ring_) \in Nat /\ Len(ring_) >= 1
    OBVIOUS
<1>2. CASE Len(ring_) = 1
    BY <1>1, <1>2 DEF KeyAfter, PosAfter, RingKeys
<1>3. CASE Len(ring_) # 1
    <2>1. PosAfter(ring_, pos_, k) \in 0..(Len(ring_) - 1)
        BY <1>1, <1>3 DEF PosAfter
    <2>2. PosAfter(ring_, pos_, k) + 1 \in 1..Len(ring_)
        BY <1>1, <2>1
    <2>3. KeyAfter(ring_, pos_, k) = ring_[PosAfter(ring_, pos_, k) + 1]
        BY <1>3 DEF KeyAfter
    <2>4. KeyAfter(ring_, pos_, k) \in S /\ KeyAfter(ring_, pos_, k) \in RingKeys(ring_)
        BY <2>2, <2>3 DEF RingKeys
    <2> QED
        BY <1>1, <2>1, <2>4
<1> QED
    BY <1>2, <1>3

\* Remove leaves a ring that is one shorter, with a position in range.
LEMMA WithoutType ==
    ASSUME NEW S, NEW ring_ \in Seq(S), NEW pos_ \in Int,
           -1 <= pos_, pos_ < Len(ring_) \/ pos_ = -1,
           NEW key \in RingKeys(ring_)
    PROVE  /\ RingWithout(ring_, key) \in Seq(S)
           /\ Len(RingWithout(ring_, key)) = Len(ring_) - 1
           /\ PosWithout(ring_, pos_, key) \in Int
           /\ -1 <= PosWithout(ring_, pos_, key)
           /\ PosWithout(ring_, pos_, key) < Len(RingWithout(ring_, key)) \/ PosWithout(ring_, pos_, key) = -1
<1> DEFINE j == IndexOf(ring_, key)
           n == Len(ring_) - 1
<1>1. j \in 1..Len(ring_)
    BY IndexOfKey
<1>2. n \in Nat
    BY <1>1
<1> HIDE DEF j, n
<1>3. \A m \in 1..n : (IF m < j THEN ring_[m] ELSE ring_[m + 1]) \in S
    BY <1>1, <1>2 DEF n
<1>4. RingWithout(ring_, key) = [m \in 1..n |-> IF m < j THEN ring_[m] ELSE ring_[m + 1]]
    BY DEF RingWithout, j, n
<1>5. RingWithout(ring_, key) \in Seq(S) /\ Len(RingWithout(ring_, key)) = n
    BY <1>2, <1>3, <1>4, SeqDef
<1>6. /\ PosWithout(ring_, pos_, key) \in Int
      /\ -1 <= PosWithout(ring_, pos_, key)
      /\ PosWithout(ring_, pos_, key) < n \/ PosWithout(ring_, pos_, key) = -1
    BY <1>1, <1>2 DEF PosWithout, j, n
<1> QED
    BY <1>5, <1>6 DEF n

-----------------------------------------------------------------------------
(* Type correctness. *)

\* An item is put at the end of its group's queue.
LEMMA EnqueueType ==
    ASSUME TypeOK, NEW x \in Item, NEW st \in [Worker -> Status], Enqueue(x, st)
    PROVE  /\ fifo' \in [Group -> Seq(Item)]
           /\ idle' \subseteq groups
           /\ length' \in Nat
           /\ status' \in [Worker -> Status]
           /\ \A w \in Worker : status'[w] = "busy" <=> st[w] = "busy"
<1>1. GroupName[x] \in Group
    BY GroupAssumption
<1>2. Append(fifo[GroupName[x]], x) \in Seq(Item)
    BY <1>1 DEF TypeOK
<1>3. /\ status' \in [Worker -> Status]
      /\ \A w \in Worker : status'[w] = "busy" <=> st[w] = "busy"
    BY DEF Enqueue, Signal, Sleeping, Status
<1> QED
    BY <1>1, <1>2, <1>3 DEF TypeOK, Enqueue

\* A step of Add or of the waiting loop on the queue's own state.
LEMMA QueueAddType ==
    ASSUME TypeOK, NEW x \in Item, QueueAdd(x)
    PROVE  /\ groups' \subseteq Group /\ fifo' \in [Group -> Seq(Item)] /\ length' \in Nat
           /\ dirty' \subseteq Item /\ processing' \subseteq Item
           /\ ring' \in Seq(Group)
           /\ pos' \in Int /\ -1 <= pos' /\ (pos' < Len(ring') \/ pos' = -1)
           /\ idle' \subseteq groups' /\ status' \in [Worker -> Status]
           /\ \A w \in Worker : status'[w] = "busy" <=> status[w] = "busy"
<1>1. GroupName[x] \in Group
    BY GroupAssumption
<1>2. CASE shuttingDown \/ x \in dirty
    BY <1>2 DEF QueueAdd, TypeOK, queueVars
<1>3. CASE ~shuttingDown /\ x \notin dirty /\ x \in processing
    BY <1>3 DEF QueueAdd, TypeOK, queueVars
<1>4. CASE ~shuttingDown /\ x \notin dirty /\ x \notin processing
    <2>1. /\ dirty' = dirty \cup {x}
          /\ groups' = groups \cup {GroupName[x]}
          /\ ring' = IF GroupName[x] \in groups THEN ring ELSE Append(ring, GroupName[x])
          /\ Enqueue(x, status)
          /\ UNCHANGED <<processing, pos>>
        BY <1>4 DEF QueueAdd
    <2>2. ring' \in Seq(Group) /\ Len(ring') >= Len(ring) /\ Len(ring') \in Nat /\ Len(ring) \in Nat
        BY <1>1, <2>1 DEF TypeOK
    <2>3. /\ fifo' \in [Group -> Seq(Item)] /\ idle' \subseteq groups
          /\ length' \in Nat /\ status' \in [Worker -> Status]
          /\ \A w \in Worker : status'[w] = "busy" <=> status[w] = "busy"
        BY <2>1, EnqueueType DEF TypeOK
    <2> QED
        BY <1>1, <2>1, <2>2, <2>3 DEF TypeOK
<1> QED
    BY <1>2, <1>3, <1>4

\* The group that Get takes from, and the item it takes.
LEMMA GetItemFacts ==
    ASSUME TypeOK, NEW w \in Worker, GetItem(w)
    PROVE  \E k \in 1..Len(ring) : \E g \in RingKeys(ring) \cap Group : \E x \in Item :
              /\ g = KeyAfter(ring, pos, k)
              /\ fifo[g] # <<>> /\ x = Head(fifo[g]) /\ Tail(fifo[g]) \in Seq(Item)
              /\ fifo' = [fifo EXCEPT ![g] = Tail(fifo[g])]
              /\ length' = length - 1
              /\ processing' = processing \cup {x}
              /\ dirty' = dirty \ {x}
              /\ holds' = [holds EXCEPT ![w] = x]
              /\ status' = [status EXCEPT ![w] = "busy"]
              /\ pos' = PosAfter(ring, pos, k)
              /\ idle' = idle \ {g}
<1>1. PICK k \in 1..Len(ring) :
          /\ FirstNonEmpty(k)
          /\ Hand(w, KeyAfter(ring, pos, k))
          /\ pos' = PosAfter(ring, pos, k)
          /\ idle' = idle \ {KeyAfter(ring, pos, k)}
    BY DEF GetItem
<1> DEFINE g == KeyAfter(ring, pos, k)
<1>2. g \in RingKeys(ring) \cap Group
    BY NextType DEF TypeOK
<1>3. fifo[g] # <<>>
    BY <1>1 DEF FirstNonEmpty
<1>4. fifo[g] \in Seq(Item)
    BY <1>2 DEF TypeOK
<1>5. Head(fifo[g]) \in Item /\ Tail(fifo[g]) \in Seq(Item)
    BY <1>3, <1>4
<1> QED
    BY <1>1, <1>2, <1>3, <1>5 DEF Hand

\* Done makes one worker ready; who else is busy stays so.
LEMMA DoneBusy ==
    ASSUME TypeOK, NEW w \in Worker, Done(w)
    PROVE  \A v \in Worker : status'[v] = "busy" <=> v # w /\ status[v] = "busy"
<1> DEFINE x == holds[w]
           st == [status EXCEPT ![w] = "ready"]
<1>1. x \in Item /\ QueueDone(x, st)
    BY DEF Done, TypeOK
<1>2. st \in [Worker -> Status] /\ \A v \in Worker : st[v] = "busy" <=> v # w /\ status[v] = "busy"
    BY DEF TypeOK, Status
<1> HIDE DEF st, x
<1>3. CASE Enqueue(x, st)
    BY <1>1, <1>2, <1>3, EnqueueType
<1>4. CASE status' = st
    BY <1>2, <1>4
<1> QED
    BY <1>1, <1>3, <1>4 DEF QueueDone

\* Type correctness is inductive.
LEMMA TypeStep == TypeOK /\ [Next]_vars => TypeOK'
<1> SUFFICES ASSUME TypeOK, [Next]_vars PROVE TypeOK'
    OBVIOUS
<1>1. ASSUME NEW x \in Item, Add(x) PROVE TypeOK'
    BY <1>1, QueueAddType DEF Add, TypeOK
<1>2. ASSUME NEW x \in Item, AddAfter(x) PROVE TypeOK'
    BY <1>2 DEF AddAfter, TypeOK
<1>3. ASSUME NEW x \in Item, WaitingLoopAdd(x) PROVE TypeOK'
    BY <1>3, QueueAddType DEF WaitingLoopAdd, TypeOK
<1>4. ASSUME NEW w \in Worker, GetWait(w) PROVE TypeOK'
    BY <1>4 DEF GetWait, TypeOK, Status
<1>5. ASSUME NEW w \in Worker, GetStop(w) PROVE TypeOK'
    BY <1>5 DEF GetStop, TypeOK, Status
<1>6. ASSUME NEW w \in Worker, GetItem(w) PROVE TypeOK'
    <2>1. PICK k \in 1..Len(ring) : \E g \in RingKeys(ring) \cap Group : \E x \in Item :
              /\ Tail(fifo[g]) \in Seq(Item)
              /\ fifo' = [fifo EXCEPT ![g] = Tail(fifo[g])]
              /\ length' = length - 1
              /\ processing' = processing \cup {x}
              /\ dirty' = dirty \ {x}
              /\ holds' = [holds EXCEPT ![w] = x]
              /\ status' = [status EXCEPT ![w] = "busy"]
              /\ pos' = PosAfter(ring, pos, k)
              /\ idle' = idle \ {g}
        BY <1>6, GetItemFacts
    <2>2. pos' \in Int /\ -1 <= pos' /\ pos' < Len(ring)
        BY <2>1, NextType DEF TypeOK
    <2>3. /\ length # 0
          /\ UNCHANGED <<groups, ring, shuttingDown, waiting, mode>>
        BY <1>6 DEF GetItem
    <2> QED
        BY <2>1, <2>2, <2>3, ItemAssumption DEF TypeOK, Status
<1>7. ASSUME NEW w \in Worker, GetStuck(w) PROVE TypeOK'
    BY <1>7 DEF GetStuck, TypeOK
<1>8. ASSUME NEW w \in Worker, Done(w) PROVE TypeOK'
    <2> DEFINE x == holds[w]
               st == [status EXCEPT ![w] = "ready"]
    <2>1. x \in Item /\ GroupName[x] \in Group
        BY <1>8, GroupAssumption DEF Done, TypeOK
    <2>2. st \in [Worker -> Status] /\ \A v \in Worker : st[v] = "busy" <=> v # w /\ status[v] = "busy"
        BY DEF TypeOK, Status
    <2> HIDE DEF st, x
    <2>3. /\ QueueDone(x, st)
          /\ holds' = [holds EXCEPT ![w] = NoItem]
          /\ UNCHANGED <<shuttingDown, waiting, mode>>
        BY <1>8 DEF Done, x, st
    <2>4. /\ processing' = processing \ {x}
          /\ UNCHANGED <<dirty, ring, pos>>
        BY <2>3 DEF QueueDone
    <2>5. /\ groups' \subseteq Group /\ groups \subseteq groups'
          /\ fifo' \in [Group -> Seq(Item)] /\ length' \in Nat
          /\ idle' \subseteq groups /\ status' \in [Worker -> Status]
          /\ \A v \in Worker : status'[v] = "busy" <=> st[v] = "busy"
        <3>1. CASE GroupName[x] \in groups /\ x \in dirty
            BY <2>1, <2>2, <2>3, <3>1, EnqueueType DEF QueueDone, TypeOK
        <3>2. CASE GroupName[x] \notin groups \/ x \notin dirty
            BY <2>1, <2>2, <2>3, <3>2 DEF QueueDone, TypeOK
        <3> QED
            BY <3>1, <3>2
    <2>6. \A v \in Worker : status'[v] = "busy" <=> holds'[v] # NoItem
        BY <2>2, <2>3, <2>5 DEF TypeOK
    <2> QED
        BY <2>3, <2>4, <2>5, <2>6 DEF TypeOK
<1>9. ASSUME ShutDown PROVE TypeOK'
    BY <1>9 DEF ShutDown, Broadcast, TypeOK, Status
<1>10. ASSUME NEW g \in Group, Expire(g) PROVE TypeOK'
    BY <1>10 DEF Expire, TypeOK
<1>11. ASSUME NEW g \in Group, CleanIdle(g) PROVE TypeOK'
    <2>1. CASE g \in RingKeys(ring)
        <3>1. ring' = RingWithout(ring, g) /\ pos' = PosWithout(ring, pos, g)
            BY <1>11, <2>1 DEF CleanIdle
        <3>2. /\ ring' \in Seq(Group)
              /\ pos' \in Int /\ -1 <= pos' /\ (pos' < Len(ring') \/ pos' = -1)
            BY <2>1, <3>1, WithoutType DEF TypeOK
        <3> QED
            BY <1>11, <3>2 DEF CleanIdle, TypeOK
    <2>2. CASE g \notin RingKeys(ring)
        BY <1>11, <2>2 DEF CleanIdle, TypeOK
    <2> QED
        BY <2>1, <2>2
<1>12. CASE UNCHANGED vars
    BY <1>12 DEF vars, TypeOK
<1> QED
    BY <1>1, <1>2, <1>3, <1>4, <1>5, <1>6, <1>7, <1>8, <1>9, <1>10, <1>11, <1>12
       DEF Next, Get

LEMMA InitType == Init => TypeOK
<1> SUFFICES ASSUME Init PROVE TypeOK
    OBVIOUS
<1>1. fifo \in [Group -> Seq(Item)] /\ ring \in Seq(Group)
    BY DEF Init
<1>2. status \in [Worker -> Status] /\ holds \in [Worker -> Item \cup {NoItem}]
    BY DEF Init, Status
<1>3. \A w \in Worker : status[w] = "busy" <=> holds[w] # NoItem
    BY DEF Init
<1>4. pos \in Int /\ -1 <= pos /\ (pos < Len(ring) \/ pos = -1) /\ length \in Nat
    BY DEF Init
<1>5. shuttingDown \in BOOLEAN /\ mode \in {"running", "spinning", "panicked"}
    BY DEF Init
<1>6. /\ groups \subseteq Group /\ dirty \subseteq Item /\ processing \subseteq Item
      /\ idle \subseteq groups /\ waiting \subseteq Item
    BY DEF Init
<1> QED
    BY <1>1, <1>2, <1>3, <1>4, <1>5, <1>6 DEF TypeOK

\* Every variable of the queue keeps its type: in particular the balancer's position
\* never leaves its ring, whatever groups are added and swept, and a worker holds an
\* item exactly while it is busy.
THEOREM TypeCorrect == Spec => []TypeOK
BY InitType, TypeStep, PTL DEF Spec

-----------------------------------------------------------------------------
(* What is in the queues. *)

LEMMA QueuedDef == \A y : y \in Queued <=> \E g \in Group : y \in Elements(fifo[g])
BY DEF Queued

LEMMA QueuedDefPrime == \A y : y \in Queued' <=> \E g \in Group : y \in Elements(fifo'[g])
BY DEF Queued, Elements

\* Append adds one element.
LEMMA ElementsAppend ==
    ASSUME NEW S, NEW s \in Seq(S), NEW y \in S
    PROVE  Elements(Append(s, y)) = Elements(s) \cup {y}
<1>1. /\ Len(Append(s, y)) = Len(s) + 1 /\ Len(s) \in Nat
      /\ \A j \in 1..Len(s) : Append(s, y)[j] = s[j]
      /\ Append(s, y)[Len(s) + 1] = y
    OBVIOUS
<1>2. 1..(Len(s) + 1) = (1..Len(s)) \cup {Len(s) + 1}
    BY <1>1
<1> QED
    BY <1>1, <1>2 DEF Elements

\* Head and Tail take a sequence apart.
LEMMA ElementsTail ==
    ASSUME NEW S, NEW s \in Seq(S), s # <<>>
    PROVE  /\ Elements(s) = Elements(Tail(s)) \cup {Head(s)}
           /\ Head(s) = s[1] /\ 1 \in 1..Len(s)
           /\ Len(Tail(s)) = Len(s) - 1 /\ Len(s) \in Nat
           /\ \A j \in 1..Len(Tail(s)) : Tail(s)[j] = s[j + 1] /\ j + 1 \in 1..Len(s)
<1>1. /\ Len(s) \in Nat /\ Len(s) >= 1 /\ Len(Tail(s)) = Len(s) - 1
      /\ Head(s) = s[1]
      /\ \A j \in 1..(Len(s) - 1) : Tail(s)[j] = s[j + 1]
    OBVIOUS
<1>2. ASSUME NEW y \in Elements(s) PROVE y \in Elements(Tail(s)) \cup {Head(s)}
    <2>1. PICK j \in 1..Len(s) : y = s[j]
        BY DEF Elements
    <2>2. CASE j = 1
        BY <1>1, <2>1, <2>2
    <2>3. CASE j # 1
        <3>1. j - 1 \in 1..Len(Tail(s)) /\ Tail(s)[j - 1] = y
            BY <1>1, <2>1, <2>3
        <3> QED
            BY <3>1 DEF Elements
    <2> QED
        BY <2>2, <2>3
<1>3. ASSUME NEW y \in Elements(Tail(s)) PROVE y \in Elements(s)
    <2>1. PICK j \in 1..Len(Tail(s)) : y = Tail(s)[j]
        BY DEF Elements
    <2>2. j + 1 \in 1..Len(s) /\ y = s[j + 1]
        BY <1>1, <2>1
    <2> QED
        BY <2>2 DEF Elements
<1>4. Head(s) \in Elements(s)
    BY <1>1 DEF Elements
<1> QED
    BY <1>1, <1>2, <1>3, <1>4

\* The second part of QueuedIsPending: each item in the queue of its group, once.
WellPlaced ==
    \A g \in Group : \A j \in 1..Len(fifo[g]) :
        /\ GroupName[fifo[g][j]] = g
        /\ \A m \in 1..Len(fifo[g]) : fifo[g][j] = fifo[g][m] => j = m

\* An item that no queue holds is enqueued.
LEMMA EnqueueQueued ==
    ASSUME TypeOK, WellPlaced, NEW x \in Item, x \notin Queued,
           NEW st \in [Worker -> Status], Enqueue(x, st)
    PROVE  Queued' = Queued \cup {x} /\ WellPlaced'
<1> DEFINE h == GroupName[x]
<1>1. h \in Group /\ fifo[h] \in Seq(Item)
    BY GroupAssumption DEF TypeOK
<1>2. fifo' = [fifo EXCEPT ![h] = Append(fifo[h], x)]
    BY DEF Enqueue
<1>3. fifo'[h] = Append(fifo[h], x) /\ \A g \in Group : g # h => fifo'[g] = fifo[g]
    BY <1>1, <1>2 DEF TypeOK
<1> HIDE DEF h
<1>4. Elements(fifo'[h]) = Elements(fifo[h]) \cup {x}
    BY <1>1, <1>3, ElementsAppend
<1>5. Queued' = Queued \cup {x}
    BY <1>1, <1>3, <1>4, QueuedDef, QueuedDefPrime
<1>6. ASSUME NEW g \in Group, NEW j \in 1..Len(fifo'[g])
      PROVE  /\ GroupName[fifo'[g][j]] = g
             /\ \A m \in 1..Len(fifo'[g]) : fifo'[g][j] = fifo'[g][m] => j = m
    <2>1. CASE g # h
        BY <1>3, <1>6, <2>1 DEF WellPlaced
    <2>2. CASE g = h
        <3>1. /\ Len(fifo[h]) \in Nat /\ Len(fifo'[h]) = Len(fifo[h]) + 1
              /\ \A m \in 1..Len(fifo[h]) : fifo'[h][m] = fifo[h][m]
              /\ fifo'[h][Len(fifo[h]) + 1] = x
            BY <1>1, <1>3
        <3>2. \A m \in 1..Len(fifo[h]) : fifo[h][m] # x
            BY <1>1, QueuedDef DEF Elements
        <3>3. GroupName[x] = h
            BY DEF h
        <3>4. /\ \A m \in 1..Len(fifo[h]) : GroupName[fifo[h][m]] = h
              /\ \A m, n \in 1..Len(fifo[h]) : fifo[h][m] = fifo[h][n] => m = n
            BY <1>1 DEF WellPlaced
        <3>5. \A m \in 1..Len(fifo'[h]) : m \in 1..Len(fifo[h]) \/ m = Len(fifo[h]) + 1
            BY <3>1
        <3>6. \A m, n \in 1..Len(fifo'[h]) : fifo'[h][m] = fifo'[h][n] => m = n
            BY <3>1, <3>2, <3>4, <3>5
        <3>7. \A m \in 1..Len(fifo'[h]) : GroupName[fifo'[h][m]] = h
            BY <3>1, <3>3, <3>4, <3>5
        <3> QED
            BY <1>6, <2>2, <3>6, <3>7
    <2> QED
        BY <2>1, <2>2
<1>7. WellPlaced'
    BY <1>6 DEF WellPlaced
<1> QED
    BY <1>5, <1>7

\* The head of a queue is taken.
LEMMA TakeQueued ==
    ASSUME TypeOK, WellPlaced, NEW h \in Group, NEW x, fifo[h] # <<>>, x = Head(fifo[h]),
           fifo' = [fifo EXCEPT ![h] = Tail(fifo[h])]
    PROVE  x \in Queued /\ Queued' = Queued \ {x} /\ WellPlaced'
<1>1. fifo[h] \in Seq(Item)
    BY DEF TypeOK
<1>2. fifo'[h] = Tail(fifo[h]) /\ \A g \in Group : g # h => fifo'[g] = fifo[g]
    BY DEF TypeOK
<1> DEFINE s == fifo[h]
<1>3. /\ Elements(s) = Elements(fifo'[h]) \cup {x}
      /\ x = s[1] /\ 1 \in 1..Len(s)
      /\ Len(fifo'[h]) = Len(s) - 1 /\ Len(s) \in Nat
      /\ \A j \in 1..Len(fifo'[h]) : fifo'[h][j] = s[j + 1] /\ j + 1 \in 1..Len(s)
    <2>1. s \in Seq(Item) /\ s # <<>>
        BY <1>1
    <2>2. fifo'[h] = Tail(s) /\ x = Head(s)
        BY <1>2
    <2> HIDE DEF s
    <2>3. /\ Elements(s) = Elements(Tail(s)) \cup {Head(s)}
          /\ Head(s) = s[1] /\ 1 \in 1..Len(s)
          /\ Len(Tail(s)) = Len(s) - 1 /\ Len(s) \in Nat
          /\ \A j \in 1..Len(Tail(s)) : Tail(s)[j] = s[j + 1] /\ j + 1 \in 1..Len(s)
        BY <2>1, ElementsTail
    <2> QED
        BY <2>2, <2>3
<1>4. /\ \A m \in 1..Len(fifo[h]) : GroupName[fifo[h][m]] = h
      /\ \A m, n \in 1..Len(fifo[h]) : fifo[h][m] = fifo[h][n] => m = n
    BY DEF WellPlaced
<1>5. x \notin Elements(fifo'[h])
    <2> SUFFICES ASSUME NEW j \in 1..Len(fifo'[h]), x = fifo'[h][j] PROVE FALSE
        BY DEF Elements
    <2>1. fifo[h][j + 1] = fifo[h][1] /\ j + 1 \in 1..Len(fifo[h])
        BY <1>3
    <2>2. j + 1 = 1
        BY <1>3, <1>4, <2>1
    <2> QED
        BY <2>2
<1>6. \A g \in Group : g # h => x \notin Elements(fifo[g])
    <2> SUFFICES ASSUME NEW g \in Group, g # h, NEW j \in 1..Len(fifo[g]), x = fifo[g][j] PROVE FALSE
        BY DEF Elements
    <2>1. GroupName[x] = g
        BY DEF WellPlaced
    <2>2. GroupName[x] = h
        BY <1>3, <1>4
    <2> QED
        BY <2>1, <2>2
<1>7. x \in Queued /\ Queued' = Queued \ {x}
    BY <1>2, <1>3, <1>5, <1>6, QueuedDef, QueuedDefPrime
<1>8. ASSUME NEW g \in Group, NEW j \in 1..Len(fifo'[g])
      PROVE  /\ GroupName[fifo'[g][j]] = g
             /\ \A m \in 1..Len(fifo'[g]) : fifo'[g][j] = fifo'[g][m] => j = m
    <2>1. CASE g # h
        BY <1>2, <1>8, <2>1 DEF WellPlaced
    <2>2. CASE g = h
        <3>1. GroupName[fifo'[h][j]] = h
            <4>1. fifo'[h][j] = fifo[h][j + 1] /\ j + 1 \in 1..Len(fifo[h])
                BY <1>3, <1>8, <2>2
            <4> QED
                BY <1>4, <4>1
        <3>2. ASSUME NEW m \in 1..Len(fifo'[h]), fifo'[h][j] = fifo'[h][m] PROVE j = m
            <4>1. j + 1 = m + 1
                BY <1>3, <1>4, <1>8, <2>2, <3>2
            <4> QED
                BY <1>3, <1>8, <2>2, <4>1
        <3> QED
            BY <2>2, <3>1, <3>2
    <2> QED
        BY <2>1, <2>2
<1>9. WellPlaced'
    BY <1>8 DEF WellPlaced
<1> QED
    BY <1>7, <1>9

-----------------------------------------------------------------------------
(* The queue's bookkeeping. *)

\* The inductive invariant: QueuedIsPending needs OneWorkerPerItem when an item is
\* done (a held item is in no queue), which needs QueuedIsPending when one is taken
\* (a queued item is held by nobody); LengthCounts needs both to know that an item
\* comes to be queued, and to be taken, once.
SafeInv == TypeOK /\ QueuedIsPending /\ LengthCounts /\ OneWorkerPerItem

LEMMA QueuedFinite == ASSUME TypeOK PROVE Queued \subseteq Item /\ IsFiniteSet(Queued)
<1>1. Queued \subseteq Item
    BY DEF Queued, Elements, TypeOK
<1> QED
    BY <1>1, ItemAssumption, FS_Subset

LEMMA PendingParts == QueuedIsPending <=> Queued \subseteq dirty \ processing /\ WellPlaced
BY DEF QueuedIsPending, WellPlaced

LEMMA PendingPartsPrime ==
    QueuedIsPending' <=> Queued' \subseteq dirty' \ processing' /\ WellPlaced'
BY DEF QueuedIsPending, WellPlaced, Queued, Elements

LEMMA QueuesKept ==
    ASSUME UNCHANGED fifo
    PROVE  Queued' = Queued /\ (WellPlaced' <=> WellPlaced)
BY DEF Queued, Elements, WellPlaced

\* An enqueued item is counted.
LEMMA EnqueueCounts ==
    ASSUME TypeOK, LengthCounts, WellPlaced, NEW x \in Item, x \notin Queued,
           NEW st \in [Worker -> Status], Enqueue(x, st)
    PROVE  LengthCounts' /\ Queued' = Queued \cup {x} /\ WellPlaced'
<1>1. Queued' = Queued \cup {x} /\ WellPlaced'
    BY EnqueueQueued
<1>2. Cardinality(Queued \cup {x}) = Cardinality(Queued) + 1
    BY QueuedFinite, FS_AddElement
<1>3. length' = length + 1
    BY DEF Enqueue
<1> QED
    BY <1>1, <1>2, <1>3 DEF LengthCounts

\* Workers that hold what they held keep OneWorkerPerItem.
LEMMA WorkersKept ==
    ASSUME OneWorkerPerItem, UNCHANGED <<holds, processing>>,
           \A w \in Worker : status'[w] = "busy" <=> status[w] = "busy"
    PROVE  OneWorkerPerItem'
BY DEF OneWorkerPerItem

LEMMA QueueAddSafe ==
    ASSUME SafeInv, NEW x \in Item, QueueAdd(x), UNCHANGED holds
    PROVE  QueuedIsPending' /\ LengthCounts' /\ OneWorkerPerItem'
<1>1. OneWorkerPerItem'
    <2>1. UNCHANGED processing
        BY DEF QueueAdd, queueVars
    <2> QED
        BY <2>1, QueueAddType, WorkersKept DEF SafeInv
<1>2. CASE (shuttingDown \/ x \in dirty) \/ x \in processing
    <2>1. UNCHANGED <<fifo, length, processing>> /\ dirty \subseteq dirty'
        BY <1>2 DEF QueueAdd, queueVars
    <2> QED
        BY <1>1, <2>1, QueuesKept, PendingParts, PendingPartsPrime DEF SafeInv, LengthCounts
<1>3. CASE ~shuttingDown /\ x \notin dirty /\ x \notin processing
    <2>1. dirty' = dirty \cup {x} /\ Enqueue(x, status) /\ UNCHANGED processing
        BY <1>3 DEF QueueAdd
    <2>2. x \notin Queued /\ WellPlaced /\ Queued \subseteq dirty \ processing
        BY <1>3, PendingParts DEF SafeInv
    <2>3. LengthCounts' /\ Queued' = Queued \cup {x} /\ WellPlaced'
        BY <2>1, <2>2, EnqueueCounts DEF SafeInv, TypeOK
    <2> QED
        BY <1>1, <1>3, <2>1, <2>2, <2>3, PendingPartsPrime
<1> QED
    BY <1>2, <1>3

LEMMA GetItemSafe ==
    ASSUME SafeInv, NEW w \in Worker, GetItem(w)
    PROVE  QueuedIsPending' /\ LengthCounts' /\ OneWorkerPerItem'
<1>1. PICK g \in Group : \E x \in Item :
          /\ fifo[g] # <<>> /\ x = Head(fifo[g])
          /\ fifo' = [fifo EXCEPT ![g] = Tail(fifo[g])]
          /\ length' = length - 1
          /\ processing' = processing \cup {x}
          /\ dirty' = dirty \ {x}
          /\ holds' = [holds EXCEPT ![w] = x]
          /\ status' = [status EXCEPT ![w] = "busy"]
    BY GetItemFacts DEF SafeInv
<1>2. PICK x \in Item :
          /\ fifo[g] # <<>> /\ x = Head(fifo[g])
          /\ fifo' = [fifo EXCEPT ![g] = Tail(fifo[g])]
          /\ length' = length - 1
          /\ processing' = processing \cup {x}
          /\ dirty' = dirty \ {x}
          /\ holds' = [holds EXCEPT ![w] = x]
          /\ status' = [status EXCEPT ![w] = "busy"]
    BY <1>1
<1>3. WellPlaced /\ Queued \subseteq dirty \ processing
    BY PendingParts DEF SafeInv
<1>4. x \in Queued /\ Queued' = Queued \ {x} /\ WellPlaced'
    BY <1>2, <1>3, TakeQueued DEF SafeInv
<1>5. QueuedIsPending'
    BY <1>2, <1>3, <1>4, PendingPartsPrime
<1>6. LengthCounts'
    <2>1. Cardinality(Queued \ {x}) = Cardinality(Queued) - 1
        BY <1>4, QueuedFinite, FS_RemoveElement DEF SafeInv
    <2> QED
        BY <1>2, <1>4, <2>1 DEF SafeInv, LengthCounts
<1>7. OneWorkerPerItem'
    <2>1. x \notin processing
        BY <1>3, <1>4
    <2>2. status[w] # "busy"
        BY DEF GetItem
    <2>3. \A v \in Worker : v # w => holds'[v] = holds[v] /\ status'[v] = status[v]
        BY <1>2 DEF SafeInv, TypeOK
    <2>4. holds'[w] = x /\ status'[w] = "busy"
        BY <1>2 DEF SafeInv, TypeOK
    <2>5. \A v \in Worker : status[v] = "busy" => holds[v] # x
        BY <2>1 DEF SafeInv, OneWorkerPerItem
    <2> QED
        BY <1>2, <2>2, <2>3, <2>4, <2>5 DEF SafeInv, OneWorkerPerItem
<1> QED
    BY <1>5, <1>6, <1>7

LEMMA DoneSafe ==
    ASSUME SafeInv, NEW w \in Worker, Done(w)
    PROVE  QueuedIsPending' /\ LengthCounts' /\ OneWorkerPerItem'
<1> DEFINE x == holds[w]
           st == [status EXCEPT ![w] = "ready"]
<1>1. x \in Item /\ x \in processing /\ status[w] = "busy"
    BY DEF Done, SafeInv, TypeOK, OneWorkerPerItem
<1>2. st \in [Worker -> Status] /\ \A v \in Worker : st[v] = "busy" <=> v # w /\ status[v] = "busy"
    BY DEF SafeInv, TypeOK, Status
<1>3. /\ QueueDone(x, st)
      /\ holds' = [holds EXCEPT ![w] = NoItem]
    BY DEF Done
<1>4. processing' = processing \ {x} /\ UNCHANGED dirty
    BY <1>3 DEF QueueDone
<1>5. \A v \in Worker : v # w /\ status[v] = "busy" => holds[v] # x
    BY <1>1 DEF SafeInv, OneWorkerPerItem
<1> HIDE DEF x, st
<1>6. WellPlaced /\ Queued \subseteq dirty \ processing /\ x \notin Queued
    BY <1>1, PendingParts DEF SafeInv
<1>7. /\ QueuedIsPending' /\ LengthCounts'
      /\ \A v \in Worker : status'[v] = "busy" <=> st[v] = "busy"
    <2>1. CASE GroupName[x] \in groups /\ x \in dirty
        <3>1. Enqueue(x, st)
            BY <1>3, <2>1 DEF QueueDone
        <3>2. LengthCounts' /\ Queued' = Queued \cup {x} /\ WellPlaced'
            BY <1>1, <1>2, <1>6, <3>1, EnqueueCounts DEF SafeInv
        <3>3. \A v \in Worker : status'[v] = "busy" <=> st[v] = "busy"
            BY <1>1, <1>2, <3>1, EnqueueType DEF SafeInv
        <3> QED
            BY <1>4, <1>6, <2>1, <3>2, <3>3, PendingPartsPrime
    <2>2. CASE GroupName[x] \notin groups \/ x \notin dirty
        <3>1. UNCHANGED <<fifo, length>> /\ status' = st
            BY <1>3, <2>2 DEF QueueDone
        <3> QED
            BY <1>4, <1>6, <3>1, QueuesKept, PendingPartsPrime DEF SafeInv, LengthCounts
    <2> QED
        BY <2>1, <2>2
<1>8. OneWorkerPerItem'
    <2>1. \A v \in Worker : v # w => holds'[v] = holds[v]
        BY <1>3 DEF SafeInv, TypeOK
    <2>2. \A v \in Worker : status'[v] = "busy" <=> v # w /\ status[v] = "busy"
        BY <1>2, <1>7
    <2>3. ASSUME NEW y PROVE y \in processing' <=> \E v \in Worker : status'[v] = "busy" /\ y = holds'[v]
        BY <1>1, <1>4, <1>5, <2>1, <2>2 DEF SafeInv, OneWorkerPerItem, x
    <2> QED
        BY <2>1, <2>2, <2>3 DEF SafeInv, OneWorkerPerItem
<1> QED
    BY <1>7, <1>8

\* The invariant is inductive.
LEMMA SafeStep == SafeInv /\ [Next]_vars => SafeInv'
<1> SUFFICES ASSUME SafeInv, [Next]_vars PROVE SafeInv'
    OBVIOUS
<1>0. TypeOK'
    BY TypeStep DEF SafeInv
<1>1. ASSUME NEW x \in Item, Add(x) PROVE SafeInv'
    BY <1>0, <1>1, QueueAddSafe DEF Add, SafeInv
<1>2. ASSUME NEW x \in Item, WaitingLoopAdd(x) PROVE SafeInv'
    BY <1>0, <1>2, QueueAddSafe DEF WaitingLoopAdd, SafeInv
<1>3. ASSUME NEW w \in Worker, GetItem(w) PROVE SafeInv'
    BY <1>0, <1>3, GetItemSafe DEF SafeInv
<1>4. ASSUME NEW w \in Worker, Done(w) PROVE SafeInv'
    BY <1>0, <1>4, DoneSafe DEF SafeInv
<1>5. ASSUME UNCHANGED <<fifo, length, dirty, processing, holds>>,
             \A w \in Worker : status'[w] = "busy" <=> status[w] = "busy"
      PROVE  SafeInv'
    BY <1>0, <1>5, QueuesKept, PendingParts, PendingPartsPrime, WorkersKept
       DEF SafeInv, LengthCounts
<1>6. ASSUME NEW w \in Worker, GetWait(w) \/ GetStop(w) PROVE SafeInv'
    BY <1>5, <1>6 DEF GetWait, GetStop, SafeInv, TypeOK
<1>7. ASSUME NEW w \in Worker, GetStuck(w) PROVE SafeInv'
    BY <1>5, <1>7 DEF GetStuck
<1>8. ASSUME NEW x \in Item, AddAfter(x) PROVE SafeInv'
    BY <1>5, <1>8 DEF AddAfter
<1>9. ASSUME ShutDown PROVE SafeInv'
    BY <1>5, <1>9 DEF ShutDown, Broadcast, SafeInv, TypeOK
<1>10. ASSUME NEW g \in Group, Expire(g) \/ CleanIdle(g) PROVE SafeInv'
    BY <1>5, <1>10 DEF Expire, CleanIdle
<1>11. CASE UNCHANGED vars
    BY <1>5, <1>11 DEF vars
<1> QED
    BY <1>1, <1>2, <1>3, <1>4, <1>6, <1>7, <1>8, <1>9, <1>10, <1>11 DEF Next, Get

LEMMA InitSafe == Init => SafeInv
<1> SUFFICES ASSUME Init PROVE SafeInv
    OBVIOUS
<1>1. TypeOK
    BY InitType
<1>2. \A g \in Group : fifo[g] = <<>> /\ Elements(fifo[g]) = {} /\ Len(fifo[g]) = 0
    BY DEF Init, Elements
<1>3. Queued = {}
    BY <1>2, QueuedDef
<1>4. QueuedIsPending
    BY <1>2, <1>3 DEF QueuedIsPending
<1>5. LengthCounts
    BY <1>3, FS_EmptySet DEF LengthCounts, Init
<1>6. OneWorkerPerItem
    BY DEF OneWorkerPerItem, Init
<1> QED
    BY <1>1, <1>4, <1>5, <1>6 DEF SafeInv

LEMMA AlwaysSafe == Spec => []SafeInv
BY InitSafe, SafeStep, PTL DEF Spec

\* "Every element of queue should be in the dirty set and not in the processing set"
\* (fifo.go:41-43): what is queued was added and has not been taken, waits in the queue of
\* its own group and is there once, for any number of tenants, items and workers.
THEOREM PendingOnce == Spec => []QueuedIsPending
<1>1. SafeInv => QueuedIsPending
    BY DEF SafeInv
<1> QED
    BY <1>1, AlwaysSafe, PTL

\* "length is the sum of queues size" (fair.go:42).
THEOREM LengthIsRight == Spec => []LengthCounts
<1>1. SafeInv => LengthCounts
    BY DEF SafeInv
<1> QED
    BY <1>1, AlwaysSafe, PTL

\* An item is marked processing exactly while one worker holds it (Get and Done).
THEOREM HeldByOne == Spec => []OneWorkerPerItem
<1>1. SafeInv => OneWorkerPerItem
    BY DEF SafeInv
<1> QED
    BY <1>1, AlwaysSafe, PTL

-----------------------------------------------------------------------------
(* Wake-ups. *)

Ready(st) == {w \in Worker : st[w] = "ready"}

\* Signal turns a sleeper, if there is one, into one more ready worker.
LEMMA SignalWakes ==
    ASSUME NEW st \in [Worker -> Status], NEW st2 \in Signal(st), Sleeping(st2) # {}
    PROVE  Sleeping(st) # {} /\ Cardinality(Ready(st2)) = Cardinality(Ready(st)) + 1
<1>1. Sleeping(st) # {}
    BY DEF Signal, Sleeping
<1>2. PICK w \in Sleeping(st) : st2 = [st EXCEPT ![w] = "ready"]
    BY <1>1 DEF Signal
<1>3. Ready(st2) = Ready(st) \cup {w} /\ w \notin Ready(st)
    BY <1>2 DEF Ready, Sleeping
<1>4. IsFiniteSet(Ready(st))
    BY WorkerAssumption, FS_Subset DEF Ready
<1> QED
    BY <1>1, <1>3, <1>4, FS_AddElement

LEMMA ReadyCount ==
    ASSUME NEW st \in [Worker -> Status], NEW w \in Worker
    PROVE  /\ IsFiniteSet(Ready(st)) /\ Cardinality(Ready(st)) \in Nat
           /\ st[w] = "ready" =>
                \A a \in Status \ {"ready"} :
                    Cardinality(Ready([st EXCEPT ![w] = a])) = Cardinality(Ready(st)) - 1
           /\ st[w] # "ready" =>
                Cardinality(Ready([st EXCEPT ![w] = "ready"])) = Cardinality(Ready(st)) + 1
<1>1. IsFiniteSet(Ready(st)) /\ Cardinality(Ready(st)) \in Nat
    BY WorkerAssumption, FS_Subset, FS_CardinalityType DEF Ready
<1>2. ASSUME st[w] = "ready", NEW a \in Status \ {"ready"}
      PROVE  Cardinality(Ready([st EXCEPT ![w] = a])) = Cardinality(Ready(st)) - 1
    <2>1. Ready([st EXCEPT ![w] = a]) = Ready(st) \ {w} /\ w \in Ready(st)
        BY <1>2 DEF Ready
    <2> QED
        BY <1>1, <2>1, FS_RemoveElement
<1>3. ASSUME st[w] # "ready"
      PROVE  Cardinality(Ready([st EXCEPT ![w] = "ready"])) = Cardinality(Ready(st)) + 1
    <2>1. Ready([st EXCEPT ![w] = "ready"]) = Ready(st) \cup {w} /\ w \notin Ready(st)
        BY <1>3 DEF Ready
    <2> QED
        BY <1>1, <2>1, FS_AddElement
<1> QED
    BY <1>1, <1>2, <1>3

\* NoLostWakeup in terms of Ready.
LEMMA WakeParts ==
    /\ NoLostWakeup <=> (Sleeping(status) # {} => length <= Cardinality(Ready(status)))
    /\ NoLostWakeup' <=> (Sleeping(status') # {} => length' <= Cardinality(Ready(status')))
BY DEF NoLostWakeup, Ready, Sleeping

LEMMA EnqueueWakes ==
    ASSUME TypeOK, NEW x, NEW st \in [Worker -> Status], Enqueue(x, st),
           Sleeping(st) # {} => length <= Cardinality(Ready(st))
    PROVE  NoLostWakeup'
<1>1. length' = length + 1 /\ length \in Nat /\ status' \in Signal(st)
    BY DEF Enqueue, TypeOK
<1>2. ASSUME Sleeping(status') # {} PROVE length' <= Cardinality(Ready(status'))
    <2>1. Sleeping(st) # {} /\ Cardinality(Ready(status')) = Cardinality(Ready(st)) + 1
        BY <1>1, <1>2, SignalWakes
    <2>2. Cardinality(Ready(st)) \in Nat
        BY WorkerAssumption, FS_Subset, FS_CardinalityType DEF Ready
    <2> QED
        BY <1>1, <2>1, <2>2
<1> QED
    BY <1>2, WakeParts

LEMMA WakeStep == TypeOK /\ NoLostWakeup /\ [Next]_vars => NoLostWakeup'
<1> SUFFICES ASSUME TypeOK, NoLostWakeup, [Next]_vars PROVE NoLostWakeup'
    OBVIOUS
<1>0. status \in [Worker -> Status] /\ (Sleeping(status) # {} => length <= Cardinality(Ready(status)))
    BY WakeParts DEF TypeOK
<1>1. ASSUME NEW x \in Item, QueueAdd(x) PROVE NoLostWakeup'
    <2>1. CASE UNCHANGED <<length, status>>
        BY <2>1, <1>0, WakeParts
    <2>2. CASE Enqueue(x, status)
        BY <2>2, <1>0, EnqueueWakes
    <2> QED
        BY <1>1, <2>1, <2>2 DEF QueueAdd, queueVars
<1>2. ASSUME NEW x \in Item, Add(x) \/ WaitingLoopAdd(x) PROVE NoLostWakeup'
    BY <1>1, <1>2 DEF Add, WaitingLoopAdd
<1>3. ASSUME NEW w \in Worker, GetWait(w) \/ GetStop(w) PROVE NoLostWakeup'
    <2>1. length' = 0 /\ status' \in [Worker -> Status]
        BY <1>3, <1>0 DEF GetWait, GetStop, Status
    <2>2. Cardinality(Ready(status')) \in Nat
        BY <2>1, WorkerAssumption, FS_Subset, FS_CardinalityType DEF Ready
    <2> QED
        BY <2>1, <2>2, WakeParts
<1>4. ASSUME NEW w \in Worker, GetItem(w) PROVE NoLostWakeup'
    <2>1. length' = length - 1 /\ status' = [status EXCEPT ![w] = "busy"]
        BY <1>4, GetItemFacts
    <2>2. status[w] = "ready" /\ length \in Nat
        BY <1>4 DEF GetItem, TypeOK
    <2>3. Cardinality(Ready(status')) = Cardinality(Ready(status)) - 1
        BY <1>0, <2>1, <2>2, ReadyCount DEF Status
    <2>4. Sleeping(status') = Sleeping(status)
        BY <1>0, <2>1, <2>2 DEF Sleeping
    <2>5. Cardinality(Ready(status)) \in Nat
        BY <1>0, ReadyCount
    <2>6. Sleeping(status') # {} => length' <= Cardinality(Ready(status'))
        <3>1. length' = length - 1
            BY <2>1
        <3> QED
            BY <1>0, <3>1, <2>2, <2>3, <2>4, <2>5
    <2> QED
        BY <2>6, WakeParts
<1>5. ASSUME NEW w \in Worker, Done(w) PROVE NoLostWakeup'
    <2> DEFINE st == [status EXCEPT ![w] = "ready"]
    <2>1. status[w] = "busy" /\ QueueDone(holds[w], st) /\ length \in Nat
        BY <1>5 DEF Done, TypeOK
    <2>2. st \in [Worker -> Status] /\ Sleeping(st) = Sleeping(status)
        BY <1>0, <2>1 DEF Sleeping, Status
    <2>3. Cardinality(Ready(st)) = Cardinality(Ready(status)) + 1
        BY <1>0, <2>1, ReadyCount
    <2>4. Cardinality(Ready(status)) \in Nat
        BY <1>0, ReadyCount
    <2> HIDE DEF st
    <2>5. Sleeping(st) # {} => length <= Cardinality(Ready(st))
        BY <1>0, <2>1, <2>2, <2>3, <2>4
    <2>6. CASE Enqueue(holds[w], st)
        BY <2>2, <2>5, <2>6, EnqueueWakes
    <2>7. CASE status' = st /\ UNCHANGED length
        BY <2>5, <2>7, WakeParts
    <2> QED
        BY <2>1, <2>6, <2>7 DEF QueueDone
<1>6. ASSUME ShutDown PROVE NoLostWakeup'
    <2>1. Sleeping(status') = {}
        BY <1>6, <1>0 DEF ShutDown, Broadcast, Sleeping
    <2> QED
        BY <2>1, WakeParts
<1>7. CASE UNCHANGED <<length, status>>
    BY <1>0, <1>7, WakeParts
<1> QED
    BY <1>2, <1>3, <1>4, <1>5, <1>6, <1>7
       DEF Next, Get, AddAfter, GetStuck, Expire, CleanIdle, vars

\* No wake-up is lost: although Signal is called once per item and wakes one worker
\* only, while some worker sleeps in Get there are at least as many workers on their
\* way to Get as there are items queued.
THEOREM WakeUps == Spec => []NoLostWakeup
<1>1. Init => NoLostWakeup
    <2>1. Init => Sleeping(status) = {}
        BY DEF Init, Sleeping
    <2> QED
        BY <2>1, WakeParts
<1> QED
    BY <1>1, TypeCorrect, WakeStep, PTL DEF Spec

-----------------------------------------------------------------------------
(* The contract of a work queue. *)

\* The fair queue refines WorkQueue: a worker takes only items that are pending and
\* that nobody works on, an added item stays pending until it is taken, and finishing
\* an item never makes a pending one disappear.
THEOREM RefinesWorkQueue == Spec => ImplementsWorkQueue
<1>1. Init => Contract!Init
    BY DEF Init, Contract!Init
<1>2. SafeInv /\ [Next]_vars => [Contract!Next]_(Contract!vars)
    <2> SUFFICES ASSUME SafeInv, [Next]_vars
                 PROVE  Contract!Next \/ UNCHANGED <<dirty, processing, shuttingDown>>
        BY DEF Contract!vars
    <2>1. ASSUME NEW x \in Item, Add(x) \/ WaitingLoopAdd(x)
          PROVE  Contract!Add(x) \/ UNCHANGED <<dirty, processing, shuttingDown>>
        BY <2>1 DEF Add, WaitingLoopAdd, QueueAdd, queueVars, Contract!Add
    <2>2. ASSUME NEW w \in Worker, GetItem(w) PROVE \E x \in Item : Contract!Take(x)
        <3>1. PICK g \in Group : \E x \in Item :
                  /\ fifo[g] # <<>> /\ x = Head(fifo[g])
                  /\ fifo' = [fifo EXCEPT ![g] = Tail(fifo[g])]
                  /\ processing' = processing \cup {x}
                  /\ dirty' = dirty \ {x}
            BY <2>2, GetItemFacts DEF SafeInv
        <3>2. PICK x \in Item :
                  /\ fifo[g] # <<>> /\ x = Head(fifo[g])
                  /\ fifo' = [fifo EXCEPT ![g] = Tail(fifo[g])]
                  /\ processing' = processing \cup {x}
                  /\ dirty' = dirty \ {x}
            BY <3>1
        <3>3. x \in Queued
            BY <3>2, TakeQueued, PendingParts DEF SafeInv
        <3>4. x \in dirty \ processing
            BY <3>3, PendingParts DEF SafeInv
        <3> QED
            BY <2>2, <3>2, <3>4 DEF GetItem, Contract!Take
    <2>3. ASSUME NEW w \in Worker, Done(w) PROVE \E x \in Item : Contract!Finish(x)
        <3>1. holds[w] \in Item /\ holds[w] \in processing
            BY <2>3 DEF Done, SafeInv, TypeOK, OneWorkerPerItem
        <3>2. Contract!Finish(holds[w])
            BY <2>3, <3>1 DEF Done, QueueDone, Contract!Finish
        <3> QED
            BY <3>1, <3>2
    <2>4. ASSUME ShutDown PROVE Contract!Close
        BY <2>4 DEF ShutDown, Contract!Close
    <2> QED
        BY <2>1, <2>2, <2>3, <2>4
           DEF Next, Get, Contract!Next, AddAfter, GetWait, GetStop, GetStuck, Expire,
               CleanIdle, vars
<1> QED
    BY <1>1, <1>2, InitSafe, SafeStep, PTL DEF Spec, ImplementsWorkQueue, Contract!Spec

-----------------------------------------------------------------------------
(* Nothing is lost, as long as no worker is slower than the sweep. *)

Distinct(s) == \A i, j \in 1..Len(s) : s[i] = s[j] => i = j

\* Remove removes the key and no other.
LEMMA WithoutKeys ==
    ASSUME NEW S, NEW ring_ \in Seq(S), Distinct(ring_), NEW key \in RingKeys(ring_)
    PROVE  /\ RingKeys(RingWithout(ring_, key)) = RingKeys(ring_) \ {key}
           /\ Distinct(RingWithout(ring_, key))
<1> DEFINE j == IndexOf(ring_, key)
           n == Len(ring_) - 1
           r == RingWithout(ring_, key)
<1>1. j \in 1..Len(ring_) /\ ring_[j] = key
    BY IndexOfKey
<1>2. n \in Nat
    BY <1>1
<1>3. r = [m \in 1..n |-> IF m < j THEN ring_[m] ELSE ring_[m + 1]]
    BY DEF RingWithout
<1> HIDE DEF j, n, r
<1>4. Len(r) = n
    BY <1>2, <1>3
<1>5. \A m \in 1..n :
          /\ m < j => r[m] = ring_[m] /\ m \in 1..Len(ring_)
          /\ ~(m < j) => r[m] = ring_[m + 1] /\ m + 1 \in 1..Len(ring_)
    BY <1>1, <1>2, <1>3 DEF n
<1>6. \A m \in 1..n : r[m] \in RingKeys(ring_) /\ r[m] # key
    BY <1>1, <1>2, <1>5 DEF RingKeys, Distinct
<1>7. ASSUME NEW y \in RingKeys(ring_), y # key PROVE \E m \in 1..n : r[m] = y
    <2>1. PICK i \in 1..Len(ring_) : ring_[i] = y
        BY DEF RingKeys
    <2>2. CASE i < j
        BY <1>1, <1>2, <1>5, <2>1, <2>2 DEF n
    <2>3. CASE i > j
        <3>1. i - 1 \in 1..n /\ ~(i - 1 < j) /\ (i - 1) + 1 = i
            BY <1>1, <1>2, <2>1, <2>3 DEF n
        <3>2. r[i - 1] = y
            BY <1>5, <2>1, <3>1
        <3> QED
            BY <3>1, <3>2
    <2> QED
        BY <1>1, <1>7, <2>1, <2>2, <2>3
<1>8. RingKeys(r) = RingKeys(ring_) \ {key}
    BY <1>4, <1>6, <1>7 DEF RingKeys
<1>9. Distinct(r)
    BY <1>1, <1>2, <1>4, <1>5, SMTT(20) DEF Distinct
<1> QED
    BY <1>8, <1>9 DEF r

\* What sweeping relies on.
SweepInv ==
    /\ mode = "running"
    /\ RingKeys(ring) = groups /\ Distinct(ring)
    /\ \A g \in Group \ groups : fifo[g] = <<>>
    /\ \A x \in processing : GroupName[x] \in groups \ idle
    /\ NothingLost

LEMMA SweepAdd ==
    ASSUME SafeInv, SweepInv, NEW x \in Item, QueueAdd(x), UNCHANGED mode
    PROVE  SweepInv'
<1> DEFINE h == GroupName[x]
<1>1. h \in Group
    BY GroupAssumption
<1>2. CASE shuttingDown \/ x \in dirty
    BY <1>2, QueuesKept DEF QueueAdd, queueVars, SweepInv, NothingLost, Distinct, RingKeys
<1>3. CASE ~shuttingDown /\ x \notin dirty /\ x \in processing
    <2>1. dirty' = dirty \cup {x} /\ UNCHANGED <<groups, fifo, processing, ring, idle>>
        BY <1>3 DEF QueueAdd
    <2> QED
        BY <1>3, <2>1, QueuesKept DEF SweepInv, NothingLost, Distinct, RingKeys
<1>4. CASE ~shuttingDown /\ x \notin dirty /\ x \notin processing
    <2>1. /\ dirty' = dirty \cup {x} /\ UNCHANGED processing
          /\ groups' = groups \cup {h}
          /\ ring' = IF h \in groups THEN ring ELSE Append(ring, h)
          /\ Enqueue(x, status)
        BY <1>4 DEF QueueAdd
    <2>2. /\ fifo' = [fifo EXCEPT ![h] = Append(fifo[h], x)]
          /\ idle' = idle \ {h}
        BY <2>1 DEF Enqueue
    <2>3. Queued' = Queued \cup {x}
        BY <1>4, <2>1, EnqueueQueued, PendingParts DEF SafeInv, TypeOK
    <2>4. \A g \in Group \ groups' : fifo'[g] = <<>>
        BY <2>1, <2>2 DEF SweepInv, SafeInv, TypeOK
    <2> HIDE DEF h
    <2>5. RingKeys(ring') = groups' /\ Distinct(ring')
        <3>1. CASE h \in groups
            BY <2>1, <3>1 DEF SweepInv, Distinct, RingKeys
        <3>2. CASE h \notin groups
            <4>1. ring' = Append(ring, h) /\ ring \in Seq(Group)
                BY <2>1, <3>2 DEF SafeInv, TypeOK
            <4>2. /\ Len(ring) \in Nat /\ Len(ring') = Len(ring) + 1
                  /\ \A j \in 1..Len(ring) : ring'[j] = ring[j]
                  /\ ring'[Len(ring) + 1] = h
                BY <1>1, <4>1
            <4>3. 1..Len(ring') = (1..Len(ring)) \cup {Len(ring) + 1}
                BY <4>2
            <4>4. \A j \in 1..Len(ring) : ring[j] # h
                BY <3>2 DEF SweepInv, RingKeys
            <4>5. RingKeys(ring') = RingKeys(ring) \cup {h}
                BY <4>2, <4>3 DEF RingKeys
            <4>6. Distinct(ring')
                BY <4>2, <4>3, <4>4 DEF SweepInv, Distinct
            <4> QED
                BY <2>1, <4>5, <4>6 DEF SweepInv
        <3> QED
            BY <3>1, <3>2
    <2>6. \A y \in processing' : GroupName[y] \in groups' \ idle'
        BY <2>1, <2>2 DEF SweepInv
    <2> QED
        BY <2>1, <2>3, <2>4, <2>5, <2>6 DEF SweepInv, NothingLost
<1> QED
    BY <1>2, <1>3, <1>4

LEMMA SweepGet ==
    ASSUME SafeInv, SweepInv, NEW w \in Worker, GetItem(w)
    PROVE  SweepInv'
<1>1. PICK g \in RingKeys(ring) \cap Group : \E x \in Item :
          /\ fifo[g] # <<>> /\ x = Head(fifo[g])
          /\ fifo' = [fifo EXCEPT ![g] = Tail(fifo[g])]
          /\ processing' = processing \cup {x}
          /\ dirty' = dirty \ {x}
          /\ idle' = idle \ {g}
    BY GetItemFacts DEF SafeInv
<1>2. PICK x \in Item :
          /\ fifo[g] # <<>> /\ x = Head(fifo[g])
          /\ fifo' = [fifo EXCEPT ![g] = Tail(fifo[g])]
          /\ processing' = processing \cup {x}
          /\ dirty' = dirty \ {x}
          /\ idle' = idle \ {g}
    BY <1>1
<1>3. UNCHANGED <<groups, ring, mode>>
    BY DEF GetItem
<1>4. Queued' = Queued \ {x}
    BY <1>2, TakeQueued, PendingParts DEF SafeInv
<1>5. GroupName[x] = g
    <2>1. x = fifo[g][1] /\ 1 \in 1..Len(fifo[g])
        BY <1>2, ElementsTail DEF SafeInv, TypeOK
    <2> QED
        BY <2>1, PendingParts DEF SafeInv, WellPlaced
<1>6. \A h \in Group \ groups' : fifo'[h] = <<>>
    BY <1>2, <1>3 DEF SweepInv, SafeInv, TypeOK
<1>7. \A y \in processing' : GroupName[y] \in groups' \ idle'
    BY <1>2, <1>3, <1>5 DEF SweepInv
<1> QED
    BY <1>2, <1>3, <1>4, <1>6, <1>7 DEF SweepInv, NothingLost, Distinct, RingKeys

LEMMA SweepDone ==
    ASSUME SafeInv, SweepInv, NEW w \in Worker, Done(w)
    PROVE  SweepInv'
<1> DEFINE x == holds[w]
           st == [status EXCEPT ![w] = "ready"]
<1>1. x \in Item /\ x \in processing /\ GroupName[x] \in Group
    BY GroupAssumption DEF Done, SafeInv, TypeOK, OneWorkerPerItem
<1>2. st \in [Worker -> Status]
    BY DEF SafeInv, TypeOK, Status
<1>3. QueueDone(x, st) /\ UNCHANGED mode
    BY DEF Done
<1> HIDE DEF x, st
<1>4. GroupName[x] \in groups
    BY <1>1 DEF SweepInv
<1>5. processing' = processing \ {x} /\ UNCHANGED <<groups, ring, dirty>>
    BY <1>3, <1>4 DEF QueueDone
<1>6. CASE x \in dirty
    <2>1. Enqueue(x, st)
        BY <1>3, <1>4, <1>6 DEF QueueDone
    <2>2. Queued' = Queued \cup {x}
        BY <1>1, <1>2, <2>1, EnqueueQueued, PendingParts DEF SafeInv
    <2>3. idle' \subseteq idle /\ \A h \in Group \ groups : fifo'[h] = <<>>
        BY <1>4, <2>1 DEF Enqueue, SweepInv, SafeInv, TypeOK
    <2>4. dirty' \subseteq Queued' \cup processing'
        BY <1>5, <2>2 DEF SweepInv, NothingLost
    <2> QED
        BY <1>3, <1>5, <2>3, <2>4 DEF SweepInv, NothingLost, Distinct, RingKeys
<1>7. CASE x \notin dirty
    <2>1. UNCHANGED <<fifo, idle>>
        BY <1>3, <1>7 DEF QueueDone
    <2>2. dirty' \subseteq Queued' \cup processing'
        BY <1>5, <1>7, <2>1, QueuesKept DEF SweepInv, NothingLost
    <2> QED
        BY <1>3, <1>5, <2>1, <2>2 DEF SweepInv, NothingLost, Distinct, RingKeys
<1> QED
    BY <1>6, <1>7

LEMMA SweepClean ==
    ASSUME SafeInv, SweepInv, NEW g \in Group, CleanIdle(g)
    PROVE  SweepInv'
<1>1. /\ g \in idle /\ fifo[g] = <<>>
      /\ groups' = groups \ {g} /\ idle' = idle \ {g}
      /\ UNCHANGED <<fifo, dirty, processing, mode>>
    BY DEF CleanIdle
<1>2. g \in RingKeys(ring)
    BY <1>1 DEF SweepInv, SafeInv, TypeOK
<1>3. ring' = RingWithout(ring, g)
    BY <1>2 DEF CleanIdle
<1>4. RingKeys(ring') = groups' /\ Distinct(ring')
    BY <1>1, <1>2, <1>3, WithoutKeys DEF SweepInv, SafeInv, TypeOK
<1>5. \A y \in processing' : GroupName[y] \in groups' \ idle'
    BY <1>1 DEF SweepInv
<1>6. \A h \in Group \ groups' : fifo'[h] = <<>>
    BY <1>1 DEF SweepInv
<1> QED
    BY <1>1, <1>4, <1>5, <1>6, QueuesKept DEF SweepInv, NothingLost

\* Get does not get stuck.
LEMMA NeverStuck ==
    ASSUME SafeInv, SweepInv, NEW w \in Worker PROVE ~GetStuck(w)
<1> SUFFICES ASSUME GetStuck(w) PROVE FALSE
    OBVIOUS
<1>1. length # 0 /\ \A g \in groups : fifo[g] = <<>>
    BY DEF GetStuck, SweepInv
<1>2. \A g \in Group : fifo[g] = <<>>
    BY <1>1 DEF SweepInv
<1>3. Queued = {}
    <2>1. Elements(<<>>) = {}
        BY DEF Elements
    <2> QED
        BY <1>2, <2>1, QueuedDef
<1>4. length = 0
    BY <1>3, FS_EmptySet DEF SafeInv, LengthCounts
<1> QED
    BY <1>1, <1>4

LEMMA SweepStep == ~SlowWork /\ SafeInv /\ SweepInv /\ [Next]_vars => SweepInv'
<1> SUFFICES ASSUME ~SlowWork, SafeInv, SweepInv, [Next]_vars PROVE SweepInv'
    OBVIOUS
<1>1. ASSUME NEW x \in Item, Add(x) \/ WaitingLoopAdd(x) PROVE SweepInv'
    BY <1>1, SweepAdd DEF Add, WaitingLoopAdd
<1>2. ASSUME NEW w \in Worker, Get(w) PROVE SweepInv'
    <2>1. CASE GetItem(w)
        BY <2>1, SweepGet
    <2>2. CASE GetWait(w) \/ GetStop(w)
        BY <2>2, QueuesKept DEF GetWait, GetStop, SweepInv, NothingLost, Distinct, RingKeys
    <2> QED
        BY <1>2, <2>1, <2>2, NeverStuck DEF Get
<1>3. ASSUME NEW w \in Worker, Done(w) PROVE SweepInv'
    BY <1>3, SweepDone
<1>4. ASSUME NEW g \in Group, Expire(g) PROVE SweepInv'
    BY <1>4, QueuesKept DEF Expire, SweepInv, NothingLost, Distinct, RingKeys
<1>5. ASSUME NEW g \in Group, CleanIdle(g) PROVE SweepInv'
    BY <1>5, SweepClean
<1>6. CASE UNCHANGED <<groups, fifo, dirty, processing, ring, idle, mode>>
    BY <1>6, QueuesKept DEF SweepInv, NothingLost, Distinct, RingKeys
<1> QED
    BY <1>1, <1>2, <1>3, <1>4, <1>5, <1>6 DEF Next, AddAfter, ShutDown, vars

\* When no worker keeps an item longer than queueExpireDuration, sweeping idle groups
\* loses nothing: a dirty item is in a queue or being processed, the balancer knows
\* every group that has an item, and Get never spins or dereferences a missing queue.
THEOREM SweepsLoseNothing ==
    ASSUME ~SlowWork
    PROVE  Spec => [](NothingLost /\ GetFinds)
<1>1. Init => SweepInv
    <2> SUFFICES ASSUME Init PROVE SweepInv
        OBVIOUS
    <2>1. RingKeys(ring) = groups /\ Distinct(ring)
        BY DEF Init, RingKeys, Distinct
    <2> QED
        BY <2>1 DEF Init, SweepInv, NothingLost
<1>2. SafeInv /\ SweepInv /\ [Next]_vars => SweepInv'
    BY SweepStep
<1>3. SafeInv /\ SweepInv => NothingLost /\ GetFinds
    BY DEF SweepInv, GetFinds
<1> QED
    BY <1>1, <1>2, <1>3, InitSafe, SafeStep, PTL DEF Spec

-----------------------------------------------------------------------------
(* Turns.  Distance is what a key still has to wait for its turn. *)

LEMMA LeastTurn ==
    ASSUME NEW S \in SUBSET Nat, S # {}
    PROVE  \E m \in S : \A k \in S : ~(k < m)
<1> DEFINE R == OpToRel(<, Nat)
<1>1. IsWellFoundedOn(R, Nat)
    BY NatLessThanWellFounded
<1>2. PICK m \in S : \A k \in S : ~(<<k, m>> \in R)
    <2> HIDE DEF R
    <2> QED
        BY <1>1, WFMin
<1> QED
    BY <1>2 DEF OpToRel

\* The positions that k calls of Next lead to.
LEMMA NextPos ==
    ASSUME NEW S, NEW r \in Seq(S), Len(r) >= 2, NEW q \in (-1)..(Len(r) - 1), NEW k \in 1..Len(r)
    PROVE  /\ PosAfter(r, q, k) = IF q + k < Len(r) THEN q + k ELSE (q + k) - Len(r)
           /\ PosAfter(r, q, k) \in 0..(Len(r) - 1)
           /\ KeyAfter(r, q, k) = r[PosAfter(r, q, k) + 1]
<1> DEFINE l == Len(r)
<1>1. l \in Nat /\ l >= 2
    OBVIOUS
<1> HIDE DEF l
<1>a. l # 1
    BY <1>1
<1>2. PosAfter(r, q, k) = (q + k) % l /\ KeyAfter(r, q, k) = r[PosAfter(r, q, k) + 1]
    BY <1>a, Zenon DEF l, PosAfter, KeyAfter
<1>3. q \in (-1)..(l - 1) /\ k \in 1..l
    BY DEF l
<1>4. CASE q + k < l
    <2>1. (q + k) % l = q + k
        BY <1>1, <1>3, <1>4
    <2> QED
        BY <1>1, <1>2, <1>3, <1>4, <2>1 DEF l
<1>5. CASE q + k >= l
    <2>1. (q + k) % l = (q + k) - l
        BY <1>1, <1>3, <1>5
    <2> QED
        BY <1>1, <1>2, <1>3, <1>5, <2>1 DEF l
<1> QED
    BY <1>1, <1>3, <1>4, <1>5

\* m calls after k calls are k + m calls.
LEMMA TurnsAdd ==
    ASSUME NEW S, NEW r \in Seq(S), Len(r) >= 2, NEW q \in (-1)..(Len(r) - 1),
           NEW k \in 1..Len(r), NEW m \in 1..Len(r), k + m <= Len(r)
    PROVE  KeyAfter(r, PosAfter(r, q, k), m) = KeyAfter(r, q, k + m)
<1> DEFINE l == Len(r)
           o == PosAfter(r, q, k)
<1>1. l \in Nat /\ l >= 2
    OBVIOUS
<1>2. o = (IF q + k < l THEN q + k ELSE (q + k) - l) /\ o \in 0..(l - 1)
    BY NextPos
<1> HIDE DEF o
<1>3. /\ PosAfter(r, o, m) = IF o + m < l THEN o + m ELSE (o + m) - l
      /\ KeyAfter(r, o, m) = r[PosAfter(r, o, m) + 1]
    <2>1. o \in (-1)..(Len(r) - 1)
        BY <1>1, <1>2
    <2> QED
        BY <2>1, NextPos
<1>4. k + m \in 1..l
    OBVIOUS
<1>5. /\ PosAfter(r, q, k + m) = IF q + (k + m) < l THEN q + (k + m) ELSE (q + (k + m)) - l
      /\ KeyAfter(r, q, k + m) = r[PosAfter(r, q, k + m) + 1]
    BY <1>4, NextPos
<1>6. q \in (-1)..(l - 1) /\ k \in 1..l /\ m \in 1..l /\ k + m <= l
    OBVIOUS
<1> HIDE DEF l
<1>7. PosAfter(r, o, m) = PosAfter(r, q, k + m)
    BY <1>1, <1>2, <1>3, <1>5, <1>6
<1> QED
    BY <1>3, <1>5, <1>7 DEF o

\* Every key of the ring is named within Len(ring) calls.
LEMMA Reached ==
    ASSUME NEW S, NEW r \in Seq(S), Len(r) >= 2, NEW q \in (-1)..(Len(r) - 1), NEW h \in RingKeys(r)
    PROVE  \E k \in 1..Len(r) : KeyAfter(r, q, k) = h
<1>1. PICK j \in 1..Len(r) : r[j] = h
    BY DEF RingKeys
<1> DEFINE k == IF j - 1 > q THEN (j - 1) - q ELSE ((j - 1) - q) + Len(r)
<1>2. Len(r) \in Nat
    OBVIOUS
<1>3. k \in 1..Len(r)
    BY <1>1, <1>2
<1>4. PosAfter(r, q, k) = (IF q + k < Len(r) THEN q + k ELSE (q + k) - Len(r))
      /\ KeyAfter(r, q, k) = r[PosAfter(r, q, k) + 1]
    <2> HIDE DEF k
    <2> QED
        BY <1>3, NextPos
<1>5. (IF q + k < Len(r) THEN q + k ELSE (q + k) - Len(r)) = j - 1
    BY <1>1, <1>2
<1>6. KeyAfter(r, q, k) = h
    <2> HIDE DEF k
    <2> QED
        BY <1>1, <1>4, <1>5
<1> QED
    BY <1>3, <1>6

\* The first of the calls that name h.
Turn(r, q, h) ==
    CHOOSE k \in 1..Len(r) : KeyAfter(r, q, k) = h /\ \A m \in 1..(k - 1) : KeyAfter(r, q, m) # h

LEMMA TurnIsFirst ==
    ASSUME NEW S, NEW r \in Seq(S), NEW q, NEW h, NEW c \in 1..Len(r), KeyAfter(r, q, c) = h
    PROVE  /\ Turn(r, q, h) \in 1..Len(r) /\ KeyAfter(r, q, Turn(r, q, h)) = h
           /\ Turn(r, q, h) <= c
<1> DEFINE C == {k \in 1..Len(r) : KeyAfter(r, q, k) = h}
<1>1. C \in SUBSET Nat /\ C # {}
    OBVIOUS
<1>2. PICK m \in C : \A k \in C : ~(k < m)
    <2> HIDE DEF C
    <2> QED
        BY <1>1, LeastTurn
<1>3. /\ m \in 1..Len(r) /\ KeyAfter(r, q, m) = h
      /\ \A k \in 1..(m - 1) : KeyAfter(r, q, k) # h
    BY <1>2
<1>4. /\ Turn(r, q, h) \in 1..Len(r) /\ KeyAfter(r, q, Turn(r, q, h)) = h
      /\ \A k \in 1..(Turn(r, q, h) - 1) : KeyAfter(r, q, k) # h
    BY <1>3, Zenon DEF Turn
<1>5. c \notin 1..(Turn(r, q, h) - 1)
    BY <1>4
<1> QED
    BY <1>4, <1>5

\* An item that is taken from one group brings every other group with items nearer to its
\* turn.
LEMMA TurnComesNearer ==
    ASSUME TypeOK, NEW w \in Worker, GetItem(w), NEW h \in RingKeys(ring),
           fifo[h] # <<>>, fifo'[h] = fifo[h]
    PROVE  Distance(h)' < Distance(h)
<1>1. PICK k \in 1..Len(ring) :
          /\ FirstNonEmpty(k)
          /\ Hand(w, KeyAfter(ring, pos, k))
          /\ pos' = PosAfter(ring, pos, k)
    BY DEF GetItem
<1> DEFINE g == KeyAfter(ring, pos, k)
           l == Len(ring)
<1>2. ring' = ring /\ ring \in Seq(Group) /\ l \in Nat /\ pos \in (-1)..(l - 1)
    BY DEF GetItem, TypeOK
<1>3. g # h
    <2>1. SUFFICES ASSUME g = h PROVE FALSE
        OBVIOUS
    <2>2. g \in Group
        BY <1>2, NextType DEF TypeOK
    <2>3. fifo' = [fifo EXCEPT ![g] = Tail(fifo[g])] /\ fifo[g] \in Seq(Item)
        BY <1>1, <2>2 DEF Hand, TypeOK
    <2>4. fifo'[g] = Tail(fifo[g])
        BY <2>2, <2>3 DEF TypeOK
    <2>5. Tail(fifo[g]) = fifo[g] /\ fifo[g] # <<>>
        BY <2>1, <2>4
    <2>6. Len(Tail(fifo[g])) = Len(fifo[g]) - 1 /\ Len(fifo[g]) \in Nat
        BY <2>3, <2>5
    <2>7. Len(Tail(fifo[g])) = Len(fifo[g])
        BY <2>5, Zenon
    <2> QED
        BY <2>6, <2>7
<1>4. l >= 2
    <2>1. l # 1
        <3> SUFFICES ASSUME l = 1 PROVE FALSE
            OBVIOUS
        <3>1. g = ring[1]
            BY DEF KeyAfter
        <3>2. h = ring[1]
            BY DEF RingKeys
        <3> QED
            BY <1>3, <3>1, <3>2
    <2>2. \E i \in 1..l : TRUE
        BY <1>1
    <2> HIDE DEF l
    <2> QED
        BY <1>2, <2>1, <2>2
<1> DEFINE d == Turn(ring, pos, h)
<1>5. d \in 1..l /\ KeyAfter(ring, pos, d) = h
    <2>1. PICK c \in 1..l : KeyAfter(ring, pos, c) = h
        BY <1>2, <1>4, Reached
    <2> QED
        BY <1>2, <2>1, TurnIsFirst
<1> HIDE DEF d
<1>6. d > k
    <2>1. d \notin 1..(k - 1)
        BY <1>1, <1>5 DEF FirstNonEmpty
    <2>2. d # k
        BY <1>3, <1>5
    <2> QED
        BY <1>2, <1>5, <2>1, <2>2
<1>7. d - k \in 1..l /\ k + (d - k) = d
    BY <1>2, <1>5, <1>6
<1>8. KeyAfter(ring, pos', d - k) = h
    <2> DEFINE e == d - k
    <2>1. e \in 1..l /\ k + e = d /\ k + e <= l
        BY <1>2, <1>5, <1>7
    <2> HIDE DEF e
    <2>2. KeyAfter(ring, PosAfter(ring, pos, k), e) = KeyAfter(ring, pos, k + e)
        BY <1>2, <1>4, <2>1, TurnsAdd
    <2> QED
        BY <1>1, <1>5, <2>1, <2>2 DEF e
<1>9. Turn(ring, pos', h) \in 1..l /\ Turn(ring, pos', h) <= d - k
    <2> DEFINE e == d - k
    <2>1. e \in 1..l /\ KeyAfter(ring, pos', e) = h
        BY <1>7, <1>8
    <2> HIDE DEF e
    <2>2. Turn(ring, pos', h) \in 1..l /\ Turn(ring, pos', h) <= e
        BY <1>2, <2>1, TurnIsFirst
    <2> QED
        BY <2>2 DEF e
<1>10. Distance(h) = d /\ Distance(h)' = Turn(ring, pos', h)
    BY <1>2 DEF Distance, Turn, d
<1> QED
    BY <1>2, <1>5, <1>6, <1>9, <1>10

\* Fairness among tenants (the loop of Get over balancer.Next): whichever group an item is
\* taken from, every other group that has items comes nearer to its turn, for any number of
\* groups and items.
THEOREM TurnsAreFair == Spec => FairTurn
<1>1. TypeOK => (\A w \in Worker : GetItem(w) =>
                    \A h \in RingKeys(ring) :
                        (fifo[h] # <<>> /\ fifo'[h] = fifo[h]) => Distance(h)' < Distance(h))
    BY TurnComesNearer
<1> QED
    BY <1>1, TypeCorrect, PTL DEF FairTurn
=============================================================================
