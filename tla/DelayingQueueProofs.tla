------------------------ MODULE DelayingQueueProofs ------------------------
(***************************************************************************)
(* Proofs about DelayingQueue, for any items, capacity of the channel and  *)
(* delays: nothing that was given to AddAfter is dropped or comes early,   *)
(* and the waiting loop does not oversleep.                                *)
(***************************************************************************)
EXTENDS DelayingQueue, WellFoundedInduction, TLAPS

-----------------------------------------------------------------------------
(* Minima of sets of numbers *)

LEMMA SmallestElement ==
    ASSUME NEW S \in SUBSET Nat, S # {}
    PROVE  \E m \in S : \A k \in S : m <= k
<1> DEFINE R == OpToRel(<, Nat)
<1>1. IsWellFoundedOn(R, Nat)
    BY NatLessThanWellFounded
<1>2. PICK m \in S : \A k \in S : ~(<<k, m>> \in R)
    <2> HIDE DEF R
    <2> QED
        BY <1>1, WFMin
<1>3. \A k \in S : ~(k < m)
    BY <1>2 DEF OpToRel
<1> QED
    BY <1>3

LEMMA MinOf ==
    ASSUME NEW S \in SUBSET Nat, S # {}
    PROVE  Min(S) \in S /\ \A k \in S : Min(S) <= k
<1>1. \E m \in S : \A k \in S : m <= k
    BY SmallestElement
<1> QED
    BY <1>1, Zenon DEF Min

LEMMA MinIs ==
    ASSUME NEW S \in SUBSET Nat, NEW m \in S, \A k \in S : m <= k
    PROVE  Min(S) = m
<1>1. Min(S) \in S /\ \A k \in S : Min(S) <= k
    BY MinOf
<1>2. Min(S) \in Nat /\ m \in Nat
    BY <1>1
<1>3. Min(S) <= m /\ m <= Min(S)
    BY <1>1
<1> QED
    BY <1>2, <1>3

LEMMA MinPair ==
    ASSUME NEW a \in Nat, NEW b \in Nat
    PROVE  Min({a, b}) = IF a <= b THEN a ELSE b
<1> DEFINE S == {a, b}
           m == IF a <= b THEN a ELSE b
<1>1. S \in SUBSET Nat /\ m \in S /\ \A k \in S : m <= k
    OBVIOUS
<1> HIDE DEF S, m
<1>2. Min(S) = m
    BY <1>1, MinIs
<1> QED
    BY <1>2 DEF S, m

-----------------------------------------------------------------------------
(* The time left for an item *)

\* The times that are left for item x in a heap and a channel.
Times(x, h, c) ==
    {Never} \cup {h[y] : y \in DOMAIN h \cap {x}}
            \cup {c[j].readyAt : j \in {m \in 1..Len(c) : c[m].data = x}}

Heap == UNION {[S -> Time] : S \in SUBSET Item}

LEMMA TimeFacts == Never \in Nat /\ Time \subseteq Nat /\ Never \in Time
                   /\ \A t \in Time : t <= Never
    BY TimeAssumption DEF Time, Never

LEMMA TimesAre ==
    ASSUME NEW x \in Item, NEW h, NEW c, NEW t
    PROVE  t \in Times(x, h, c) <=>
               \/ t = Never
               \/ x \in DOMAIN h /\ t = h[x]
               \/ \E j \in 1..Len(c) : c[j].data = x /\ t = c[j].readyAt
    BY Zenon DEF Times

LEMMA HeapEntry ==
    ASSUME NEW h \in Heap
    PROVE  DOMAIN h \subseteq Item /\ h \in [DOMAIN h -> Time]
<1>1. PICK S \in SUBSET Item : h \in [S -> Time]
    BY DEF Heap
<1> QED
    BY <1>1

LEMMA TimesType ==
    ASSUME NEW x \in Item, NEW h \in Heap, NEW c \in Seq(Entry)
    PROVE  Times(x, h, c) \subseteq Time /\ Times(x, h, c) # {}
<1>1. \A y \in DOMAIN h : h[y] \in Time
    BY HeapEntry
<1>2. ASSUME NEW j \in 1..Len(c) PROVE c[j].readyAt \in Time
    <2>1. c[j] \in Entry
        OBVIOUS
    <2> QED
        BY <2>1 DEF Entry
<1>3. ASSUME NEW t \in Times(x, h, c) PROVE t \in Time
    BY <1>1, <1>2, <1>3, TimesAre, TimeFacts
<1>4. Never \in Times(x, h, c)
    BY DEF Times
<1> QED
    BY <1>3, <1>4

\* An item's time depends on its own entries only.
LEMMA LeftMin == \A x, h, c : Left(x, h, c) = Min(Times(x, h, c))
    BY DEF Left, Times

LEMMA LeftLeast ==
    ASSUME NEW x \in Item, NEW h \in Heap, NEW c \in Seq(Entry)
    PROVE  /\ Left(x, h, c) \in Times(x, h, c)
           /\ \A t \in Times(x, h, c) : Left(x, h, c) <= t
           /\ Left(x, h, c) \in Time
<1>1. Times(x, h, c) \in SUBSET Nat /\ Times(x, h, c) # {}
    BY TimesType, TimeFacts
<1>2. Left(x, h, c) = Min(Times(x, h, c))
    BY DEF Left, Times
<1> QED
    BY <1>1, <1>2, MinOf, TimesType

LEMMA LeftIs ==
    ASSUME NEW x \in Item, NEW h \in Heap, NEW c \in Seq(Entry),
           NEW m \in Times(x, h, c), \A t \in Times(x, h, c) : m <= t
    PROVE  Left(x, h, c) = m
<1>1. Times(x, h, c) \in SUBSET Nat
    BY TimesType, TimeFacts
<1> QED
    BY <1>1, MinIs DEF Left, Times

-----------------------------------------------------------------------------
(* Types *)

LEMMA HeapType == TypeOK => heap \in Heap
    BY DEF TypeOK, Heap

LEMMA InitType == Init => TypeOK
<1> SUFFICES ASSUME Init PROVE TypeOK
    OBVIOUS
<1>1. heap \in UNION {[S -> Time] : S \in SUBSET Item}
    BY DEF Init
<1>2. shuttingDown \in BOOLEAN /\ added \subseteq Item /\ pc \in {"top", "select", "drain", "exited"}
    BY DEF Init
<1>3. now \in 0..MaxTime /\ timer \in Time /\ deadline \in [Item -> Time]
    BY TimeFacts, TimeAssumption DEF Init
<1>4. ch \in Seq(Entry) /\ Len(ch) <= ChanCap
    BY ChanAssumption DEF Init
<1> QED
    BY <1>1, <1>2, <1>3, <1>4 DEF TypeOK

LEMMA InsertType ==
    ASSUME heap \in Heap, NEW e \in Entry, insert(e)
    PROVE  /\ heap' \in Heap
           /\ DOMAIN heap' = DOMAIN heap \cup {e.data}
           /\ \A y \in DOMAIN heap : y # e.data => heap'[y] = heap[y]
           /\ heap'[e.data] = IF e.data \in DOMAIN heap /\ heap[e.data] <= e.readyAt
                              THEN heap[e.data] ELSE e.readyAt
<1> DEFINE x == e.data
           t == IF x \in DOMAIN heap THEN Min({heap[x], e.readyAt}) ELSE e.readyAt
<1>1. e.data \in Item /\ e.readyAt \in Time
    BY DEF Entry
<1>2. x \in DOMAIN heap => heap[x] \in Time
    BY HeapEntry
<1>3. t = IF x \in DOMAIN heap /\ heap[x] <= e.readyAt THEN heap[x] ELSE e.readyAt
    <2>1. ASSUME x \in DOMAIN heap
          PROVE  Min({heap[x], e.readyAt}) = IF heap[x] <= e.readyAt THEN heap[x] ELSE e.readyAt
        <3>1. heap[x] \in Nat /\ e.readyAt \in Nat
            BY <1>1, <1>2, <2>1, TimeFacts
        <3> QED
            BY <3>1, MinPair
    <2> QED
        BY <2>1
<1>4. t \in Time
    BY <1>1, <1>2, <1>3
<1>5. heap' = [y \in DOMAIN heap \cup {x} |-> IF y = x THEN t ELSE heap[y]]
    BY DEF insert
<1> HIDE DEF t
<1>6. heap' \in [DOMAIN heap \cup {x} -> Time] /\ DOMAIN heap \cup {x} \in SUBSET Item
    BY <1>1, <1>4, <1>5, HeapEntry
<1>7. heap' \in Heap
    BY <1>6 DEF Heap
<1> QED
    BY <1>3, <1>5, <1>7

LEMMA RestrictType ==
    ASSUME NEW h \in Heap, NEW S
    PROVE  LET r == Restrict(h, DOMAIN h \ S)
           IN  /\ r \in Heap /\ DOMAIN r = DOMAIN h \ S
               /\ \A y \in DOMAIN h \ S : r[y] = h[y]
<1>1. /\ Restrict(h, DOMAIN h \ S) \in [DOMAIN h \ S -> Time]
      /\ DOMAIN h \ S \in SUBSET Item
    BY HeapEntry DEF Restrict
<1>2. Restrict(h, DOMAIN h \ S) \in Heap
    BY <1>1 DEF Heap
<1> QED
    BY <1>2 DEF Restrict

\* The items GiveToAdd hands over have what is left for them as their deadline.
LEMMA GiveType ==
    ASSUME deadline \in [Item -> Time], NEW S \in SUBSET Item, NEW h \in Heap,
           NEW c \in Seq(Entry), GiveToAdd(S, h, c)
    PROVE  /\ added' = S /\ deadline' \in [Item -> Time]
           /\ \A x \in Item : deadline'[x] = IF x \in S THEN Left(x, h, c) ELSE deadline[x]
<1>1. \A x \in Item : Left(x, h, c) \in Time
    BY LeftLeast
<1> QED
    BY <1>1 DEF GiveToAdd

\* The ready entries of the heap.
Ready == {x \in DOMAIN heap : heap[x] <= now}

LEMMA LoopTopFacts ==
    ASSUME TypeOK, LoopTop
    PROVE  /\ heap' \in Heap /\ DOMAIN heap' = DOMAIN heap \ Ready
           /\ \A y \in DOMAIN heap' : heap'[y] = heap[y]
           /\ GiveToAdd(Ready, heap', ch) /\ Ready \in SUBSET Item
           /\ timer' \in Time /\ \A y \in DOMAIN heap' : timer' <= heap'[y]
<1>0. heap \in Heap
    BY HeapType
<1>1. /\ heap' = Restrict(heap, DOMAIN heap \ Ready)
      /\ GiveToAdd(Ready, heap', ch)
      /\ timer' = Min({Never} \cup {heap'[x] : x \in DOMAIN heap'})
    BY DEF LoopTop, Ready
<1>2. /\ heap' \in Heap /\ DOMAIN heap' = DOMAIN heap \ Ready
      /\ \A y \in DOMAIN heap \ Ready : heap'[y] = heap[y]
    BY <1>0, <1>1, RestrictType
<1>3. Ready \in SUBSET Item
    BY <1>0, HeapEntry DEF Ready
<1> DEFINE T == {Never} \cup {heap'[x] : x \in DOMAIN heap'}
<1>4. \A x \in DOMAIN heap' : heap'[x] \in Time
    BY <1>2, HeapEntry
<1>5. T \in SUBSET Time /\ T # {}
    BY <1>4, TimeFacts
<1>6. timer' \in T /\ \A t \in T : timer' <= t
    <2> HIDE DEF T
    <2>1. T \in SUBSET Nat
        BY <1>5, TimeFacts
    <2>2. timer' = Min(T)
        BY <1>1 DEF T
    <2> QED
        BY <1>5, <2>1, <2>2, MinOf
<1>7. timer' \in Time
    BY <1>5, <1>6
<1>8. \A y \in DOMAIN heap' : heap'[y] \in T
    OBVIOUS
<1>9. \A y \in DOMAIN heap' : timer' <= heap'[y]
    BY <1>6, <1>8
<1> QED
    BY <1>1, <1>2, <1>3, <1>7, <1>9

LEMMA ReceiveFacts ==
    ASSUME TypeOK, Receive
    PROVE  /\ Head(ch) \in Entry /\ Head(ch).data \in Item /\ Head(ch).readyAt \in Time
           /\ ch' = Tail(ch) /\ ch' \in Seq(Entry) /\ Len(ch') = Len(ch) - 1
           /\ ch[1] = Head(ch) /\ \A j \in 1..Len(ch') : ch'[j] = ch[j + 1]
<1>1. ch \in Seq(Entry) /\ ch # <<>> /\ ch' = Tail(ch)
    BY DEF TypeOK, Receive
<1>2. Head(ch) \in Entry /\ Head(ch) = ch[1]
    BY <1>1
<1>3. Head(ch).data \in Item /\ Head(ch).readyAt \in Time
    BY <1>2 DEF Entry
<1>4. Tail(ch) \in Seq(Entry) /\ Len(Tail(ch)) = Len(ch) - 1
    BY <1>1
<1>5. \A j \in 1..Len(Tail(ch)) : Tail(ch)[j] = ch[j + 1]
    BY <1>1
<1> QED
    BY <1>1, <1>2, <1>3, <1>4, <1>5

LEMMA AddAfterFacts ==
    ASSUME TypeOK, NEW x \in Item, NEW duration \in 1..MaxDelay, AddAfter(x, duration)
    PROVE  /\ now + duration \in Time /\ ch' \in Seq(Entry) /\ Len(ch') = Len(ch) + 1
           /\ ch'[Len(ch')] = [data |-> x, readyAt |-> now + duration]
           /\ \A j \in 1..Len(ch) : ch'[j] = ch[j]
           /\ deadline' \in [Item -> Time]
           /\ \A y \in Item \ {x} : deadline'[y] = deadline[y]
           /\ deadline'[x] = IF deadline[x] <= now + duration THEN deadline[x] ELSE now + duration
<1> DEFINE t == now + duration
           e == [data |-> x, readyAt |-> t]
<1>1. t \in Time
    BY TimeAssumption DEF TypeOK, Time, Never
<1>2. e \in Entry
    BY <1>1 DEF Entry
<1>3. ch \in Seq(Entry) /\ ch' = Append(ch, e) /\ deadline \in [Item -> Time]
      /\ deadline' = [deadline EXCEPT ![x] = Min({@, t})]
    BY DEF TypeOK, AddAfter
<1> HIDE DEF t
<1>4. Min({deadline[x], t}) = IF deadline[x] <= t THEN deadline[x] ELSE t
    BY <1>1, <1>3, TimeFacts, MinPair
<1>5. deadline' \in [Item -> Time] /\ (\A y \in Item \ {x} : deadline'[y] = deadline[y])
      /\ deadline'[x] = IF deadline[x] <= t THEN deadline[x] ELSE t
    BY <1>1, <1>3, <1>4
<1> HIDE DEF e
<1>6. ch' \in Seq(Entry) /\ Len(ch') = Len(ch) + 1 /\ ch'[Len(ch')] = e
      /\ \A j \in 1..Len(ch) : ch'[j] = ch[j]
    BY <1>2, <1>3
<1> QED
    BY <1>1, <1>5, <1>6 DEF e, t

LEMMA TypeStep == TypeOK /\ [QueueNext]_vars => TypeOK'
<1> SUFFICES ASSUME TypeOK, [QueueNext]_vars PROVE TypeOK'
    OBVIOUS
<1>0. heap \in Heap /\ deadline \in [Item -> Time] /\ ch \in Seq(Entry)
    BY HeapType DEF TypeOK
<1>1. ASSUME NEW x \in Item, NEW duration \in 1..MaxDelay, AddAfter(x, duration) PROVE TypeOK'
    <2>1. Len(ch) + 1 <= ChanCap
        BY <1>0, <1>1, ChanAssumption DEF AddAfter
    <2> QED
        BY <1>1, <2>1, AddAfterFacts DEF AddAfter, TypeOK
<1>2. CASE LoopTop
    <2>1. heap' \in Heap /\ timer' \in Time /\ added' \in SUBSET Item /\ deadline' \in [Item -> Time]
        BY <1>0, <1>2, LoopTopFacts, GiveType
    <2> QED
        BY <1>2, <2>1 DEF LoopTop, TypeOK, Heap
<1>3. CASE Receive
    <2>1. Head(ch) \in Entry /\ Head(ch).data \in Item /\ ch' \in Seq(Entry) /\ Len(ch') <= ChanCap
        BY <1>0, <1>3, ReceiveFacts, ChanAssumption DEF TypeOK
    <2>2. heap' \in Heap /\ added' \in SUBSET Item /\ deadline' \in [Item -> Time]
        <3>1. CASE Head(ch).readyAt > now
            BY <1>0, <1>3, <2>1, <3>1, InsertType DEF Receive
        <3>2. CASE ~(Head(ch).readyAt > now)
            <4>1. GiveToAdd({Head(ch).data}, heap, ch') /\ heap' = heap
                BY <1>3, <3>2 DEF Receive
            <4>2. {Head(ch).data} \in SUBSET Item
                BY <2>1
            <4>3. added' = {Head(ch).data} /\ deadline' \in [Item -> Time]
                BY <1>0, <2>1, <4>1, <4>2, GiveType
            <4> QED
                BY <1>0, <4>1, <4>2, <4>3
        <3> QED
            BY <3>1, <3>2
    <2> QED
        BY <1>3, <2>1, <2>2 DEF Receive, TypeOK, Heap
<1>4. CASE TimerFires \/ Heartbeat \/ Drained \/ LoopExit \/ ShutDown
    BY <1>4 DEF TimerFires, Heartbeat, Drained, LoopExit, ShutDown, TypeOK
<1>5. CASE Tick
    BY <1>5, TimeAssumption DEF Tick, TypeOK
<1>6. CASE UNCHANGED vars
    BY <1>6 DEF vars, TypeOK
<1> QED
    BY <1>1, <1>2, <1>3, <1>4, <1>5, <1>6 DEF QueueNext, waitingLoop

-----------------------------------------------------------------------------
(* What was asked for is kept *)

\* An entry at the end of the channel adds its time to those of its item.
LEMMA AppendedTimes ==
    ASSUME NEW x \in Item, NEW y \in Item, NEW h, NEW c \in Seq(Entry), NEW t,
           NEW d \in Seq(Entry), Len(d) = Len(c) + 1,
           d[Len(d)] = [data |-> x, readyAt |-> t], \A j \in 1..Len(c) : d[j] = c[j]
    PROVE  \A s : s \in Times(y, h, d) <=> s \in Times(y, h, c) \/ (x = y /\ s = t)
<1> TAKE s
<1>1. s \in Times(y, h, c) <=>
          \/ s = Never
          \/ y \in DOMAIN h /\ s = h[y]
          \/ \E j \in 1..Len(c) : c[j].data = y /\ s = c[j].readyAt
    BY Zenon DEF Times
<1>2. s \in Times(y, h, d) <=>
          \/ s = Never
          \/ y \in DOMAIN h /\ s = h[y]
          \/ \E j \in 1..Len(d) : d[j].data = y /\ s = d[j].readyAt
    BY Zenon DEF Times
<1>3. (\E j \in 1..Len(d) : d[j].data = y /\ s = d[j].readyAt) <=>
          \/ \E j \in 1..Len(c) : c[j].data = y /\ s = c[j].readyAt
          \/ x = y /\ s = t
    OBVIOUS
<1> QED
    BY <1>1, <1>2, <1>3

LEMMA AddAfterKeeps ==
    ASSUME TypeOK, NothingDropped,
           NEW x \in Item, NEW duration \in 1..MaxDelay, AddAfter(x, duration),
           NEW y \in Item
    PROVE  deadline'[y] = Left(y, heap, ch')
<1> DEFINE t == now + duration
<1>0. heap \in Heap /\ ch \in Seq(Entry) /\ deadline[y] = Left(y, heap, ch)
    BY HeapType DEF TypeOK, NothingDropped
<1>1. /\ t \in Time /\ ch' \in Seq(Entry) /\ Len(ch') = Len(ch) + 1
      /\ ch'[Len(ch')] = [data |-> x, readyAt |-> t]
      /\ \A j \in 1..Len(ch) : ch'[j] = ch[j]
      /\ \A z \in Item \ {x} : deadline'[z] = deadline[z]
      /\ deadline'[x] = IF deadline[x] <= t THEN deadline[x] ELSE t
    BY AddAfterFacts
<1> HIDE DEF t
<1>3. \A s : s \in Times(y, heap, ch') <=> s \in Times(y, heap, ch) \/ (x = y /\ s = t)
    BY <1>0, <1>1, AppendedTimes
<1>4. CASE x # y
    <2>1. Times(y, heap, ch') = Times(y, heap, ch)
        BY <1>3, <1>4
    <2>2. Left(y, heap, ch') = Left(y, heap, ch)
        BY <2>1, LeftMin
    <2> QED
        BY <1>0, <1>1, <1>4, <2>2
<1>5. CASE x = y
    <2>1. /\ Left(y, heap, ch) \in Times(y, heap, ch) /\ Left(y, heap, ch) \in Nat /\ t \in Nat
          /\ \A s \in Times(y, heap, ch) : Left(y, heap, ch) <= s
          /\ Times(y, heap, ch) \subseteq Nat
        BY <1>0, <1>1, LeftLeast, TimesType, TimeFacts
    <2>2. /\ deadline'[y] \in Times(y, heap, ch')
          /\ \A s \in Times(y, heap, ch') : deadline'[y] <= s
        BY <1>0, <1>1, <1>3, <1>5, <2>1
    <2> QED
        BY <1>0, <1>1, <2>2, LeftIs
<1> QED
    BY <1>4, <1>5

LEMMA LoopTopKeeps ==
    ASSUME TypeOK, NothingDropped, LoopTop, NEW y \in Item
    PROVE  deadline'[y] = Left(y, heap', ch)
<1>0. heap \in Heap /\ ch \in Seq(Entry) /\ deadline \in [Item -> Time]
      /\ deadline[y] = Left(y, heap, ch)
    BY HeapType DEF TypeOK, NothingDropped
<1>1. /\ heap' \in Heap /\ DOMAIN heap' = DOMAIN heap \ Ready
      /\ \A z \in DOMAIN heap' : heap'[z] = heap[z]
      /\ GiveToAdd(Ready, heap', ch) /\ Ready \in SUBSET Item
    BY LoopTopFacts
<1>2. deadline'[y] = IF y \in Ready THEN Left(y, heap', ch) ELSE deadline[y]
    BY <1>0, <1>1, GiveType
<1>3. ASSUME y \notin Ready PROVE Left(y, heap', ch) = Left(y, heap, ch)
    <2>1. \A s : s \in Times(y, heap', ch) <=> s \in Times(y, heap, ch)
        BY <1>1, <1>3, TimesAre
    <2>2. Times(y, heap', ch) = Times(y, heap, ch)
        BY <2>1
    <2> QED
        BY <2>2, LeftMin
<1> QED
    BY <1>0, <1>2, <1>3

LEMMA ReceiveKeeps ==
    ASSUME TypeOK, NothingDropped, Receive, NEW y \in Item
    PROVE  deadline'[y] = Left(y, heap', ch')
<1> DEFINE e == Head(ch)
<1>0. heap \in Heap /\ ch \in Seq(Entry) /\ deadline \in [Item -> Time]
      /\ deadline[y] = Left(y, heap, ch)
    BY HeapType DEF TypeOK, NothingDropped
<1>1. /\ e \in Entry /\ e.data \in Item /\ e.readyAt \in Time
      /\ ch' = Tail(ch) /\ ch' \in Seq(Entry) /\ Len(ch') = Len(ch) - 1
      /\ ch[1] = e /\ \A j \in 1..Len(ch') : ch'[j] = ch[j + 1]
    BY ReceiveFacts
<1> HIDE DEF e
<1>2. ASSUME NEW s
      PROVE  (\E j \in 1..Len(ch) : ch[j].data = y /\ s = ch[j].readyAt) <=>
                 \/ \E j \in 1..Len(ch') : ch'[j].data = y /\ s = ch'[j].readyAt
                 \/ e.data = y /\ s = e.readyAt
    <2>1. Len(ch) \in Nat /\ Len(ch') \in Nat /\ Len(ch) = Len(ch') + 1
        BY <1>0, <1>1
    <2>2. ASSUME NEW j \in 1..Len(ch), ch[j].data = y, s = ch[j].readyAt
          PROVE  \/ \E k \in 1..Len(ch') : ch'[k].data = y /\ s = ch'[k].readyAt
                 \/ e.data = y /\ s = e.readyAt
        <3>1. CASE j = 1
            BY <1>1, <2>2, <3>1
        <3>2. CASE j # 1
            <4>1. j - 1 \in 1..Len(ch') /\ ch'[j - 1] = ch[j]
                BY <1>1, <2>1, <3>2
            <4> QED
                BY <2>2, <4>1
        <3> QED
            BY <3>1, <3>2
    <2>3. ASSUME NEW j \in 1..Len(ch'), ch'[j].data = y, s = ch'[j].readyAt
          PROVE  \E k \in 1..Len(ch) : ch[k].data = y /\ s = ch[k].readyAt
        <3>1. j + 1 \in 1..Len(ch) /\ ch'[j] = ch[j + 1]
            BY <1>1, <2>1
        <3> QED
            BY <2>3, <3>1
    <2>4. 1 \in 1..Len(ch)
        BY <2>1
    <2> QED
        BY <1>1, <2>2, <2>3, <2>4
<1>3. Times(y, heap, ch) = Times(y, heap, ch') \cup (IF e.data = y THEN {e.readyAt} ELSE {})
    BY <1>2, TimesAre
<1>4. CASE e.readyAt > now
    <2>1. insert(e) /\ deadline' = deadline
        BY <1>4 DEF Receive, e
    <2>2. /\ heap' \in Heap /\ DOMAIN heap' = DOMAIN heap \cup {e.data}
          /\ \A z \in DOMAIN heap : z # e.data => heap'[z] = heap[z]
          /\ heap'[e.data] = IF e.data \in DOMAIN heap /\ heap[e.data] <= e.readyAt
                             THEN heap[e.data] ELSE e.readyAt
        BY <1>0, <1>1, <2>1, InsertType
    <2>3. CASE e.data # y
        <3>1. \A s : s \in Times(y, heap', ch') <=> s \in Times(y, heap, ch')
            BY <2>2, <2>3, TimesAre
        <3>2. Times(y, heap', ch') = Times(y, heap, ch)
            BY <1>3, <2>3, <3>1
        <3>3. Left(y, heap', ch') = Left(y, heap, ch)
            BY <3>2, LeftMin
        <3> QED
            BY <1>0, <2>1, <3>3
    <2>4. CASE e.data = y
        <3>1. /\ deadline[y] \in Times(y, heap, ch) /\ deadline[y] \in Nat
              /\ \A s \in Times(y, heap, ch) : deadline[y] <= s
              /\ e.readyAt \in Nat /\ (y \in DOMAIN heap => heap[y] \in Nat)
            BY <1>0, <1>1, LeftLeast, TimeFacts, HeapEntry
        <3>2. /\ \A s \in Times(y, heap', ch') : s \in Times(y, heap, ch)
              /\ \A s \in Times(y, heap, ch) : \/ s \in Times(y, heap', ch')
                                               \/ /\ heap'[y] \in Times(y, heap', ch')
                                                  /\ heap'[y] <= s
            BY <1>3, <2>2, <2>4, <3>1, TimesAre
        <3>3. deadline[y] \in Times(y, heap', ch')
            <4>1. CASE deadline[y] \in Times(y, heap', ch')
                BY <4>1
            <4>2. CASE /\ heap'[y] \in Times(y, heap', ch')
                       /\ heap'[y] <= deadline[y]
                <5>1. heap'[y] = deadline[y]
                    BY <2>2, <2>4, <3>1, <3>2, <4>2
                <5> QED
                    BY <4>2, <5>1
            <4> QED
                BY <3>1, <3>2, <4>1, <4>2
        <3>4. \A s \in Times(y, heap', ch') : deadline[y] <= s
            BY <3>1, <3>2
        <3> QED
            BY <1>1, <2>1, <2>2, <3>3, <3>4, LeftIs
    <2> QED
        BY <2>3, <2>4
<1>5. CASE ~(e.readyAt > now)
    <2>1. GiveToAdd({e.data}, heap, ch') /\ heap' = heap
        BY <1>1, <1>5 DEF Receive, e
    <2>2. {e.data} \in SUBSET Item
        BY <1>1
    <2>3. deadline'[y] = IF y \in {e.data} THEN Left(y, heap, ch') ELSE deadline[y]
        BY <1>0, <1>1, <2>1, <2>2, GiveType
    <2>4. y # e.data => Left(y, heap, ch') = Left(y, heap, ch)
        <3>1. y # e.data => Times(y, heap, ch') = Times(y, heap, ch)
            BY <1>3
        <3> QED
            BY <3>1, LeftMin
    <2> QED
        BY <1>0, <2>1, <2>3, <2>4
<1> QED
    BY <1>4, <1>5

LEMMA KeepStep == TypeOK /\ NothingDropped /\ [QueueNext]_vars => NothingDropped'
<1> SUFFICES ASSUME TypeOK, NothingDropped, [QueueNext]_vars, NEW y \in Item
             PROVE  deadline'[y] = Left(y, heap', ch')
    BY DEF NothingDropped
<1>1. ASSUME NEW x \in Item, NEW duration \in 1..MaxDelay, AddAfter(x, duration)
      PROVE  deadline'[y] = Left(y, heap', ch')
    <2>1. heap' = heap
        BY <1>1 DEF AddAfter
    <2> QED
        BY <1>1, <2>1, AddAfterKeeps
<1>2. CASE LoopTop
    <2>1. ch' = ch
        BY <1>2 DEF LoopTop
    <2> QED
        BY <1>2, <2>1, LoopTopKeeps
<1>3. CASE Receive
    BY <1>3, ReceiveKeeps
<1>4. ASSUME UNCHANGED <<heap, ch, deadline>> PROVE deadline'[y] = Left(y, heap', ch')
    BY <1>4 DEF NothingDropped
<1>5. CASE TimerFires \/ Heartbeat \/ Drained \/ LoopExit \/ ShutDown \/ Tick \/ UNCHANGED vars
    BY <1>4, <1>5 DEF TimerFires, Heartbeat, Drained, LoopExit, ShutDown, Tick, vars
<1> QED
    BY <1>1, <1>2, <1>3, <1>5 DEF QueueNext, waitingLoop

LEMMA InitKeeps == Init => NothingDropped
<1> SUFFICES ASSUME Init, NEW x \in Item PROVE deadline[x] = Left(x, heap, ch)
    BY DEF NothingDropped
<1>1. heap \in Heap /\ ch \in Seq(Entry)
    BY InitType, HeapType DEF TypeOK
<1>2. DOMAIN heap = {} /\ Len(ch) = 0 /\ deadline[x] = Never
    BY DEF Init
<1>3. \A t \in Times(x, heap, ch) : t = Never
    BY <1>2, TimesAre
<1>4. Never \in Times(x, heap, ch) /\ Never <= Never
    BY TimesAre, TimeFacts
<1> QED
    BY <1>1, <1>2, <1>3, <1>4, LeftIs

LEMMA Kept == Spec => [](TypeOK /\ NothingDropped)
<1>1. Init => TypeOK /\ NothingDropped
    BY InitType, InitKeeps
<1>2. TypeOK /\ NothingDropped /\ [QueueNext]_vars => (TypeOK /\ NothingDropped)'
    BY TypeStep, KeepStep
<1> QED
    BY <1>1, <1>2, PTL DEF Spec

\* Every variable of the delaying queue keeps its type: the channel stays within its
\* capacity, and no time exceeds the bound of the clock and the delays.
THEOREM DelayTypes == Spec => []TypeOK
BY Kept, PTL

\* delaying.go: an item given to AddAfter is in the channel or in the heap, with the
\* earliest time that was asked for, however insert merges the entries of an item, until
\* the item is given to Add.
THEOREM DelayKeeps == Spec => []NothingDropped
BY Kept, PTL

-----------------------------------------------------------------------------
(* The loop sleeps no longer than it may, and adds nothing early *)

\* While the loop is in its select, the timer is set for the first entry of the heap.
TimerSet == pc = "select" => \A y \in DOMAIN heap : timer <= heap[y]

LEMMA TimerStep == TypeOK /\ TimerSet /\ [QueueNext]_vars => TimerSet'
<1> SUFFICES ASSUME TypeOK, TimerSet, [QueueNext]_vars PROVE TimerSet'
    OBVIOUS
<1>1. CASE LoopTop
    BY <1>1, LoopTopFacts DEF TimerSet
<1>2. CASE Receive
    BY <1>2 DEF Receive, TimerSet
<1>3. ASSUME NEW x \in Item, NEW duration \in 1..MaxDelay, AddAfter(x, duration) PROVE TimerSet'
    BY <1>3 DEF AddAfter, TimerSet
<1>4. CASE TimerFires \/ Heartbeat \/ Drained \/ LoopExit \/ ShutDown \/ Tick \/ UNCHANGED vars
    BY <1>4 DEF TimerFires, Heartbeat, Drained, LoopExit, ShutDown, Tick, vars, TimerSet
<1> QED
    BY <1>1, <1>2, <1>3, <1>4 DEF QueueNext, waitingLoop

LEMMA SleepsRight == TypeOK /\ NothingDropped /\ TimerSet => NeverOversleeps
<1> SUFFICES ASSUME TypeOK, NothingDropped, TimerSet,
                    pc = "select", ch = <<>>, timer > now, NEW x \in Item
             PROVE  deadline[x] > now
    BY DEF NeverOversleeps
<1>1. heap \in Heap /\ ch \in Seq(Entry) /\ deadline[x] = Left(x, heap, ch) /\ Len(ch) = 0
    BY HeapType DEF TypeOK, NothingDropped
<1>2. deadline[x] \in Times(x, heap, ch)
    BY <1>1, LeftLeast
<1>3. deadline[x] = Never \/ (x \in DOMAIN heap /\ deadline[x] = heap[x])
    BY <1>1, <1>2, TimesAre
<1>4. Never > now
    BY TimeAssumption DEF TypeOK, Never
<1>5. x \in DOMAIN heap => heap[x] > now
    <2>1. x \in DOMAIN heap => heap[x] \in Nat
        BY <1>1, HeapEntry, TimeFacts
    <2>2. timer \in Nat /\ now \in Nat
        BY TimeFacts, TimeAssumption DEF TypeOK
    <2> QED
        BY <2>1, <2>2 DEF TimerSet
<1> QED
    BY <1>3, <1>4, <1>5

\* delaying.go: when waitingLoop blocks, no item's time has come: the timer it armed at
\* the top of the loop is early enough for all entries, without the heartbeat.
THEOREM DelayAwake == Spec => []NeverOversleeps
<1>1. Init => TimerSet
    BY DEF Init, TimerSet
<1> QED
    BY <1>1, TimerStep, SleepsRight, Kept, PTL DEF Spec

LEMMA AddsRight ==
    TypeOK /\ NothingDropped /\ [QueueNext]_vars => [\A x \in added' : deadline[x] <= now]_vars
<1> SUFFICES ASSUME TypeOK, NothingDropped, QueueNext, NEW x \in added' PROVE deadline[x] <= now
    BY DEF vars
<1>0. heap \in Heap /\ ch \in Seq(Entry) /\ now \in Nat /\ deadline \in [Item -> Time]
    BY HeapType, TimeAssumption DEF TypeOK
<1>1. \A y \in Item : \A t \in Times(y, heap, ch) : deadline[y] <= t /\ deadline[y] \in Nat /\ t \in Nat
    BY <1>0, LeftLeast, TimesType, TimeFacts DEF NothingDropped
<1>2. CASE LoopTop
    <2>1. x \in Ready /\ x \in Item
        BY <1>0, <1>2, LoopTopFacts DEF GiveToAdd
    <2>2. heap[x] \in Times(x, heap, ch) /\ heap[x] <= now
        BY <2>1, TimesAre DEF Ready
    <2> QED
        BY <1>0, <1>1, <2>1, <2>2
<1>3. CASE Receive
    <2>1. x = Head(ch).data /\ ~(Head(ch).readyAt > now)
        BY <1>3 DEF Receive, GiveToAdd
    <2>2. /\ Head(ch).readyAt \in Nat /\ x \in Item /\ ch[1] = Head(ch) /\ 1 \in 1..Len(ch)
        <3>1. Len(ch') \in Nat /\ Len(ch) \in Nat /\ Len(ch') = Len(ch) - 1
            BY <1>0, <1>3, ReceiveFacts
        <3>2. 1 \in 1..Len(ch)
            BY <3>1
        <3>3. Head(ch).data \in Item /\ Head(ch).readyAt \in Time /\ ch[1] = Head(ch)
            BY <1>3, ReceiveFacts
        <3> QED
            BY <2>1, <3>2, <3>3, TimeFacts
    <2>3. Head(ch).readyAt \in Times(x, heap, ch)
        BY <2>1, <2>2, TimesAre
    <2> QED
        BY <1>0, <1>1, <2>1, <2>2, <2>3
<1>4. ASSUME added' = {} PROVE FALSE
    BY <1>4
<1> QED
    BY <1>2, <1>3, <1>4 DEF QueueNext, waitingLoop, AddAfter, TimerFires, Heartbeat, Drained,
                            LoopExit, ShutDown, Tick

\* delaying.go: no item is given to Add before the earliest time a caller asked for,
\* although an entry's time is read once when it is received and again at the top of
\* the loop, and entries of one item are merged.
THEOREM DelayOnTime == Spec => NeverEarly
BY Kept, AddsRight, PTL DEF Spec, NeverEarly
=============================================================================
