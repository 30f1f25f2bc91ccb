---------------------------- MODULE NetPathProofs ----------------------------
(***************************************************************************)
(* The link and the generator's counts, for every speed, delay, jitter,    *)
(* rate and mode: the asserts of the link hold, and the counts differ by   *)
(* exactly the packets lost and the packets on their way.                  *)
(***************************************************************************)
EXTENDS NetPath, TLAPS

Packet == [sent : Nat, simLength : Nat]
Entry == [due : Nat, pkt : Packet]
Served == [pkt : Packet, ready : Nat]
Link == [packet : Seq(Packet), doneAt : Int, txQueue : Seq(Entry), queueAt : Int]

\* queueInStep is not inductive: a transmission must also end so late that its
\* packet leaves the queue after all that are in it.  It does, because it takes
\* at least the one tick that transmit() adds.
LinkInv(l, tick) ==
    /\ l \in Link /\ Len(l.packet) <= 1
    /\ queueInStep(l, tick)
    /\ l.packet # <<>> =>
          \A i \in 1..Len(l.txQueue) : l.txQueue[i].due < l.doneAt + LinkDelay

inLink(l) == Len(l.txQueue) + Len(l.packet)

PathInv ==
    /\ now \in Nat
    /\ {lastTxCount, lastRxCount, lost, carried} \subseteq Nat
    /\ card \in Seq(Served)
    /\ LinkInv(toCard, now) /\ LinkInv(toGen, now)
    /\ CountsExact

LEMMA SeqFacts ==
    ASSUME NEW S, NEW q \in Seq(S)
    PROVE  /\ Len(q) \in Nat /\ (q = <<>> <=> Len(q) = 0)
           /\ \A i \in 1..Len(q) : q[i] \in S
           /\ q # <<>> => Len(q) >= 1 /\ Head(q) = q[1] /\ Head(q) \in S
OBVIOUS

LEMMA QueueFacts ==
    ASSUME NEW q \in Seq(Entry)
    PROVE  /\ \A i \in 1..Len(q) : q[i].due \in Nat /\ q[i].pkt \in Packet
           /\ q # <<>> => Head(q).due = q[1].due /\ Head(q).due \in Nat /\ Head(q).pkt \in Packet
<1>1. \A e \in Entry : e.due \in Nat /\ e.pkt \in Packet
  BY DEF Entry
<1>2. /\ \A i \in 1..Len(q) : q[i] \in Entry
      /\ q # <<>> => Head(q) = q[1] /\ Head(q) \in Entry
  BY SeqFacts
<1> QED BY <1>1, <1>2

LEMMA LinkFacts ==
    ASSUME NEW l, NEW tick \in Nat, LinkInv(l, tick)
    PROVE  /\ l \in Link /\ l.packet \in Seq(Packet) /\ l.txQueue \in Seq(Entry)
           /\ l.doneAt \in Int /\ l.queueAt \in Int
           /\ l.doneAt = tick => l.packet # <<>> /\ Len(l.packet) = 1
           /\ l.queueAt = tick => l.txQueue # <<>>
<1>1. l \in Link /\ Len(l.packet) <= 1 /\ queueInStep(l, tick)
  BY DEF LinkInv
<1>2. /\ l.packet \in Seq(Packet) /\ l.txQueue \in Seq(Entry)
      /\ l.doneAt \in Int /\ l.queueAt \in Int
  BY <1>1 DEF Link
<1>3. Len(l.packet) \in Nat /\ (l.packet = <<>> <=> Len(l.packet) = 0)
  BY <1>2, SeqFacts
<1>4. l.doneAt = tick => l.packet # <<>>
  BY <1>1 DEF queueInStep, NotScheduled
<1>5. l.queueAt = tick => l.txQueue # <<>>
  BY <1>1 DEF queueInStep, NotScheduled
<1>6. l.doneAt = tick => Len(l.packet) = 1
  <2> DEFINE n == Len(l.packet)
  <2>1. n \in Nat /\ n <= 1
    BY <1>1, <1>3
  <2>2. l.doneAt = tick => n # 0
    BY <1>3, <1>4
  <2> HIDE DEF n
  <2>3. n \in {0, 1}
    BY <2>1
  <2>4. l.doneAt = tick => n = 1
    BY <2>2, <2>3
  <2> QED BY <2>4 DEF n
<1> QED BY <1>1, <1>2, <1>4, <1>5, <1>6

LEMMA IdleInv == ASSUME NEW tick \in Nat PROVE LinkInv(IdleLink, tick) /\ inLink(IdleLink) = 0
BY LinkAssumption DEF LinkInv, IdleLink, Link, queueInStep, NotScheduled, inLink

\* What the operators of the link do to it.
LEMMA TransmitInv ==
    ASSUME NEW l, NEW tick \in Nat, LinkInv(l, tick), ~busy(l),
           NEW pkt \in Packet, NEW jitter \in 0..DelayVar
    PROVE  /\ LinkInv(transmit(l, pkt, tick, jitter), tick)
           /\ inLink(transmit(l, pkt, tick, jitter)) = inLink(l) + 1
<1> DEFINE t == transmit(l, pkt, tick, jitter)
           end == tick + pkt.simLength * TicksPerByte + 1 + jitter
<1>1. end \in Nat /\ end > tick
  <2>1. pkt.simLength \in Nat /\ TicksPerByte \in Nat /\ DelayVar \in Nat
    BY LinkAssumption DEF Packet
  <2>2. pkt.simLength * TicksPerByte \in Nat
    BY <2>1
  <2> HIDE DEF LinkInv
  <2> QED BY <2>1, <2>2
<1> HIDE DEF end
<1>2. /\ t \in Link /\ t.packet = <<pkt>> /\ t.doneAt = end
      /\ t.txQueue = l.txQueue /\ t.queueAt = l.queueAt
  <2>1. l \in Link /\ <<pkt>> \in Seq(Packet) /\ end \in Int
    BY <1>1 DEF LinkInv
  <2>2. t = [l EXCEPT !.packet = <<pkt>>, !.doneAt = end]
    BY DEF transmit, end
  <2> HIDE DEF t
  <2> QED BY <2>1, <2>2 DEF Link
<1>3. l.txQueue \in Seq(Entry) /\ l.packet = <<>>
  BY DEF LinkInv, Link, busy
<1>4. LinkInv(t, tick)
  <2> HIDE DEF t
  <2>1. queueInStep(l, tick)
    BY DEF LinkInv
  <2>2. queueInStep(t, tick)
    BY <1>1, <1>2, <1>3, <2>1 DEF queueInStep, NotScheduled
  <2>3. \A i \in 1..Len(t.txQueue) : t.txQueue[i].due < t.doneAt + LinkDelay
    <3>1. \A i \in 1..Len(l.txQueue) : l.txQueue[i].due \in tick..(tick + LinkDelay)
      BY <2>1 DEF queueInStep
    <3>2. LinkDelay \in Nat
      BY LinkAssumption
    <3> QED BY <1>1, <1>2, <3>1, <3>2
  <2>4. Len(t.packet) <= 1
    BY <1>2
  <2> QED BY <1>2, <2>2, <2>3, <2>4 DEF LinkInv
<1>5. inLink(t) = inLink(l) + 1
  BY <1>2, <1>3 DEF inLink
<1> QED BY <1>4, <1>5

LEMMA DoneInv ==
    ASSUME NEW l, NEW tick \in Nat, LinkInv(l, tick), l.doneAt = tick
    PROVE  LinkInv(txDone(l, tick), tick) /\ inLink(txDone(l, tick)) = inLink(l)
<1> DEFINE e == [due |-> tick + LinkDelay, pkt |-> Head(l.packet)]
           q == Append(l.txQueue, e)
           t == txDone(l, tick)
<1>0. LinkDelay \in Nat \ {0}
  BY LinkAssumption
<1>1. /\ l.txQueue \in Seq(Entry) /\ l.packet \in Seq(Packet) /\ Len(l.packet) = 1
      /\ l.packet # <<>>
  BY LinkFacts
<1>2. e \in Entry /\ e.due = tick + LinkDelay
  BY <1>0, <1>1, SeqFacts DEF Entry
<1> HIDE DEF e
<1>3. /\ q \in Seq(Entry) /\ q # <<>> /\ Len(q) = Len(l.txQueue) + 1
      /\ q[Len(q)] = e /\ \A i \in 1..Len(l.txQueue) : q[i] = l.txQueue[i]
      /\ Head(q) = IF l.txQueue = <<>> THEN e ELSE Head(l.txQueue)
  <2> DEFINE old == l.txQueue
  <2>1. old \in Seq(Entry) /\ e \in Entry /\ q = Append(old, e)
    BY <1>1, <1>2
  <2> HIDE DEF old, q
  <2>2. /\ q \in Seq(Entry) /\ Len(q) = Len(old) + 1 /\ Len(old) \in Nat
        /\ q[Len(old) + 1] = e /\ \A i \in 1..Len(old) : q[i] = old[i]
    BY <2>1
  <2>3. q # <<>> /\ Head(q) = q[1]
    BY <2>2
  <2>4. old = <<>> => Len(old) = 0
    OBVIOUS
  <2>5. old # <<>> => Len(old) >= 1 /\ Head(old) = old[1]
    BY <2>1
  <2>6. Head(q) = IF old = <<>> THEN e ELSE Head(old)
    BY <2>2, <2>3, <2>4, <2>5
  <2> QED BY <2>2, <2>3, <2>6 DEF old
<1> HIDE DEF q
<1>4. /\ t \in Link /\ t.packet = <<>> /\ t.doneAt = NotScheduled /\ t.txQueue = q
      /\ t.queueAt = IF l.queueAt = NotScheduled THEN Head(q).due ELSE l.queueAt
  <2>1. Head(q).due \in Nat
    BY <1>3, QueueFacts
  <2> DEFINE at == IF l.queueAt = NotScheduled THEN Head(q).due ELSE l.queueAt
  <2>2. l \in Link /\ <<>> \in Seq(Packet) /\ NotScheduled \in Int /\ at \in Int
    BY <2>1, LinkFacts DEF NotScheduled
  <2>3. t = [l EXCEPT !.packet = <<>>, !.doneAt = NotScheduled, !.txQueue = q, !.queueAt = at]
    BY DEF txDone, q, e
  <2> HIDE DEF t, at
  <2>4. /\ t \in Link /\ t.packet = <<>> /\ t.doneAt = NotScheduled /\ t.txQueue = q
        /\ t.queueAt = at
    BY <1>3, <2>2, <2>3 DEF Link
  <2> QED BY <2>4 DEF at
<1> HIDE DEF t
<1>5. t.queueAt = Head(q).due
  BY <1>1, <1>2, <1>3, <1>4 DEF LinkInv, queueInStep, NotScheduled, Entry
<1>6. \A i \in 1..Len(q) : q[i].due \in tick..(tick + LinkDelay)
  <2>1. \A i \in 1..Len(l.txQueue) : l.txQueue[i].due \in tick..(tick + LinkDelay)
    BY DEF LinkInv, queueInStep
  <2>2. e.due \in tick..(tick + LinkDelay) /\ Len(l.txQueue) \in Nat
    BY <1>0, <1>1, <1>2
  <2>3. \A i \in 1..Len(q) : i \in 1..Len(l.txQueue) \/ i = Len(q)
    BY <1>3, <2>2
  <2> QED BY <1>3, <2>1, <2>2, <2>3
<1>7. \A i, j \in 1..Len(q) : i < j => q[i].due < q[j].due
  <2>1. \A i \in 1..Len(l.txQueue) : l.txQueue[i].due < tick + LinkDelay
    BY <1>1 DEF LinkInv
  <2>2. \A i, j \in 1..Len(l.txQueue) : i < j => l.txQueue[i].due < l.txQueue[j].due
    BY DEF LinkInv, queueInStep
  <2>3. Len(l.txQueue) \in Nat
    BY <1>1, SeqFacts
  <2> SUFFICES ASSUME NEW i \in 1..Len(q), NEW j \in 1..Len(q), i < j
               PROVE  q[i].due < q[j].due
    OBVIOUS
  <2>4. i \in 1..Len(l.txQueue) /\ (j \in 1..Len(l.txQueue) \/ j = Len(q))
    BY <1>3, <2>3
  <2>5. CASE j = Len(q)
    BY <1>2, <1>3, <2>1, <2>4, <2>5
  <2>6. CASE j \in 1..Len(l.txQueue)
    BY <1>3, <2>2, <2>4, <2>6
  <2> QED BY <2>4, <2>5, <2>6
<1>8. LinkInv(t, tick)
  BY <1>3, <1>4, <1>5, <1>6, <1>7 DEF LinkInv, queueInStep, NotScheduled
<1>9. inLink(t) = inLink(l)
  BY <1>1, <1>3, <1>4 DEF inLink
<1> QED BY <1>8, <1>9 DEF t

LEMMA ProcessInv ==
    ASSUME NEW l, NEW tick \in Nat, LinkInv(l, tick), l.queueAt = tick
    PROVE  /\ LinkInv(processTxQueue(l), tick) /\ arriving(l) \in Packet
           /\ inLink(l) = inLink(processTxQueue(l)) + 1
<1> DEFINE q == Tail(l.txQueue)
           t == processTxQueue(l)
<1>1. /\ l.txQueue \in Seq(Entry) /\ l.packet \in Seq(Packet) /\ l.txQueue # <<>>
      /\ arriving(l) \in Packet
  BY LinkFacts, QueueFacts DEF arriving
<1>2. /\ q \in Seq(Entry) /\ Len(l.txQueue) = Len(q) + 1
      /\ \A i \in 1..Len(q) : q[i] = l.txQueue[i + 1]
  BY <1>1
<1> HIDE DEF q
<1>3. q # <<>> => Head(q) = q[1] /\ Head(q).due \in Nat
  BY <1>2, SeqFacts, QueueFacts
<1>4. /\ t \in Link /\ t.packet = l.packet /\ t.doneAt = l.doneAt /\ t.txQueue = q
      /\ t.queueAt = IF q = <<>> THEN NotScheduled ELSE Head(q).due
  <2> DEFINE at == IF q = <<>> THEN NotScheduled ELSE Head(q).due
  <2>1. l \in Link /\ at \in Int
    BY <1>3, LinkFacts DEF NotScheduled
  <2>2. t = [l EXCEPT !.txQueue = q, !.queueAt = at]
    BY DEF processTxQueue, q
  <2> HIDE DEF t, at
  <2>3. /\ t \in Link /\ t.packet = l.packet /\ t.doneAt = l.doneAt /\ t.txQueue = q
        /\ t.queueAt = at
    BY <1>2, <2>1, <2>2 DEF Link
  <2> QED BY <2>3 DEF at
<1> HIDE DEF t
<1>5. LinkInv(t, tick)
  <2>1. Len(q) \in Nat /\ \A i \in 1..Len(q) : i + 1 \in 1..Len(l.txQueue)
    BY <1>2, SeqFacts
  <2>2. \A i \in 1..Len(q) : q[i].due \in tick..(tick + LinkDelay)
    BY <1>2, <2>1 DEF LinkInv, queueInStep
  <2>3. \A i, j \in 1..Len(q) : i < j => q[i].due < q[j].due
    <3>1. \A i, j \in 1..Len(l.txQueue) : i < j => l.txQueue[i].due < l.txQueue[j].due
      BY DEF LinkInv, queueInStep
    <3>2. \A i, j \in 1..Len(q) : i < j => i + 1 < j + 1
      BY <2>1
    <3> QED BY <1>2, <2>1, <3>1, <3>2
  <2>4. t.packet # <<>> => \A i \in 1..Len(q) : q[i].due < t.doneAt + LinkDelay
    BY <1>2, <1>4, <2>1 DEF LinkInv
  <2>5. queueInStep(t, tick)
    BY <1>4, <2>2, <2>3 DEF LinkInv, queueInStep
  <2>6. Len(t.packet) <= 1
    BY <1>4 DEF LinkInv
  <2> QED BY <1>4, <2>4, <2>5, <2>6 DEF LinkInv
<1>6. inLink(l) = inLink(t) + 1
  <2>1. Len(q) \in Nat /\ Len(l.packet) \in Nat
    BY <1>1, <1>2, SeqFacts
  <2> DEFINE n == Len(q)  k == Len(l.packet)
  <2>2. inLink(l) = (n + 1) + k /\ inLink(t) = n + k
    BY <1>2, <1>4 DEF inLink
  <2>3. n \in Nat /\ k \in Nat
    BY <2>1
  <2> HIDE DEF n, k
  <2> QED BY <2>2, <2>3
<1> QED BY <1>1, <1>5, <1>6 DEF t

LEMMA RestoredSame == ASSUME NEW l, NEW tick \in Nat, LinkInv(l, tick) PROVE restored(l) = l
BY DEF LinkInv, Link, queueInStep, restored

LEMMA AdvanceInv ==
    ASSUME NEW l, NEW tick \in Nat, LinkInv(l, tick), tick \notin {l.doneAt, l.queueAt}
    PROVE  LinkInv(l, tick + 1)
<1>1. l.txQueue \in Seq(Entry) /\ l.doneAt \in Int /\ LinkDelay \in Nat
  BY LinkFacts, LinkAssumption
<1>2. \A i \in 1..Len(l.txQueue) : l.txQueue[i].due \in (tick + 1)..(tick + 1 + LinkDelay)
  <2>1. /\ \A i \in 1..Len(l.txQueue) : l.txQueue[i].due \in tick..(tick + LinkDelay)
        /\ \A i, j \in 1..Len(l.txQueue) : i < j => l.txQueue[i].due < l.txQueue[j].due
        /\ l.txQueue # <<>> => tick # Head(l.txQueue).due
    BY DEF LinkInv, queueInStep
  <2>2. TAKE i \in 1..Len(l.txQueue)
  <2>3. l.txQueue # <<>> /\ 1 \in 1..Len(l.txQueue) /\ Len(l.txQueue) \in Nat
    BY <1>1, SeqFacts
  <2>4. l.txQueue[1].due # tick /\ l.txQueue[i].due \in Nat /\ l.txQueue[1].due \in Nat
    BY <1>1, <2>1, <2>3, QueueFacts
  <2>5. i = 1 \/ 1 < i
    BY <2>2, <2>3
  <2>6. l.txQueue[i].due > tick
    BY <2>1, <2>3, <2>4, <2>5
  <2> QED BY <1>1, <2>1, <2>6
<1>3. queueInStep(l, tick + 1)
  BY <1>1, <1>2 DEF LinkInv, queueInStep
<1> QED BY <1>3 DEF LinkInv

----------------------------------------------------------------------------
(* The path.                                                               *)

LEMMA ConcatFacts ==
    ASSUME NEW S, NEW p \in Seq(S), NEW q \in Seq(S)
    PROVE  p \o q \in Seq(S) /\ Len(p \o q) = Len(p) + Len(q)
OBVIOUS

\* onTheWay, of any two links and any packets in the card.
along(back, c, forth) == onLink(back) \o [i \in 1..Len(c) |-> c[i].pkt] \o onLink(forth)

LEMMA AlongLen ==
    ASSUME NEW back \in Link, NEW c \in Seq(Served), NEW forth \in Link
    PROVE  /\ Len(along(back, c, forth)) = inLink(back) + Len(c) + inLink(forth)
           /\ inLink(back) \in Nat /\ inLink(forth) \in Nat /\ Len(c) \in Nat
<1> DEFINE inCard == [i \in 1..Len(c) |-> c[i].pkt]
<1>1. ASSUME NEW l \in Link
      PROVE  /\ onLink(l) \in Seq(Packet) /\ Len(onLink(l)) = inLink(l)
             /\ inLink(l) \in Nat
  <2> DEFINE q == [i \in 1..Len(l.txQueue) |-> l.txQueue[i].pkt]
  <2>1. l.txQueue \in Seq(Entry) /\ l.packet \in Seq(Packet)
    BY DEF Link
  <2>2. Len(l.txQueue) \in Nat /\ Len(l.packet) \in Nat
    BY <2>1, SeqFacts
  <2>3. q \in Seq(Packet) /\ Len(q) = Len(l.txQueue)
    BY <2>1, <2>2, QueueFacts
  <2> HIDE DEF q
  <2>4. q \o l.packet \in Seq(Packet) /\ Len(q \o l.packet) = Len(q) + Len(l.packet)
    BY <2>1, <2>3, ConcatFacts
  <2>5. onLink(l) = q \o l.packet /\ inLink(l) = Len(l.txQueue) + Len(l.packet)
    BY DEF onLink, inLink, q
  <2>6. onLink(l) \in Seq(Packet)
    BY <2>4, <2>5
  <2>7. Len(onLink(l)) = inLink(l)
    BY <2>3, <2>4, <2>5
  <2>8. inLink(l) \in Nat
    <3> DEFINE n == Len(l.txQueue)  k == Len(l.packet)
    <3>1. n \in Nat /\ k \in Nat /\ inLink(l) = n + k
      BY <2>2, <2>5
    <3> HIDE DEF n, k
    <3> QED BY <3>1
  <2> QED BY <2>6, <2>7, <2>8
<1>2. Len(c) \in Nat /\ \A i \in 1..Len(c) : c[i].pkt \in Packet
  <2>1. \A e \in Served : e.pkt \in Packet
    BY DEF Served
  <2> QED BY <2>1, SeqFacts
<1>3. inCard \in Seq(Packet) /\ Len(inCard) = Len(c)
  BY <1>2
<1> HIDE DEF inCard
<1> DEFINE a == onLink(back)  b == onLink(forth)
<1>4. /\ a \in Seq(Packet) /\ Len(a) = inLink(back) /\ inLink(back) \in Nat
      /\ b \in Seq(Packet) /\ Len(b) = inLink(forth) /\ inLink(forth) \in Nat
  BY <1>1
<1>5. along(back, c, forth) = a \o inCard \o b
  BY DEF along, inCard
<1> HIDE DEF a, b
<1>6. a \o inCard \in Seq(Packet) /\ Len(a \o inCard) = Len(a) + Len(inCard)
  BY <1>3, <1>4, ConcatFacts
<1>7. Len((a \o inCard) \o b) = Len(a \o inCard) + Len(b)
  BY <1>4, <1>6, ConcatFacts
<1> QED BY <1>2, <1>3, <1>4, <1>5, <1>6, <1>7

LEMMA InitPath == Init => PathInv
<1> SUFFICES ASSUME Init PROVE PathInv
  OBVIOUS
<1>1. /\ now \in Nat /\ lastTxCount = 0 /\ lastRxCount = 0 /\ lost = 0 /\ carried = 0
      /\ toCard = IdleLink /\ toGen = IdleLink /\ card = <<>>
  BY LoadGenAssumption DEF Init, GenInit
<1>2. LinkInv(toCard, now) /\ LinkInv(toGen, now) /\ inLink(toCard) = 0 /\ inLink(toGen) = 0
  BY <1>1, IdleInv
<1>3. card \in Seq(Served) /\ Len(card) = 0
  BY <1>1
<1>4. Len(onTheWay) = inLink(toGen) + Len(card) + inLink(toCard)
  BY <1>1, <1>2, <1>3, AlongLen, LinkFacts DEF onTheWay, along
<1>5. CountsExact
  BY <1>1, <1>2, <1>3, <1>4 DEF CountsExact
<1> QED BY <1>1, <1>2, <1>3, <1>5 DEF PathInv

\* The law of the counts over the lengths of the path's parts.
Law == lastTxCount + carried = lastRxCount + lost + (inLink(toGen) + Len(card) + inLink(toCard))

LEMMA StepPath == PathInv /\ [Next]_vars => PathInv'
<1> SUFFICES ASSUME PathInv, [Next]_vars PROVE PathInv'
  OBVIOUS
<1>1. /\ now \in Nat /\ card \in Seq(Served)
      /\ lastTxCount \in Nat /\ lastRxCount \in Nat /\ lost \in Nat /\ carried \in Nat
      /\ LinkInv(toCard, now) /\ LinkInv(toGen, now)
  BY DEF PathInv
<1>2. /\ toCard \in Link /\ toGen \in Link
      /\ inLink(toGen) \in Nat /\ inLink(toCard) \in Nat /\ Len(card) \in Nat
      /\ Len(onTheWay) = inLink(toGen) + Len(card) + inLink(toCard)
  <2>1. toCard \in Link /\ toGen \in Link
    BY <1>1, LinkFacts
  <2>2. onTheWay = along(toGen, card, toCard)
    BY DEF onTheWay, along
  <2> QED BY <1>1, <2>1, <2>2, AlongLen
<1>3. Law
  BY <1>2 DEF PathInv, CountsExact, Law
<1> DEFINE Safe ==
      /\ now \in Nat /\ card \in Seq(Served)
      /\ lastTxCount \in Nat /\ lastRxCount \in Nat /\ lost \in Nat /\ carried \in Nat
      /\ LinkInv(toCard, now) /\ LinkInv(toGen, now)
<1>4. ASSUME Safe', Law' PROVE PathInv'
  <2>1. toCard' \in Link /\ toGen' \in Link
    BY <1>4, LinkFacts
  <2>2. Len(onTheWay)' = (inLink(toGen) + Len(card) + inLink(toCard))'
    <3>1. onTheWay' = along(toGen', card', toCard')
      BY DEF onTheWay, along
    <3> QED BY <1>4, <2>1, <3>1, AlongLen
  <2> QED BY <1>4, <2>2 DEF PathInv, CountsExact, Law
<1>5. CASE SendPacket
  <2>1. /\ lastTxCount' = lastTxCount + 1 /\ lastRxCount' = lastRxCount /\ now' = now
        /\ carried' = carried /\ toGen' = toGen /\ card' = card
    BY <1>5 DEF SendPacket, sendPacket
  <2>4. /\ (lastTxCount + 1) + carried
              = lastRxCount + (lost + 1) + (inLink(toGen) + Len(card) + inLink(toCard))
        /\ (lastTxCount + 1) + carried
              = lastRxCount + lost + (inLink(toGen) + Len(card) + (inLink(toCard) + 1))
    <3> DEFINE g == inLink(toGen)  n == Len(card)  h == inLink(toCard)
    <3>1. /\ lastTxCount \in Nat /\ carried \in Nat /\ lastRxCount \in Nat /\ lost \in Nat
          /\ g \in Nat /\ n \in Nat /\ h \in Nat
          /\ lastTxCount + carried = lastRxCount + lost + (g + n + h)
      BY <1>1, <1>2, <1>3 DEF Law
    <3> HIDE DEF g, n, h
    <3>2. /\ (lastTxCount + 1) + carried = lastRxCount + (lost + 1) + (g + n + h)
          /\ (lastTxCount + 1) + carried = lastRxCount + lost + (g + n + (h + 1))
      BY <3>1
    <3> QED BY <3>2 DEF g, n, h
  <2>2. CASE busy(toCard)
    <3>1. lost' = lost + 1 /\ toCard' = toCard
      BY <1>5, <2>2 DEF SendPacket
    <3>2. Safe'
      BY <1>1, <2>1, <3>1
    <3>4. Law'
      BY <2>1, <2>4, <3>1 DEF Law
    <3> QED BY <1>4, <3>2, <3>4
  <2>3. CASE ~busy(toCard)
    <3>1. PICK jitter \in 0..DelayVar : toCard' = transmit(toCard, buildPacket, now, jitter)
      BY <1>5, <2>3 DEF SendPacket
    <3>2. lost' = lost /\ buildPacket \in Packet
      BY <1>1, <1>5, <2>3 DEF SendPacket, buildPacket, Packet
    <3>3. LinkInv(toCard', now) /\ inLink(toCard') = inLink(toCard) + 1
      BY <1>1, <2>3, <3>1, <3>2, TransmitInv
    <3>4. Safe'
      BY <1>1, <2>1, <3>2, <3>3
    <3>6. Law'
      BY <2>1, <2>4, <3>2, <3>3 DEF Law
    <3> QED BY <1>4, <3>4, <3>6
  <2> QED BY <2>2, <2>3
<1>6. CASE CheckLoss
  <2>1. /\ lastTxCount' = 0 /\ lastRxCount' = 0 /\ lost' = 0 /\ now' = now
        /\ carried' = Len(onTheWay) /\ toCard' = toCard /\ toGen' = toGen /\ card' = card
    BY <1>6 DEF CheckLoss, checkLoss, path
  <2>2. Safe' /\ Law'
    BY <1>1, <1>2, <2>1 DEF Law
  <2> QED BY <1>4, <2>2
<1>7. CASE ToCardDone
  <2>1. LinkInv(toCard', now) /\ inLink(toCard') = inLink(toCard)
    BY <1>1, <1>7, DoneInv DEF ToCardDone
  <2>2. Safe' /\ Law'
    BY <1>1, <1>2, <1>3, <1>7, <2>1 DEF Law, ToCardDone, generator
  <2> QED BY <1>4, <2>2
<1>8. CASE CardReceives
  <2>1. /\ lastTxCount' = lastTxCount /\ lastRxCount' = lastRxCount /\ now' = now
        /\ carried' = carried /\ toGen' = toGen
    BY <1>8 DEF CardReceives, generator
  <2>2. /\ LinkInv(toCard', now) /\ inLink(toCard) = inLink(toCard') + 1
        /\ arriving(toCard) \in Packet
    BY <1>1, <1>8, ProcessInv DEF CardReceives
  <2>3. inLink(toCard') \in Nat
    BY <1>1, <2>2, AlongLen, LinkFacts
  <2>4. CASE lost' = lost + 1 /\ card' = card
    <3>1. Safe' /\ Law'
      BY <1>1, <1>2, <1>3, <2>1, <2>2, <2>3, <2>4 DEF Law
    <3> QED BY <1>4, <3>1
  <2>5. ASSUME NEW s \in ServeTimes, lost' = lost,
               card' = Append(card, [pkt |-> arriving(toCard), ready |-> now + s])
        PROVE  PathInv'
    <3>1. [pkt |-> arriving(toCard), ready |-> now + s] \in Served
      BY <1>1, <2>2, PathAssumption DEF Served
    <3>2. card' \in Seq(Served) /\ Len(card') = Len(card) + 1
      BY <1>1, <2>5, <3>1
    <3>3. Safe' /\ Law'
      BY <1>1, <1>2, <1>3, <2>1, <2>2, <2>3, <2>5, <3>2 DEF Law
    <3> QED BY <1>4, <3>3
  <2> QED BY <1>8, <2>4, <2>5 DEF CardReceives
<1>9. CASE CardSends
  <2>1. /\ lastTxCount' = lastTxCount /\ lastRxCount' = lastRxCount /\ now' = now
        /\ carried' = carried /\ lost' = lost /\ toCard' = toCard
        /\ card # <<>> /\ ~busy(toGen) /\ card' = Tail(card)
    BY <1>9 DEF CardSends, CardReady, generator
  <2>2. card' \in Seq(Served) /\ Len(card) = Len(card') + 1 /\ Head(card) \in Served
    BY <1>1, <2>1
  <2>3. PICK jitter \in 0..DelayVar :
           toGen' = transmit(toGen, [Head(card).pkt EXCEPT !.simLength = PacketLen], now, jitter)
    BY <1>9 DEF CardSends
  <2>4. [Head(card).pkt EXCEPT !.simLength = PacketLen] \in Packet
    BY <2>2, PathAssumption DEF Served, Packet
  <2>5. LinkInv(toGen', now) /\ inLink(toGen') = inLink(toGen) + 1
    BY <1>1, <2>1, <2>3, <2>4, TransmitInv
  <2>6. Safe' /\ Law'
    BY <1>1, <1>2, <1>3, <2>1, <2>2, <2>5 DEF Law
  <2> QED BY <1>4, <2>6
<1>10. CASE ToGenDone
  <2>1. LinkInv(toGen', now) /\ inLink(toGen') = inLink(toGen)
    BY <1>1, <1>10, DoneInv DEF ToGenDone
  <2>2. Safe' /\ Law'
    BY <1>1, <1>2, <1>3, <1>10, <2>1 DEF Law, ToGenDone, generator
  <2> QED BY <1>4, <2>2
<1>11. CASE ProcessRxPkt
  <2>1. /\ lastTxCount' = lastTxCount /\ lastRxCount' = lastRxCount + 1 /\ now' = now
        /\ carried' = carried /\ lost' = lost /\ toCard' = toCard /\ card' = card
    BY <1>11 DEF ProcessRxPkt, processRxPkt
  <2>2. LinkInv(toGen', now) /\ inLink(toGen) = inLink(toGen') + 1
    BY <1>1, <1>11, ProcessInv DEF ProcessRxPkt
  <2>3. inLink(toGen') \in Nat
    BY <1>1, <2>2, AlongLen, LinkFacts
  <2>4. Safe' /\ Law'
    BY <1>1, <1>2, <1>3, <2>1, <2>2, <2>3 DEF Law
  <2> QED BY <1>4, <2>4
<1>12. CASE Advance
  <2>1. /\ lastTxCount' = lastTxCount /\ lastRxCount' = lastRxCount /\ now' = now + 1
        /\ carried' = carried /\ lost' = lost
        /\ toCard' = toCard /\ toGen' = toGen /\ card' = card
    BY <1>12 DEF Advance, generator, path
  <2>2. LinkInv(toCard', now') /\ LinkInv(toGen', now')
    BY <1>1, <1>12, <2>1, AdvanceInv DEF Advance, NothingDue
  <2>3. Safe' /\ Law'
    BY <1>1, <1>2, <1>3, <2>1, <2>2 DEF Law
  <2> QED BY <1>4, <2>3
<1>13. CASE Restore
  <2>1. /\ lastTxCount' = 0 /\ lastRxCount' = 0 /\ lost' = 0 /\ now' = now
        /\ carried' = Len(onTheWay) /\ card' = card
        /\ toCard' = restored(toCard) /\ toGen' = restored(toGen)
    BY <1>13 DEF Restore, GenRestore
  <2>2. toCard' = toCard /\ toGen' = toGen
    BY <1>1, <2>1, RestoredSame
  <2>3. Safe' /\ Law'
    BY <1>1, <1>2, <2>1, <2>2 DEF Law
  <2> QED BY <1>4, <2>3
<1>14. CASE UNCHANGED vars
  <2>1. Safe' /\ Law'
    BY <1>1, <1>3, <1>14 DEF vars, generator, path, Law
  <2> QED BY <1>4, <2>1
<1> QED
  BY <1>5, <1>6, <1>7, <1>8, <1>9, <1>10, <1>11, <1>12, <1>13, <1>14
  DEF Next, Step, Ended

LEMMA PathAlways == Spec => []PathInv
<1>1. Init => PathInv
  BY InitPath
<1>2. PathInv /\ [Next]_vars => PathInv'
  BY StepPath
<1> QED BY <1>1, <1>2, PTL DEF Spec

\* None of the asserts of the link can fail, in either direction, for every speed,
\* delay and jitter, and over checkpoints.
THEOREM LinkAlwaysInStep == Spec => []LinkInStep
<1>1. PathInv => LinkInStep
  BY DEF PathInv, LinkInv, LinkInStep
<1> QED BY <1>1, PathAlways, PTL

\* The generator's counts differ by exactly the packets lost and the packets on
\* their way, less the ones that were on their way when the counts were reset.
THEOREM CountsAlwaysExact == Spec => []CountsExact
<1>1. PathInv => CountsExact
  BY DEF PathInv
<1> QED BY <1>1, PathAlways, PTL

\* AtMostOneLateSend is not inductive: after a late packet there must be no event
\* left that could send another.
LateInv ==
    /\ lateSends \in 0..1
    /\ sendAt = None \/ checkAt = None
    /\ lateSends = 1 => now > StopTick /\ sendAt = None /\ checkAt = None

LEMMA StepLate == PathInv /\ LateInv /\ [Next]_vars => LateInv'
<1> SUFFICES ASSUME PathInv, LateInv, [Next]_vars PROVE LateInv'
  OBVIOUS
<1> USE DEF None
<1>1. now \in Nat /\ StopTick \in Nat
  BY LoadGenAssumption DEF PathInv
<1>2. CASE SendPacket
  <2>1. /\ sendAt = now /\ now' = now /\ scheduleNext
        /\ lateSends' = IF now > StopTick THEN lateSends + 1 ELSE lateSends
    BY <1>2 DEF SendPacket, sendPacket
  <2>2. checkAt = None /\ lateSends = 0
    BY <1>1, <2>1 DEF LateInv
  <2>3. now > StopTick => sendAt' = None /\ checkAt' = None
    BY <1>1, <2>1, <2>2 DEF scheduleNext, stopped
  <2>4. sendAt' = None \/ checkAt' = None
    BY <2>1, <2>2 DEF scheduleNext
  <2> QED BY <1>1, <2>1, <2>2, <2>3, <2>4 DEF LateInv
<1>3. CASE CheckLoss
  <2>1. checkAt = now /\ checkAt' = None /\ lateSends' = lateSends
    BY <1>3 DEF CheckLoss, checkLoss
  <2> QED BY <1>1, <2>1 DEF LateInv
<1>4. CASE Advance
  <2>1. now' = now + 1 /\ UNCHANGED <<sendAt, checkAt, lateSends>>
    BY <1>4 DEF Advance, generator
  <2> QED BY <1>1, <2>1 DEF LateInv
<1>5. CASE Restore
  <2>1. sendAt' = startup(now) /\ checkAt' = None /\ UNCHANGED <<now, lateSends>>
    BY <1>5 DEF Restore, GenRestore
  <2> QED BY <1>1, <2>1 DEF LateInv, startup
<1>6. CASE \/ ToCardDone \/ CardReceives \/ CardSends \/ ToGenDone \/ ProcessRxPkt
           \/ UNCHANGED vars
  <2>1. UNCHANGED <<now, sendAt, checkAt, lateSends>>
    BY <1>6 DEF ToCardDone, CardReceives, CardSends, ToGenDone, ProcessRxPkt, processRxPkt,
                vars, generator
  <2> QED BY <2>1 DEF LateInv
<1> QED BY <1>2, <1>3, <1>4, <1>5, <1>6 DEF Next, Step, Ended

\* At most one packet follows StopTick, in every mode, for every rate, wait and
\* burst, with a check due across it, and over checkpoints.
THEOREM LateSendBounded == Spec => []AtMostOneLateSend
<1>1. Init => LateInv
  BY LoadGenAssumption DEF Init, GenInit, LateInv
<1>2. LateInv => AtMostOneLateSend
  BY DEF LateInv, AtMostOneLateSend
<1> QED BY <1>1, <1>2, StepLate, PathAlways, PTL DEF Spec
=============================================================================
