----------------------------- MODULE DmaBusProofs -----------------------------
(***************************************************************************)
(* Proofs about DmaBus: for any number of devices, lines, MSHRs, targets   *)
(* and write buffers, nobody who is turned away is forgotten, and the      *)
(* write buffer's reserve is enough.                                       *)
(***************************************************************************)
EXTENDS DmaBus, FiniteSetTheorems, TLAPS

----------------------------------------------------------------------------
(* Sequences.                                                              *)

\* The length of a sequence, and its elements.
LEMMA SeqElements ==
    ASSUME NEW S, NEW s \in Seq(S)
    PROVE  /\ Len(s) \in Nat /\ (s # <<>> => Len(s) >= 1)
           /\ \A i \in 1..Len(s) : s[i] \in S
OBVIOUS

\* One element more.
LEMMA SeqAppend ==
    ASSUME NEW S, NEW s \in Seq(S), NEW x \in S
    PROVE  /\ Append(s, x) \in Seq(S) /\ Append(s, x) # <<>>
           /\ Len(Append(s, x)) = Len(s) + 1 /\ Append(s, x)[Len(s) + 1] = x
           /\ \A i \in 1..Len(s) : Append(s, x)[i] = s[i]
OBVIOUS

\* Two sequences in one.
LEMMA SeqConcat ==
    ASSUME NEW S, NEW s \in Seq(S), NEW t \in Seq(S)
    PROVE  /\ s \o t \in Seq(S) /\ Len(s \o t) = Len(s) + Len(t)
           /\ \A i \in 1..Len(s) : (s \o t)[i] = s[i]
           /\ \A i \in 1..Len(t) : (s \o t)[Len(s) + i] = t[i]
OBVIOUS

\* Nothing is added.
LEMMA SeqConcatNone ==
    ASSUME NEW S, NEW s \in Seq(S)
    PROVE  s \o <<>> = s
OBVIOUS

\* The first element, and the others.
LEMMA SeqHeadTail ==
    ASSUME NEW S, NEW s \in Seq(S), s # <<>>
    PROVE  /\ Head(s) \in S /\ Tail(s) \in Seq(S) /\ Len(Tail(s)) = Len(s) - 1
           /\ \A i \in 1..Len(Tail(s)) : Tail(s)[i] = s[i + 1]
OBVIOUS

\* A part of a sequence.
LEMMA SeqPart ==
    ASSUME NEW S, NEW s \in Seq(S), NEW m \in Int, NEW n \in Int,
           \A i \in m..n : s[i] \in S
    PROVE  /\ SubSeq(s, m, n) \in Seq(S)
           /\ Len(SubSeq(s, m, n)) = IF m <= n THEN n - m + 1 ELSE 0
           /\ \A i \in 1..(n - m + 1) : SubSeq(s, m, n)[i] = s[m + i - 1]
OBVIOUS

----------------------------------------------------------------------------
(* The chunks of a DMA.                                                    *)

Generators ==
    [curAddr : Int, nextAddr : Int, curSize : Int, sizeLeft : Int, nextSize : Int,
     isHead : BOOLEAN]

\* A generator with a chunk to send, all of whose bytes are in lines that are used.
GoodGen(g) ==
    /\ g \in Generators
    /\ g.curSize >= 1 /\ g.sizeLeft >= 0
    /\ g.nextAddr = g.curAddr + g.curSize
    /\ g.nextSize = least(g.sizeLeft, LineSize)
    /\ \A a \in g.curAddr..(g.curAddr + g.curSize + g.sizeLeft - 1) : a \div LineSize \in Lines

\* roundUp() does not round down.
LEMMA RoundUp ==
    ASSUME NEW a \in Nat
    PROVE  roundUp(a) \in Int /\ roundUp(a) >= a
<1> DEFINE n == a + LineSize - 1
           q == n \div LineSize
           r == n % LineSize
<1>1. LineSize \in Nat /\ LineSize > 0 /\ n \in Int
    BY LineAssumption
<1>2. q \in Int /\ r \in 0..(LineSize - 1) /\ n = LineSize * q + r
    BY <1>1, Z3
<1>3. LineSize * q \in Int /\ q * LineSize = LineSize * q
    BY <1>1, <1>2
<1> HIDE DEF q, r
<1>4. LineSize * q >= a
    <2> DEFINE m == LineSize * q
    <2>1. m \in Int /\ n = m + r
        BY <1>2, <1>3
    <2> HIDE DEF m
    <2>2. m >= a
        BY <1>1, <1>2, <2>1 DEF n
    <2> QED BY <2>2 DEF m
<1> QED BY <1>3, <1>4 DEF roundUp, q, n

\* The first chunk of a DMA.
LEMMA ChunksGood ==
    ASSUME NEW m \in Dmas
    PROVE  GoodGen(chunks(m.addr, m.size))
<1> DEFINE line == roundUp(m.addr)
           top == IF line = m.addr THEN line + LineSize ELSE line
<1>1. m.addr \in Nat /\ m.size \in Nat \ {0} /\ LineSize \in Nat \ {0}
    BY BusAssumption, LineAssumption
<1>2. line \in Int /\ line >= m.addr
    BY <1>1, RoundUp
<1> HIDE DEF line
<1>3. top \in Int /\ top > m.addr
    BY <1>1, <1>2
<1> HIDE DEF top
<1> DEFINE g == chunks(m.addr, m.size)
           next == least(top, m.addr + m.size)
<1>4. next \in Int /\ next > m.addr /\ next <= m.addr + m.size
    BY <1>1, <1>3 DEF least
<1>5. g = [curAddr |-> m.addr, nextAddr |-> next, curSize |-> next - m.addr,
           sizeLeft |-> m.size - (next - m.addr),
           nextSize |-> least(m.size - (next - m.addr), LineSize), isHead |-> TRUE]
    BY DEF chunks, top, line, next
<1> HIDE DEF next, g
<1>6. g \in Generators
    BY <1>1, <1>4, <1>5 DEF Generators, least
<1>7. g.curAddr..(g.curAddr + g.curSize + g.sizeLeft - 1) = m.addr..(m.addr + m.size - 1)
    BY <1>1, <1>4, <1>5
<1>8. \A a \in g.curAddr..(g.curAddr + g.curSize + g.sizeLeft - 1) : a \div LineSize \in Lines
    BY BusAssumption, <1>7, Zenon
<1>9. /\ g.curSize >= 1 /\ g.sizeLeft >= 0
      /\ g.nextAddr = g.curAddr + g.curSize
      /\ g.nextSize = least(g.sizeLeft, LineSize)
    BY <1>1, <1>4, <1>5
<1>10. GoodGen(g)
    BY <1>6, <1>8, <1>9 DEF GoodGen
<1> QED BY <1>10 DEF g

\* The chunks that follow.
LEMMA NextGood ==
    ASSUME NEW g, GoodGen(g), ~last(g)
    PROVE  GoodGen(nextChunk(g))
<1> DEFINE h == nextChunk(g)
<1>1. LineSize \in Nat \ {0}
    BY LineAssumption
<1>2. g \in Generators /\ g.sizeLeft > 0 /\ g.nextSize \in 1..g.sizeLeft
    BY <1>1 DEF GoodGen, Generators, last, least
<1>3. h = [curAddr |-> g.nextAddr, nextAddr |-> g.nextAddr + g.nextSize,
           curSize |-> g.nextSize, sizeLeft |-> g.sizeLeft - g.nextSize,
           nextSize |-> least(g.sizeLeft - g.nextSize, LineSize), isHead |-> FALSE]
    BY DEF nextChunk
<1> HIDE DEF h
<1>4. h \in Generators
    BY <1>1, <1>2, <1>3 DEF Generators, least
<1>5. \A a \in h.curAddr..(h.curAddr + h.curSize + h.sizeLeft - 1) :
         a \in g.curAddr..(g.curAddr + g.curSize + g.sizeLeft - 1)
    BY <1>2, <1>3 DEF GoodGen, Generators
<1>6. \A a \in h.curAddr..(h.curAddr + h.curSize + h.sizeLeft - 1) : a \div LineSize \in Lines
    BY <1>5 DEF GoodGen
<1>7. /\ h.curSize >= 1 /\ h.sizeLeft >= 0
      /\ h.nextAddr = h.curAddr + h.curSize
      /\ h.nextSize = least(h.sizeLeft, LineSize)
    BY <1>2, <1>3 DEF Generators
<1>8. GoodGen(h)
    BY <1>4, <1>6, <1>7 DEF GoodGen
<1> QED BY <1>8 DEF h

----------------------------------------------------------------------------
(* The cache.  What holds of its state alone, between two steps.           *)

Packets ==
    {pkt \in [req : Nat, addr : Int, size : Int, head : BOOLEAN, port : Ports] :
        pkt.addr \div LineSize \in Lines}

Causes == {"NoMSHRs", "NoTargets", "NoWBBuffers"}

CacheType ==
    [mshr : [Lines -> [targets : Seq(Packets), filled : BOOLEAN]], allocated : Nat,
     writes : Nat, causes : SUBSET Causes, noTarget : Lines \cup {NoLine},
     mustSendRetry : BOOLEAN, sendRetryEvent : BOOLEAN, queue : Seq(Packets),
     waitingOnRetry : BOOLEAN]

\* The lines with an MSHR, and those of them that memory has not answered.
missed(c) == {b \in Lines : c.mshr[b].targets # <<>>}
unfilled(c) == {b \in Lines : c.mshr[b].targets # <<>> /\ ~c.mshr[b].filled}

\* The cache is blocked exactly for what is exhausted.
CausesOK(c) ==
    /\ "NoMSHRs" \in c.causes <=> mshrsFull(c)
    /\ "NoWBBuffers" \in c.causes <=> writesFull(c)
    /\ "NoTargets" \in c.causes <=> c.noTarget # NoLine
    /\ c.noTarget # NoLine => c.mshr[c.noTarget].targets # <<>>

\* A retry that is owed is scheduled, or waits for the cache to unblock.
RetryOK(c) ==
    /\ c.mustSendRetry => c.causes # {} \/ c.sendRetryEvent
    /\ c.sendRetryEvent => c.mustSendRetry /\ c.causes = {}

\* The MSHRs in use, and the writebacks that they may still add.
CountsOK(c) ==
    /\ c.allocated = Cardinality(missed(c)) /\ c.allocated <= NumMshrs
    /\ c.writes + Cardinality(unfilled(c)) <= NumWrites + NumMshrs

CacheOK(c) == c \in CacheType /\ CausesOK(c) /\ RetryOK(c) /\ CountsOK(c)

\* The sizes are positive, and the lines are finitely many.
LEMMA Sizes ==
    /\ NumMshrs \in Nat \ {0} /\ NumTargets \in Nat \ {0} /\ NumWrites \in Nat \ {0}
    /\ IsFiniteSet(Lines) /\ NoLine \notin Lines
BY CacheSizes

\* The sets of lines are finite; there are no more unanswered misses than misses.
LEMMA LinesFinite ==
    ASSUME NEW c
    PROVE  /\ IsFiniteSet(missed(c)) /\ IsFiniteSet(unfilled(c))
           /\ Cardinality(missed(c)) \in Nat /\ Cardinality(unfilled(c)) \in Nat
           /\ Cardinality(unfilled(c)) <= Cardinality(missed(c))
<1>1. missed(c) \in SUBSET Lines /\ unfilled(c) \in SUBSET missed(c)
    BY DEF missed, unfilled
<1>2. IsFiniteSet(missed(c)) /\ Cardinality(missed(c)) \in Nat
    BY <1>1, Sizes, FS_Subset, FS_CardinalityType
<1>3. IsFiniteSet(unfilled(c)) /\ Cardinality(unfilled(c)) <= Cardinality(missed(c))
    BY <1>1, <1>2, FS_Subset
<1> QED BY <1>2, <1>3, FS_CardinalityType

\* setBlocked() for a cause that has just come up.
LEMMA SetBlocked ==
    ASSUME NEW c \in CacheType, NEW cause \in Causes, RetryOK(c)
    PROVE  LET d == setBlocked(c, cause)
           IN /\ d \in CacheType /\ RetryOK(d)
              /\ d = [c EXCEPT !.causes = c.causes \cup {cause}, !.sendRetryEvent = FALSE]
<1>1. c.mustSendRetry = (c.mustSendRetry \/ c.sendRetryEvent)
    BY DEF RetryOK, CacheType
<1>2. setBlocked(c, cause) =
         [c EXCEPT !.causes = c.causes \cup {cause}, !.sendRetryEvent = FALSE]
    BY <1>1, Zenon DEF setBlocked, CacheType
<1>3. c.causes \cup {cause} \in SUBSET Causes
    BY DEF CacheType
<1>4. setBlocked(c, cause) \in CacheType
    BY <1>2, <1>3, Zenon DEF CacheType
<1>5. RetryOK(setBlocked(c, cause))
    BY <1>2 DEF RetryOK, CacheType
<1> QED BY <1>2, <1>4, <1>5

\* clearBlocked() for a cause that has just gone.
LEMMA ClearBlocked ==
    ASSUME NEW c \in CacheType, NEW cause \in c.causes, RetryOK(c)
    PROVE  LET d == clearBlocked(c, cause)
           IN /\ d \in CacheType /\ RetryOK(d)
              /\ \E e \in BOOLEAN :
                   d = [c EXCEPT !.causes = c.causes \ {cause}, !.sendRetryEvent = e]
<1>1. clearBlocked(c, cause) =
         [c EXCEPT !.causes = c.causes \ {cause},
                   !.sendRetryEvent = c.causes \subseteq {cause} /\ c.mustSendRetry]
    BY DEF clearBlocked
<1>2. (c.causes \subseteq {cause} /\ c.mustSendRetry) \in BOOLEAN
    BY Zenon DEF CacheType
<1>3. clearBlocked(c, cause) \in CacheType
    BY <1>1, <1>2, Zenon DEF CacheType
<1>4. RetryOK(clearBlocked(c, cause))
    BY <1>1 DEF RetryOK, CacheType
<1> QED BY <1>1, <1>2, <1>3, <1>4, Zenon

\* What the parts of the cache's state that the requests do not look at leave alone.
SameQueue(c, d) ==
    /\ d.mustSendRetry = c.mustSendRetry /\ d.waitingOnRetry = c.waitingOnRetry
    /\ d.queue = c.queue

\* Responses are queued.
LEMMA QueueOK ==
    ASSUME NEW c, CacheOK(c), NEW pkts \in Seq(Packets)
    PROVE  LET d == schedSendTiming(c, pkts)
           IN /\ CacheOK(d) /\ d.mustSendRetry = c.mustSendRetry
              /\ d.waitingOnRetry = c.waitingOnRetry /\ d.queue = c.queue \o pkts
<1> DEFINE d == schedSendTiming(c, pkts)
<1>1. c \in CacheType /\ c.queue \o pkts \in Seq(Packets)
    BY SeqConcat DEF CacheOK, CacheType
<1>2. d = [c EXCEPT !.queue = c.queue \o pkts]
    BY DEF schedSendTiming
<1> HIDE DEF d
<1>3. d \in CacheType
    BY <1>1, <1>2, Zenon DEF CacheType
<1>4. /\ d.mshr = c.mshr /\ d.allocated = c.allocated /\ d.writes = c.writes
      /\ d.causes = c.causes /\ d.noTarget = c.noTarget
      /\ d.mustSendRetry = c.mustSendRetry /\ d.sendRetryEvent = c.sendRetryEvent
      /\ d.waitingOnRetry = c.waitingOnRetry /\ d.queue = c.queue \o pkts
    BY <1>1, <1>2 DEF CacheType
<1>5. missed(d) = missed(c) /\ unfilled(d) = unfilled(c)
    BY <1>4 DEF missed, unfilled
<1>6. CausesOK(d) /\ RetryOK(d) /\ CountsOK(d)
    BY <1>4, <1>5 DEF CacheOK, CausesOK, RetryOK, CountsOK, mshrsFull, writesFull
<1> QED BY <1>3, <1>4, <1>6 DEF CacheOK, d

\* A cache that takes a request is blocked for nothing.
LEMMA TakesFree ==
    ASSUME NEW c, CacheOK(c), takes(c)
    PROVE  /\ c.causes = {} /\ ~c.mustSendRetry /\ ~c.sendRetryEvent
           /\ c.allocated < NumMshrs /\ c.writes < NumWrites /\ c.noTarget = NoLine
<1>1. c.causes = {} /\ ~c.mustSendRetry /\ ~c.sendRetryEvent
    BY DEF CacheOK, RetryOK, takes
<1> QED BY <1>1, Sizes DEF CacheOK, CacheType, CausesOK, mshrsFull, writesFull

\* A miss on a line that has no MSHR.
LEMMA MissBuffer ==
    ASSUME NEW c, CacheOK(c), takes(c), NEW b \in Lines, NEW pkt \in Packets,
           c.mshr[b].targets = <<>>
    PROVE  LET d == allocateMissBuffer(c, b, pkt) IN CacheOK(d) /\ SameQueue(c, d)
<1> DEFINE n == [c EXCEPT !.mshr[b].targets = <<pkt>>, !.allocated = c.allocated + 1]
           d == allocateMissBuffer(c, b, pkt)
<1>1. /\ c.causes = {} /\ ~c.mustSendRetry /\ ~c.sendRetryEvent
      /\ c.allocated < NumMshrs /\ c.writes < NumWrites /\ c.noTarget = NoLine
    BY TakesFree
<1>2. c \in CacheType /\ <<pkt>> \in Seq(Packets) /\ <<pkt>> # <<>>
    BY DEF CacheOK
<1>3. n \in CacheType
    <2> DEFINE table == [c.mshr EXCEPT ![b].targets = <<pkt>>]
               more == c.allocated + 1
    <2>1. table \in [Lines -> [targets : Seq(Packets), filled : BOOLEAN]]
        BY <1>2, Zenon DEF CacheType
    <2>2. more \in Nat
        BY <1>2 DEF CacheType
    <2>3. n = [c EXCEPT !.mshr = table, !.allocated = more]
        BY <1>2 DEF CacheType
    <2> HIDE DEF table, more, n
    <2> QED BY <1>2, <2>1, <2>2, <2>3, Zenon DEF CacheType
<1>4. /\ n.mshr = [c.mshr EXCEPT ![b].targets = <<pkt>>] /\ n.allocated = c.allocated + 1
      /\ n.writes = c.writes /\ n.causes = {} /\ n.noTarget = NoLine /\ ~n.sendRetryEvent
      /\ SameQueue(c, n)
    BY <1>1, <1>2 DEF CacheType, SameQueue
<1> HIDE DEF n
<1>5. missed(n) = missed(c) \cup {b} /\ b \notin missed(c)
    BY <1>2, <1>4 DEF missed, CacheType
<1>6. n.allocated = Cardinality(missed(n)) /\ n.allocated <= NumMshrs
    <2>1. Cardinality(missed(n)) = Cardinality(missed(c)) + 1
        BY <1>5, LinesFinite, FS_AddElement, Zenon
    <2> QED BY <1>1, <1>2, <1>4, <2>1, Sizes DEF CacheOK, CountsOK, CacheType
<1>7. CountsOK(n)
    <2>1. Cardinality(unfilled(n)) \in Nat /\ Cardinality(unfilled(n)) <= n.allocated
        BY <1>6, LinesFinite
    <2> QED BY <1>1, <1>2, <1>4, <1>6, <2>1, Sizes DEF CountsOK, CacheType
<1>8. RetryOK(n)
    BY <1>1, <1>4 DEF RetryOK, SameQueue
<1>9. ~writesFull(n)
    BY <1>1, <1>2, <1>4, Sizes DEF writesFull, CacheType
<1>10. CASE ~mshrsFull(n)
    <2>1. d = n
        BY <1>10 DEF allocateMissBuffer, n
    <2>2. CausesOK(n)
        BY <1>4, <1>9, <1>10 DEF CausesOK
    <2> QED BY <1>3, <1>4, <1>7, <1>8, <2>1, <2>2 DEF CacheOK
<1>11. CASE mshrsFull(n)
    <2>1. d = setBlocked(n, "NoMSHRs")
        BY <1>11, Zenon DEF allocateMissBuffer, n
    <2>2. /\ d \in CacheType /\ RetryOK(d)
          /\ d = [n EXCEPT !.causes = n.causes \cup {"NoMSHRs"}, !.sendRetryEvent = FALSE]
        BY <1>3, <1>8, <2>1, SetBlocked, Zenon DEF Causes
    <2> HIDE DEF d
    <2>3. /\ d.mshr = n.mshr /\ d.allocated = n.allocated /\ d.writes = n.writes
          /\ d.causes = {"NoMSHRs"} /\ d.noTarget = NoLine /\ SameQueue(n, d)
        BY <1>3, <1>4, <2>2 DEF CacheType, SameQueue
    <2>4. CountsOK(d)
        BY <1>7, <2>3 DEF CountsOK, missed, unfilled
    <2>5. CausesOK(d)
        BY <1>9, <1>11, <2>3 DEF CausesOK, mshrsFull, writesFull
    <2>6. CacheOK(d) /\ SameQueue(c, d)
        BY <1>4, <2>2, <2>3, <2>4, <2>5 DEF CacheOK, SameQueue
    <2> QED BY <2>6 DEF d
<1> QED BY <1>10, <1>11

\* A miss on a line that has one.
LEMMA TargetAdded ==
    ASSUME NEW c, CacheOK(c), takes(c), NEW b \in Lines, NEW pkt \in Packets,
           c.mshr[b].targets # <<>>
    PROVE  LET d == allocateTarget(c, b, pkt) IN CacheOK(d) /\ SameQueue(c, d)
<1> DEFINE list == Append(c.mshr[b].targets, pkt)
           table == [c.mshr EXCEPT ![b].targets = list]
           n == [c EXCEPT !.mshr = table]
           d == allocateTarget(c, b, pkt)
<1>1. /\ c.causes = {} /\ ~c.mustSendRetry /\ ~c.sendRetryEvent
      /\ c.allocated < NumMshrs /\ c.writes < NumWrites /\ c.noTarget = NoLine
    BY TakesFree
<1>2. c \in CacheType /\ c.mshr[b].targets \in Seq(Packets)
    BY DEF CacheOK, CacheType
<1>3. list \in Seq(Packets) /\ list # <<>>
    BY <1>2, SeqAppend
<1> HIDE DEF list
<1>4. table \in [Lines -> [targets : Seq(Packets), filled : BOOLEAN]]
    BY <1>2, <1>3, Zenon DEF CacheType
<1>5. /\ table[b].targets = list
      /\ \A a \in Lines : table[a].filled = c.mshr[a].filled
      /\ \A a \in Lines : a # b => table[a] = c.mshr[a]
    BY <1>2 DEF CacheType
<1>6. d = IF Len(table[b].targets) = NumTargets
          THEN setBlocked([n EXCEPT !.noTarget = b], "NoTargets") ELSE n
    BY <1>2 DEF allocateTarget, CacheType, list
<1> HIDE DEF table, d
<1>7. n \in CacheType
    BY <1>2, <1>4, Zenon DEF CacheType
<1>8. /\ n.mshr = table /\ n.allocated = c.allocated /\ n.writes = c.writes
      /\ n.causes = {} /\ n.noTarget = NoLine /\ ~n.sendRetryEvent /\ SameQueue(c, n)
    BY <1>1, <1>2 DEF CacheType, SameQueue
<1> HIDE DEF n
<1>9. missed(n) = missed(c) /\ unfilled(n) = unfilled(c)
    BY <1>3, <1>5, <1>8 DEF missed, unfilled
<1>10. CountsOK(n) /\ RetryOK(n) /\ ~mshrsFull(n) /\ ~writesFull(n)
    BY <1>1, <1>2, <1>8, <1>9, Sizes
       DEF CacheOK, CacheType, CountsOK, RetryOK, SameQueue, mshrsFull, writesFull
<1>11. CASE Len(table[b].targets) # NumTargets
    <2>1. CausesOK(n)
        BY <1>8, <1>10 DEF CausesOK
    <2> QED BY <1>6, <1>7, <1>8, <1>10, <1>11, <2>1 DEF CacheOK, d
<1>12. CASE Len(table[b].targets) = NumTargets
    <2> DEFINE m == [n EXCEPT !.noTarget = b]
    <2>1. m \in CacheType /\ d = setBlocked(m, "NoTargets")
        BY <1>6, <1>7, <1>12, Zenon DEF CacheType
    <2>2. /\ m.mshr = n.mshr /\ m.allocated = n.allocated /\ m.writes = n.writes
          /\ m.causes = n.causes /\ m.sendRetryEvent = n.sendRetryEvent
          /\ m.noTarget = b /\ SameQueue(n, m)
        BY <1>7 DEF CacheType, SameQueue
    <2> HIDE DEF m
    <2>3. RetryOK(m)
        BY <1>10, <2>2 DEF RetryOK, SameQueue
    <2>4. /\ d \in CacheType /\ RetryOK(d)
          /\ d = [m EXCEPT !.causes = m.causes \cup {"NoTargets"}, !.sendRetryEvent = FALSE]
        BY <2>1, <2>3, SetBlocked, Zenon DEF Causes
    <2>5. /\ d.mshr = table /\ d.allocated = n.allocated /\ d.writes = n.writes
          /\ d.causes = {"NoTargets"} /\ d.noTarget = b /\ SameQueue(n, d)
        BY <1>8, <2>1, <2>2, <2>4, Zenon DEF CacheType, SameQueue
    <2>6. CountsOK(d)
        BY <1>8, <1>10, <2>5 DEF CountsOK, missed, unfilled
    <2>7. CausesOK(d)
        BY <1>3, <1>5, <1>10, <2>5, Sizes DEF CausesOK, mshrsFull, writesFull
    <2> QED BY <1>8, <2>4, <2>5, <2>6, <2>7 DEF CacheOK, SameQueue, d
<1> QED BY <1>11, <1>12

\* CpuSidePort::recvTimingReq().
LEMMA RecvReq ==
    ASSUME NEW c, CacheOK(c), NEW b \in Lines, NEW pkt \in Packets, NEW hit \in BOOLEAN,
           hit => c.mshr[b].targets = <<>>, takes(c) \/ ~c.mustSendRetry
    PROVE  LET d == recvTimingReq(c, b, pkt, hit)
           IN /\ CacheOK(d) /\ d.waitingOnRetry = c.waitingOnRetry
              /\ d.mustSendRetry = ~takes(c)
              /\ \E pkts \in Seq(Packets) : d.queue = c.queue \o pkts
<1> DEFINE d == recvTimingReq(c, b, pkt, hit)
<1>1. c \in CacheType /\ c.queue \in Seq(Packets) /\ <<>> \in Seq(Packets)
      /\ <<pkt>> \in Seq(Packets) /\ c.queue \o <<>> = c.queue
    BY SeqConcatNone DEF CacheOK, CacheType
<1>2. CASE ~takes(c)
    <2>1. d = [c EXCEPT !.mustSendRetry = TRUE]
        BY <1>2 DEF recvTimingReq
    <2> HIDE DEF d
    <2>2. c.causes # {}
        BY <1>2 DEF takes
    <2>3. d \in CacheType
        BY <1>1, <2>1, Zenon DEF CacheType
    <2>4. /\ d.mshr = c.mshr /\ d.allocated = c.allocated /\ d.writes = c.writes
          /\ d.causes = c.causes /\ d.noTarget = c.noTarget /\ d.mustSendRetry
          /\ d.sendRetryEvent = c.sendRetryEvent /\ d.waitingOnRetry = c.waitingOnRetry
          /\ d.queue = c.queue
        BY <1>1, <2>1 DEF CacheType
    <2>5. missed(d) = missed(c) /\ unfilled(d) = unfilled(c)
        BY <2>4 DEF missed, unfilled
    <2>6. CausesOK(d) /\ RetryOK(d) /\ CountsOK(d)
        BY <2>2, <2>4, <2>5 DEF CacheOK, CausesOK, RetryOK, CountsOK, mshrsFull, writesFull
    <2>7. CacheOK(d) /\ d.mustSendRetry = ~takes(c)
        BY <1>2, <2>3, <2>4, <2>6, Zenon DEF CacheOK, CacheType
    <2> QED BY <1>1, <2>4, <2>7, Zenon DEF d
<1>3. CASE takes(c) /\ hit
    <2>1. d = schedSendTiming(c, <<pkt>>)
        BY <1>3 DEF recvTimingReq
    <2> HIDE DEF d
    <2>2. /\ CacheOK(d) /\ d.mustSendRetry = c.mustSendRetry
          /\ d.waitingOnRetry = c.waitingOnRetry /\ d.queue = c.queue \o <<pkt>>
        BY <1>1, <2>1, QueueOK, Zenon
    <2>3. d.mustSendRetry = FALSE
        BY <1>1, <1>3, <2>2, TakesFree DEF CacheType
    <2> QED BY <1>1, <1>3, <2>2, <2>3, Zenon DEF d
<1>4. CASE takes(c) /\ ~hit /\ c.mshr[b].targets # <<>>
    <2>1. d = allocateTarget(c, b, pkt)
        BY <1>4 DEF recvTimingReq
    <2>2. CacheOK(d) /\ SameQueue(c, d)
        BY <1>4, <2>1, TargetAdded
    <2> HIDE DEF d
    <2>3. d.mustSendRetry = FALSE
        BY <1>4, <2>2, TakesFree DEF SameQueue, CacheOK, CacheType
    <2> QED BY <1>1, <1>4, <2>2, <2>3, Zenon DEF SameQueue, d
<1>5. CASE takes(c) /\ ~hit /\ c.mshr[b].targets = <<>>
    <2>1. d = allocateMissBuffer(c, b, pkt)
        BY <1>5 DEF recvTimingReq
    <2>2. CacheOK(d) /\ SameQueue(c, d)
        BY <1>5, <2>1, MissBuffer
    <2> HIDE DEF d
    <2>3. d.mustSendRetry = FALSE
        BY <1>5, <2>2, TakesFree, Zenon DEF SameQueue, CacheOK, CacheType
    <2> QED BY <1>1, <1>5, <2>2, <2>3, Zenon DEF SameQueue, d
<1> QED BY <1>2, <1>3, <1>4, <1>5, Zenon

----------------------------------------------------------------------------
(* What memory and the write buffer do to the cache.                       *)

\* Everything but what the cache is blocked for, and its retry.
SameEntries(c, d) ==
    /\ d.mshr = c.mshr /\ d.allocated = c.allocated /\ d.writes = c.writes
    /\ SameQueue(c, d)

\* A fill of the line whose targets were exhausted unblocks the cache.
LEMMA TargetsCleared ==
    ASSUME NEW c, CacheOK(c), NEW b \in Lines
    PROVE  LET d == clearTargets(c, b)
           IN CacheOK(d) /\ d.noTarget # b /\ SameEntries(c, d)
<1> DEFINE d == clearTargets(c, b)
           n == [c EXCEPT !.noTarget = NoLine]
<1>1. c \in CacheType /\ b # NoLine
    BY Sizes DEF CacheOK
<1>2. CASE c.noTarget # b
    BY <1>2 DEF clearTargets, SameEntries, SameQueue
<1>3. CASE c.noTarget = b
    <2>1. d = clearBlocked(n, "NoTargets")
        BY <1>3 DEF clearTargets
    <2>2. n \in CacheType
        BY <1>1, Zenon DEF CacheType
    <2>3. /\ n.causes = c.causes /\ n.noTarget = NoLine /\ n.sendRetryEvent = c.sendRetryEvent
          /\ SameEntries(c, n)
        BY <1>1 DEF CacheType, SameEntries, SameQueue
    <2> HIDE DEF n, d
    <2>4. "NoTargets" \in n.causes /\ RetryOK(n)
        BY <1>1, <1>3, <2>3 DEF CacheOK, CausesOK, RetryOK, SameEntries, SameQueue
    <2>5. /\ d \in CacheType /\ RetryOK(d)
          /\ \E e \in BOOLEAN :
                d = [n EXCEPT !.causes = n.causes \ {"NoTargets"}, !.sendRetryEvent = e]
        BY <2>1, <2>2, <2>4, ClearBlocked, Zenon
    <2>6. /\ d.causes = c.causes \ {"NoTargets"} /\ d.noTarget = NoLine /\ SameEntries(c, d)
        BY <2>2, <2>3, <2>5 DEF CacheType, SameEntries, SameQueue
    <2>7. CountsOK(d)
        BY <2>6 DEF CacheOK, CountsOK, missed, unfilled, SameEntries
    <2>8. CausesOK(d)
        BY <2>6 DEF CacheOK, CausesOK, mshrsFull, writesFull, SameEntries
    <2> QED BY <1>1, <2>5, <2>6, <2>7, <2>8 DEF CacheOK, d
<1> QED BY <1>2, <1>3

\* deallocate() of the MSHR whose last target was served: c is the cache before,
\* without the line that left the list of misses.
LEMMA Deallocated ==
    ASSUME NEW c \in CacheType, CausesOK(c), RetryOK(c), c.allocated \in 1..NumMshrs
    PROVE  LET d == deallocate(c)
           IN /\ d \in CacheType /\ CausesOK(d) /\ RetryOK(d)
              /\ d.mshr = c.mshr /\ d.allocated = c.allocated - 1 /\ d.writes = c.writes
              /\ SameQueue(c, d)
<1> DEFINE d == deallocate(c)
           less == c.allocated - 1
           n == [c EXCEPT !.allocated = less]
<1>1. less \in Nat /\ ~(less >= NumMshrs)
    BY Sizes
<1> HIDE DEF less
<1>2. n \in CacheType
    BY <1>1, Zenon DEF CacheType
<1>3. /\ n.mshr = c.mshr /\ n.allocated = less /\ n.writes = c.writes
      /\ n.causes = c.causes /\ n.noTarget = c.noTarget /\ n.sendRetryEvent = c.sendRetryEvent
      /\ SameQueue(c, n)
    BY DEF CacheType, SameQueue
<1>4. d = IF mshrsFull(c) /\ ~mshrsFull(n) THEN clearBlocked(n, "NoMSHRs") ELSE n
    BY DEF deallocate, less
<1> HIDE DEF n, d
<1>5. ~mshrsFull(n) /\ RetryOK(n)
    BY <1>1, <1>3 DEF mshrsFull, RetryOK, SameQueue
<1>6. CASE ~mshrsFull(c)
    <2>1. d = n
        BY <1>4, <1>6
    <2>2. CausesOK(n)
        BY <1>3, <1>5, <1>6 DEF CausesOK, writesFull
    <2> QED BY <1>2, <1>3, <1>5, <2>1, <2>2 DEF d, less
<1>7. CASE mshrsFull(c)
    <2>1. d = clearBlocked(n, "NoMSHRs") /\ "NoMSHRs" \in n.causes
        BY <1>3, <1>4, <1>5, <1>7, Zenon DEF CausesOK
    <2>2. /\ d \in CacheType /\ RetryOK(d)
          /\ \E e \in BOOLEAN :
                d = [n EXCEPT !.causes = n.causes \ {"NoMSHRs"}, !.sendRetryEvent = e]
        BY <1>2, <1>5, <2>1, ClearBlocked, Zenon
    <2>3. /\ d.causes = c.causes \ {"NoMSHRs"} /\ d.noTarget = c.noTarget
          /\ d.mshr = c.mshr /\ d.allocated = less /\ d.writes = c.writes
          /\ SameQueue(c, d)
        BY <1>2, <1>3, <2>2 DEF CacheType, SameQueue
    <2>4. CausesOK(d)
        BY <1>1, <2>3 DEF CausesOK, mshrsFull, writesFull
    <2> QED BY <2>2, <2>3, <2>4 DEF d, less
<1> QED BY <1>6, <1>7

\* A writeback is added when there is room for it beside those still to come.
LEMMA WriteAdded ==
    ASSUME NEW c, CacheOK(c), c.writes + 1 + Cardinality(unfilled(c)) <= NumWrites + NumMshrs
    PROVE  LET d == allocateWriteBuffer(c) IN CacheOK(d) /\ d.mshr = c.mshr /\ SameQueue(c, d)
<1> DEFINE d == allocateWriteBuffer(c)
           more == c.writes + 1
           n == [c EXCEPT !.writes = more]
<1>1. c \in CacheType /\ more \in Nat /\ more > c.writes
    BY DEF CacheOK, CacheType
<1>2. more + Cardinality(unfilled(c)) <= NumWrites + NumMshrs
    OBVIOUS
<1>3. d = IF writesFull(n) THEN setBlocked(n, "NoWBBuffers") ELSE n
    BY DEF allocateWriteBuffer
<1> HIDE DEF more
<1>4. n \in CacheType
    BY <1>1, Zenon DEF CacheType
<1>5. /\ n.mshr = c.mshr /\ n.allocated = c.allocated /\ n.writes = more
      /\ n.causes = c.causes /\ n.noTarget = c.noTarget /\ n.sendRetryEvent = c.sendRetryEvent
      /\ SameQueue(c, n)
    BY <1>1 DEF CacheType, SameQueue
<1> HIDE DEF n, d
<1>6. CountsOK(n) /\ RetryOK(n)
    BY <1>2, <1>5 DEF CacheOK, CountsOK, RetryOK, missed, unfilled, SameQueue
<1>7. writesFull(c) => writesFull(n)
    BY <1>1, <1>5, Sizes DEF writesFull, CacheType
<1>8. CASE ~writesFull(n)
    <2>1. CausesOK(n)
        BY <1>5, <1>7, <1>8 DEF CacheOK, CausesOK, mshrsFull
    <2> QED BY <1>3, <1>4, <1>5, <1>6, <1>8, <2>1 DEF CacheOK, d
<1>9. CASE writesFull(n)
    <2>1. /\ d \in CacheType /\ RetryOK(d)
          /\ d = [n EXCEPT !.causes = n.causes \cup {"NoWBBuffers"}, !.sendRetryEvent = FALSE]
        BY <1>3, <1>4, <1>6, <1>9, SetBlocked, Zenon DEF Causes
    <2>2. /\ d.causes = c.causes \cup {"NoWBBuffers"} /\ d.noTarget = c.noTarget
          /\ SameEntries(n, d)
        BY <1>4, <1>5, <2>1 DEF CacheType, SameEntries, SameQueue
    <2>3. CountsOK(d)
        BY <1>6, <2>2 DEF CountsOK, missed, unfilled, SameEntries
    <2>4. CausesOK(d)
        BY <1>5, <1>9, <2>2 DEF CacheOK, CausesOK, mshrsFull, writesFull, SameEntries
    <2> QED BY <1>5, <2>1, <2>2, <2>3, <2>4, Zenon DEF CacheOK, SameEntries, SameQueue, d
<1> QED BY <1>8, <1>9

\* A writeback leaves the write buffer.
LEMMA WriteSent ==
    ASSUME NEW c, CacheOK(c), c.writes > 0
    PROVE  LET d == writebackSent(c) IN CacheOK(d) /\ SameQueue(c, d)
<1> DEFINE d == writebackSent(c)
           less == c.writes - 1
           n == [c EXCEPT !.writes = less]
<1>1. c \in CacheType /\ less \in Nat /\ less < c.writes /\ c.writes \in Nat
    BY DEF CacheOK, CacheType
<1>2. d = IF writesFull(c) /\ ~writesFull(n) THEN clearBlocked(n, "NoWBBuffers") ELSE n
    BY DEF writebackSent
<1> HIDE DEF less
<1>3. n \in CacheType
    BY <1>1, Zenon DEF CacheType
<1>4. /\ n.mshr = c.mshr /\ n.allocated = c.allocated /\ n.writes = less
      /\ n.causes = c.causes /\ n.noTarget = c.noTarget /\ n.sendRetryEvent = c.sendRetryEvent
      /\ SameQueue(c, n)
    BY <1>1 DEF CacheType, SameQueue
<1> HIDE DEF n, d
<1>5. CountsOK(n) /\ RetryOK(n)
    <2>1. missed(n) = missed(c) /\ unfilled(n) = unfilled(c)
        BY <1>4 DEF missed, unfilled
    <2>2. Cardinality(unfilled(c)) \in Nat
        BY LinesFinite
    <2> QED BY <1>1, <1>4, <2>1, <2>2, Sizes DEF CacheOK, CountsOK, RetryOK, SameQueue
<1>6. writesFull(n) => writesFull(c)
    BY <1>1, <1>4, Sizes DEF writesFull
<1>7. CASE writesFull(n) \/ ~writesFull(c)
    <2>1. CausesOK(n)
        BY <1>4, <1>6, <1>7 DEF CacheOK, CausesOK, mshrsFull
    <2> QED BY <1>2, <1>3, <1>4, <1>5, <1>7, <2>1 DEF CacheOK, d
<1>8. CASE writesFull(c) /\ ~writesFull(n)
    <2>1. d = clearBlocked(n, "NoWBBuffers") /\ "NoWBBuffers" \in n.causes
        BY <1>2, <1>4, <1>8, Zenon DEF CacheOK, CausesOK
    <2>2. /\ d \in CacheType /\ RetryOK(d)
          /\ \E e \in BOOLEAN :
                d = [n EXCEPT !.causes = n.causes \ {"NoWBBuffers"}, !.sendRetryEvent = e]
        BY <1>3, <1>5, <2>1, ClearBlocked, Zenon
    <2>3. /\ d.causes = c.causes \ {"NoWBBuffers"} /\ d.noTarget = c.noTarget
          /\ SameEntries(n, d)
        BY <1>3, <1>4, <2>2 DEF CacheType, SameEntries, SameQueue
    <2>4. CountsOK(d)
        BY <1>5, <2>3 DEF CountsOK, missed, unfilled, SameEntries
    <2>5. CausesOK(d)
        BY <1>4, <1>8, <2>3, Zenon DEF CacheOK, CausesOK, mshrsFull, writesFull, SameEntries
    <2> QED BY <1>4, <2>2, <2>3, <2>4, <2>5 DEF CacheOK, SameEntries, SameQueue, d
<1> QED BY <1>7, <1>8

\* The first n targets of line b are served; the MSHR asks again or is freed.
LEMMA Served ==
    ASSUME NEW c, CacheOK(c), NEW b \in Lines, c.noTarget # b,
           NEW n \in 1..Len(c.mshr[b].targets), c.mshr[b].targets # <<>>
    PROVE  LET s == serviceMSHRTargets(c, b, n)
               d == IF s.mshr[b].targets = <<>> THEN deallocate(s) ELSE s
           IN /\ CacheOK(d) /\ d.writes = c.writes /\ d.mustSendRetry = c.mustSendRetry
              /\ d.waitingOnRetry = c.waitingOnRetry
              /\ \E pkts \in Seq(Packets) : d.queue = c.queue \o pkts
              /\ ~c.mshr[b].filled =>
                    d.writes + 1 + Cardinality(unfilled(d)) <= NumWrites + NumMshrs
<1> DEFINE list == c.mshr[b].targets
           pkts == SubSeq(list, 1, n)
           rest == SubSeq(list, n + 1, Len(list))
           entry == [targets |-> rest, filled |-> rest # <<>>]
           q == schedSendTiming(c, pkts)
           table == [c.mshr EXCEPT ![b] = entry]
           s == serviceMSHRTargets(c, b, n)
           d == IF s.mshr[b].targets = <<>> THEN deallocate(s) ELSE s
<1>1. c \in CacheType /\ list \in Seq(Packets) /\ b # NoLine
    BY Sizes DEF CacheOK, CacheType
<1>2. pkts \in Seq(Packets) /\ rest \in Seq(Packets)
    <2>1. Len(list) \in Nat /\ n \in 1..Len(list)
        BY <1>1, SeqElements
    <2>2. \A i \in 1..n : list[i] \in Packets
        BY <1>1, <2>1, SeqElements
    <2>3. \A i \in (n + 1)..Len(list) : list[i] \in Packets
        BY <1>1, <2>1, SeqElements
    <2> HIDE DEF list
    <2>4. pkts \in Seq(Packets)
        BY <1>1, <2>1, <2>2, SeqPart
    <2>5. rest \in Seq(Packets)
        BY <1>1, <2>1, <2>3, SeqPart
    <2> QED BY <2>4, <2>5
<1>3. s = [q EXCEPT !.mshr[b] = entry]
    BY DEF serviceMSHRTargets
<1> HIDE DEF pkts, rest, list
<1>4. /\ CacheOK(q) /\ q.mustSendRetry = c.mustSendRetry
      /\ q.waitingOnRetry = c.waitingOnRetry /\ q.queue = c.queue \o pkts
    BY <1>2, QueueOK
<1>5. /\ q.mshr = c.mshr /\ q.allocated = c.allocated /\ q.writes = c.writes
      /\ q.causes = c.causes /\ q.noTarget = c.noTarget /\ q.sendRetryEvent = c.sendRetryEvent
    BY <1>1 DEF schedSendTiming, CacheType
<1>6. entry \in [targets : Seq(Packets), filled : BOOLEAN]
    BY <1>2
<1>7. table \in [Lines -> [targets : Seq(Packets), filled : BOOLEAN]]
    BY <1>1, <1>6 DEF CacheType
<1>8. table[b] = entry /\ \A a \in Lines : a # b => table[a] = c.mshr[a]
    BY <1>1 DEF CacheType
<1>9. q \in CacheType
    BY <1>4 DEF CacheOK
<1> HIDE DEF q
<1>10. s = [q EXCEPT !.mshr = table]
    BY <1>3, <1>5
<1> HIDE DEF table, s
<1>11. s \in CacheType
    BY <1>7, <1>9, <1>10, Zenon DEF CacheType
<1>12. /\ s.mshr = table /\ s.allocated = c.allocated /\ s.writes = c.writes
       /\ s.causes = c.causes /\ s.noTarget = c.noTarget /\ s.sendRetryEvent = c.sendRetryEvent
       /\ s.mustSendRetry = c.mustSendRetry /\ s.waitingOnRetry = c.waitingOnRetry
       /\ s.queue = c.queue \o pkts
    BY <1>4, <1>5, <1>9, <1>10 DEF CacheType
<1>13. RetryOK(s) /\ CausesOK(s)
    <2>1. RetryOK(s)
        BY <1>12 DEF CacheOK, RetryOK
    <2>2. c.noTarget # NoLine => table[c.noTarget] = c.mshr[c.noTarget]
        BY <1>1, <1>8 DEF CacheType
    <2>3. CausesOK(s)
        BY <1>12, <2>2 DEF CacheOK, CausesOK, mshrsFull, writesFull
    <2> QED BY <2>1, <2>3
<1>14. b \in missed(c) /\ unfilled(s) = unfilled(c) \ {b}
    <2>1. b \in missed(c)
        BY DEF missed
    <2>2. s.mshr[b].targets # <<>> => s.mshr[b].filled
        <3>1. s.mshr[b].targets = rest /\ s.mshr[b].filled = (rest # <<>>)
            BY <1>8, <1>12
        <3> QED BY <3>1, Zenon
    <2>3. \A a \in Lines : a # b => s.mshr[a] = c.mshr[a]
        BY <1>8, <1>12
    <2>4. unfilled(s) = unfilled(c) \ {b}
        BY <2>2, <2>3 DEF unfilled
    <2> QED BY <2>1, <2>4
<1>15. /\ Cardinality(unfilled(s)) \in Nat /\ Cardinality(unfilled(c)) \in Nat
       /\ Cardinality(unfilled(s)) <= Cardinality(unfilled(c))
       /\ ~c.mshr[b].filled => Cardinality(unfilled(s)) + 1 = Cardinality(unfilled(c))
    <2>1. b \in unfilled(c) <=> ~c.mshr[b].filled
        BY DEF unfilled
    <2>2. Cardinality(unfilled(s)) = IF b \in unfilled(c) THEN Cardinality(unfilled(c)) - 1
                                     ELSE Cardinality(unfilled(c))
        BY <1>14, LinesFinite, FS_RemoveElement, Zenon
    <2>3. Cardinality(unfilled(s)) \in Nat /\ Cardinality(unfilled(c)) \in Nat
        BY LinesFinite
    <2> QED BY <2>1, <2>2, <2>3
<1>16. /\ s.writes + Cardinality(unfilled(s)) <= NumWrites + NumMshrs
       /\ ~c.mshr[b].filled => s.writes + 1 + Cardinality(unfilled(s)) <= NumWrites + NumMshrs
    <2>1. c.writes + Cardinality(unfilled(c)) <= NumWrites + NumMshrs /\ c.writes \in Nat
        BY <1>1 DEF CacheOK, CountsOK, CacheType
    <2> QED BY <1>12, <1>15, <2>1, Sizes
<1>17. s.mshr[b].targets = rest
    BY <1>8, <1>12
<1>18. CASE rest # <<>>
    <2>1. d = s
        BY <1>17, <1>18
    <2>2. missed(s) = missed(c)
        BY <1>8, <1>12, <1>14, <1>18 DEF missed
    <2>3. CountsOK(s)
        BY <1>12, <1>16, <2>2, Zenon DEF CacheOK, CountsOK
    <2> QED BY <1>2, <1>11, <1>12, <1>13, <1>16, <2>1, <2>3, Zenon DEF CacheOK, d, s
<1>19. CASE rest = <<>>
    <2>1. d = deallocate(s)
        BY <1>17, <1>19
    <2>2. missed(s) = missed(c) \ {b}
        BY <1>8, <1>12, <1>19 DEF missed
    <2>3. Cardinality(missed(s)) = Cardinality(missed(c)) - 1 /\ Cardinality(missed(s)) \in Nat
        BY <1>14, <2>2, LinesFinite, FS_RemoveElement, Zenon
    <2>4. s.allocated \in 1..NumMshrs /\ s.allocated - 1 = Cardinality(missed(s))
        BY <1>1, <1>12, <2>3, Sizes DEF CacheOK, CountsOK, CacheType
    <2>5. /\ d \in CacheType /\ CausesOK(d) /\ RetryOK(d)
          /\ d.mshr = s.mshr /\ d.allocated = s.allocated - 1 /\ d.writes = s.writes
          /\ SameQueue(s, d)
        BY <1>11, <1>13, <2>1, <2>4, Deallocated
    <2> HIDE DEF d
    <2>6. missed(d) = missed(s) /\ unfilled(d) = unfilled(s)
        BY <2>5 DEF missed, unfilled
    <2>7. CountsOK(d)
        BY <1>16, <2>4, <2>5, <2>6, Sizes DEF CountsOK
    <2>8. CacheOK(d)
        BY <2>5, <2>7 DEF CacheOK
    <2> QED BY <1>2, <1>12, <1>16, <2>5, <2>6, <2>8, Zenon DEF SameQueue, d, s
<1> QED BY <1>18, <1>19, Zenon

\* recvTimingResp(): memory answers.
LEMMA RecvResp ==
    ASSUME NEW c, CacheOK(c), NEW b \in Lines, c.mshr[b].targets # <<>>,
           NEW n \in 1..Len(c.mshr[b].targets), NEW evicts \in BOOLEAN,
           evicts => ~c.mshr[b].filled
    PROVE  LET d == recvTimingResp(c, b, n, evicts)
           IN /\ CacheOK(d) /\ d.mustSendRetry = c.mustSendRetry
              /\ d.waitingOnRetry = c.waitingOnRetry
              /\ \E pkts \in Seq(Packets) : d.queue = c.queue \o pkts
<1> DEFINE t == clearTargets(c, b)
           s == serviceMSHRTargets(t, b, n)
           f == IF s.mshr[b].targets = <<>> THEN deallocate(s) ELSE s
           d == recvTimingResp(c, b, n, evicts)
<1>1. CacheOK(t) /\ t.noTarget # b /\ SameEntries(c, t)
    BY TargetsCleared
<1>2. d = IF evicts THEN allocateWriteBuffer(f) ELSE f
    BY DEF recvTimingResp
<1> HIDE DEF t
<1>3. t.mshr = c.mshr /\ n \in 1..Len(t.mshr[b].targets) /\ t.mshr[b].targets # <<>>
    BY <1>1 DEF SameEntries
<1>4. /\ CacheOK(f) /\ f.mustSendRetry = t.mustSendRetry
      /\ f.waitingOnRetry = t.waitingOnRetry
      /\ \E pkts \in Seq(Packets) : f.queue = t.queue \o pkts
      /\ ~t.mshr[b].filled => f.writes + 1 + Cardinality(unfilled(f)) <= NumWrites + NumMshrs
    BY <1>1, <1>3, Served, Zenon
<1> HIDE DEF s, f, d
<1>5. evicts => CacheOK(allocateWriteBuffer(f)) /\ SameQueue(f, allocateWriteBuffer(f))
    BY <1>3, <1>4, WriteAdded
<1>6. CacheOK(d) /\ SameQueue(f, d)
    BY <1>2, <1>4, <1>5 DEF SameQueue
<1> QED BY <1>1, <1>4, <1>6, Zenon DEF SameEntries, SameQueue, d

\* processSendRetry().
LEMMA RetrySent ==
    ASSUME NEW c, CacheOK(c), c.sendRetryEvent
    PROVE  LET d == processSendRetry(c)
           IN /\ CacheOK(d) /\ ~d.mustSendRetry
              /\ d.waitingOnRetry = c.waitingOnRetry /\ d.queue = c.queue
<1> DEFINE d == processSendRetry(c)
<1>1. c \in CacheType /\ c.causes = {}
    BY DEF CacheOK, RetryOK
<1>2. d = [c EXCEPT !.mustSendRetry = FALSE, !.sendRetryEvent = FALSE]
    BY DEF processSendRetry
<1> HIDE DEF d
<1>3. d \in CacheType
    BY <1>1, <1>2, Zenon DEF CacheType
<1>4. /\ d.mshr = c.mshr /\ d.allocated = c.allocated /\ d.writes = c.writes
      /\ d.causes = c.causes /\ d.noTarget = c.noTarget
      /\ ~d.mustSendRetry /\ ~d.sendRetryEvent
      /\ d.waitingOnRetry = c.waitingOnRetry /\ d.queue = c.queue
    BY <1>1, <1>2 DEF CacheType
<1>5. missed(d) = missed(c) /\ unfilled(d) = unfilled(c)
    BY <1>4 DEF missed, unfilled
<1>6. CausesOK(d) /\ RetryOK(d) /\ CountsOK(d)
    BY <1>4, <1>5 DEF CacheOK, CausesOK, RetryOK, CountsOK, mshrsFull, writesFull
<1> QED BY <1>3, <1>4, <1>6 DEF CacheOK, d

----------------------------------------------------------------------------
(* The DMA ports.                                                          *)

\* What is in transmitList.
States == [req : Nat, gen : {g \in Generators : GoodGen(g)}]

\* A port, as a record; the DmaReqStates are left open.
PortType(d) ==
    /\ d = [transmitList |-> d.transmitList, inRetry |-> d.inRetry, sendEvent |-> d.sendEvent,
            pendingCount |-> d.pendingCount, reqs |-> d.reqs]
    /\ d.transmitList \in Seq(States) /\ d.sendEvent \in BOOLEAN
    /\ d.inRetry = <<>> \/ \E pkt \in Packets : d.inRetry = <<pkt>>

\* A port with something to send has an event or a packet to retry, and not both.
PortOK(d) ==
    /\ PortType(d)
    /\ d.transmitList # <<>> <=> d.sendEvent \/ d.inRetry # <<>>
    /\ ~(d.sendEvent /\ d.inRetry # <<>>)

\* The packet that a port offers is of a line that is used.
LEMMA PacketGood ==
    ASSUME NEW p \in Ports, NEW d, PortType(d), d.transmitList # <<>>
    PROVE  packetToSend(p, d) \in Packets
<1>1. CASE d.inRetry # <<>>
    <2>1. PICK pkt \in Packets : d.inRetry = <<pkt>>
        BY <1>1 DEF PortType
    <2> QED BY <1>1, <2>1 DEF packetToSend
<1>2. CASE d.inRetry = <<>>
    <2> DEFINE state == Head(d.transmitList)
    <2>1. state \in States
        BY SeqHeadTail DEF PortType
    <2>2. packetToSend(p, d) = createPacket(p, state)
        BY <1>2 DEF packetToSend
    <2> HIDE DEF state
    <2>3. GoodGen(state.gen) /\ state.gen \in Generators /\ state.req \in Nat
        BY <2>1 DEF States
    <2>4. state.gen.curAddr \in state.gen.curAddr..
             (state.gen.curAddr + state.gen.curSize + state.gen.sizeLeft - 1)
        BY <2>3 DEF GoodGen, Generators
    <2>5. state.gen.curAddr \div LineSize \in Lines
        BY <2>3, <2>4 DEF GoodGen
    <2>6. createPacket(p, state) \in
             [req : Nat, addr : Int, size : Int, head : BOOLEAN, port : Ports]
        BY <2>3 DEF createPacket, Generators
    <2>7. createPacket(p, state).addr = state.gen.curAddr
        BY DEF createPacket
    <2> QED BY <2>2, <2>5, <2>6, <2>7 DEF Packets
<1> QED BY <1>1, <1>2

\* The port, when its packet was taken.
LEMMA SentOK ==
    ASSUME NEW d, PortType(d), d.transmitList # <<>>
    PROVE  PortOK(sent(d)) /\ sent(d).inRetry = <<>>
<1> DEFINE state == Head(d.transmitList)
           next == [state EXCEPT !.gen = nextChunk(state.gen)]
           more == IF last(state.gen) THEN <<>> ELSE <<next>>
           list == more \o Tail(d.transmitList)
           e == sent(d)
<1>1. state \in States /\ Tail(d.transmitList) \in Seq(States)
    BY SeqHeadTail DEF PortType
<1>2. e = [d EXCEPT !.inRetry = <<>>, !.transmitList = list, !.sendEvent = list # <<>>]
    BY DEF sent
<1> HIDE DEF state, e
<1>3. ~last(state.gen) => next \in States
    <2>1. GoodGen(state.gen)
        BY <1>1 DEF States
    <2>2. ~last(state.gen) => GoodGen(nextChunk(state.gen)) /\ nextChunk(state.gen) \in Generators
        BY <2>1, NextGood DEF GoodGen
    <2> DEFINE g == nextChunk(state.gen)
    <2> HIDE DEF g
    <2>3. ~last(state.gen) => [state EXCEPT !.gen = g] \in States
        BY <1>1, <2>2 DEF States, g
    <2> QED BY <2>3 DEF g
<1> HIDE DEF next
<1>4. more \in Seq(States)
    BY <1>3
<1> HIDE DEF more
<1>5. list \in Seq(States)
    BY <1>1, <1>4, SeqConcat
<1> HIDE DEF list
<1>6. e = [transmitList |-> list, inRetry |-> <<>>, sendEvent |-> (list # <<>>),
           pendingCount |-> d.pendingCount, reqs |-> d.reqs]
    BY <1>2, Zenon DEF PortType
<1>7. /\ e.transmitList = list /\ e.inRetry = <<>> /\ e.sendEvent = (list # <<>>)
      /\ e.pendingCount = d.pendingCount /\ e.reqs = d.reqs
    BY <1>6
<1>8. PortType(e)
    BY <1>5, <1>6, <1>7 DEF PortType
<1>9. PortOK(e)
    BY <1>7, <1>8, Zenon DEF PortOK
<1> QED BY <1>7, <1>9 DEF e

\* The port, when its packet was refused.
LEMMA FailedOK ==
    ASSUME NEW p \in Ports, NEW d, PortType(d), d.transmitList # <<>>, ~d.sendEvent
    PROVE  PortOK(failed(p, d)) /\ failed(p, d).inRetry # <<>>
<1> DEFINE pkt == packetToSend(p, d)
           e == failed(p, d)
<1>1. pkt \in Packets
    BY PacketGood
<1>2. e = [d EXCEPT !.inRetry = <<pkt>>]
    BY DEF failed
<1> HIDE DEF pkt, e
<1>3. e = [transmitList |-> d.transmitList, inRetry |-> <<pkt>>, sendEvent |-> d.sendEvent,
           pendingCount |-> d.pendingCount, reqs |-> d.reqs]
    BY <1>2 DEF PortType
<1>4. PortType(e) /\ e.transmitList # <<>> /\ e.inRetry # <<>> /\ ~e.sendEvent
    BY <1>1, <1>3 DEF PortType
<1> QED BY <1>4 DEF PortOK, e

\* A DMA is put in the list.
LEMMA QueuedOK ==
    ASSUME NEW d, PortOK(d), NEW m \in Dmas, NEW id \in Nat
    PROVE  LET e == queueDma(d, id, m.addr, m.size)
           IN /\ PortType(e) /\ e.transmitList # <<>>
              /\ e.inRetry = d.inRetry /\ e.sendEvent = d.sendEvent
<1> DEFINE state == [req |-> id, gen |-> chunks(m.addr, m.size)]
           list == Append(d.transmitList, state)
           e == queueDma(d, id, m.addr, m.size)
<1>1. state \in States
    <2> DEFINE g == chunks(m.addr, m.size)
    <2>1. GoodGen(g) /\ g \in Generators
        BY ChunksGood DEF GoodGen
    <2> HIDE DEF g
    <2>2. [req |-> id, gen |-> g] \in States
        BY <2>1, Zenon DEF States
    <2> QED BY <2>2 DEF g
<1>2. \E n, r : e = [d EXCEPT !.transmitList = list, !.pendingCount = n, !.reqs = r]
    BY Zenon DEF queueDma
<1> HIDE DEF state, e
<1>3. list \in Seq(States) /\ list # <<>>
    BY <1>1, SeqAppend DEF PortOK, PortType
<1> HIDE DEF list
<1>4. \E n, r : e = [transmitList |-> list, inRetry |-> d.inRetry, sendEvent |-> d.sendEvent,
                     pendingCount |-> n, reqs |-> r]
    BY <1>2, Zenon DEF PortOK, PortType
<1>5. PortType(e) /\ e.transmitList # <<>> /\ e.inRetry = d.inRetry /\ e.sendEvent = d.sendEvent
    BY <1>3, <1>4 DEF PortOK, PortType
<1> QED BY <1>5 DEF e

\* A response changes nothing of what there is to send.
LEMMA RespHandled ==
    ASSUME NEW d, PortOK(d), NEW pkt
    PROVE  PortOK(handleResp(d, pkt)) /\ handleResp(d, pkt).inRetry = d.inRetry
<1> DEFINE e == handleResp(d, pkt)
           r == d.reqs[pkt.req]
           numBytes == r.numBytes + pkt.size
           fewer == [i \in DOMAIN d.reqs \ {pkt.req} |-> d.reqs[i]]
           same == [d.reqs EXCEPT ![pkt.req].numBytes = numBytes,
                                  ![pkt.req].moved = r.moved \cup bytesOf(pkt)]
<1>1. d = [transmitList |-> d.transmitList, inRetry |-> d.inRetry, sendEvent |-> d.sendEvent,
           pendingCount |-> d.pendingCount, reqs |-> d.reqs]
    BY DEF PortOK, PortType
<1>2. e = IF numBytes = r.totBytes
          THEN [d EXCEPT !.pendingCount = d.pendingCount - 1, !.reqs = fewer]
          ELSE [d EXCEPT !.reqs[pkt.req].numBytes = numBytes,
                         !.reqs[pkt.req].moved = r.moved \cup bytesOf(pkt)]
    BY DEF handleResp
<1>3. [d EXCEPT !.reqs[pkt.req].numBytes = numBytes,
                !.reqs[pkt.req].moved = r.moved \cup bytesOf(pkt)]
         = [d EXCEPT !.reqs = same]
    BY <1>1, Zenon
<1> HIDE DEF e, numBytes, fewer, same, r
<1>4. \/ e = [d EXCEPT !.pendingCount = d.pendingCount - 1, !.reqs = fewer]
      \/ e = [d EXCEPT !.reqs = same]
    BY <1>2, <1>3
<1>5. /\ e = [transmitList |-> e.transmitList, inRetry |-> e.inRetry, sendEvent |-> e.sendEvent,
              pendingCount |-> e.pendingCount, reqs |-> e.reqs]
      /\ e.transmitList = d.transmitList /\ e.inRetry = d.inRetry /\ e.sendEvent = d.sendEvent
    BY <1>1, <1>4, Zenon
<1>6. PortOK(e)
    BY <1>5 DEF PortOK, PortType
<1> QED BY <1>5, <1>6 DEF e

----------------------------------------------------------------------------
(* The request layer.  W are the ports with a packet to retry.             *)

Layers ==
    [state : {"IDLE", "BUSY", "RETRY"}, waitingForLayer : Seq(Ports),
     waitingForPeer : Ports \cup {NoPort}]

inList(s, p) == \E i \in 1..Len(s) : s[i] = p

NoRepeat(s) == \A i, j \in 1..Len(s) : s[i] = s[j] => i = j

\* Exactly the ports of W wait, each of them once, and for something.
LayerOK(l, W) ==
    /\ l \in Layers /\ NoRepeat(l.waitingForLayer)
    /\ ~inList(l.waitingForLayer, l.waitingForPeer)
    /\ \A p \in Ports : p \in W <=> p = l.waitingForPeer \/ inList(l.waitingForLayer, p)
    /\ l.state = "RETRY" => l.waitingForPeer = NoPort
    /\ l.waitingForLayer # <<>> => l.state # "IDLE" \/ l.waitingForPeer # NoPort

\* A port that does not wait, and a list of ports with it at its end.
LEMMA Appended ==
    ASSUME NEW s \in Seq(Ports), NEW p \in Ports, ~inList(s, p), NoRepeat(s)
    PROVE  LET t == Append(s, p)
           IN /\ t \in Seq(Ports) /\ t # <<>> /\ NoRepeat(t)
              /\ \A q : inList(t, q) <=> q = p \/ inList(s, q)
<1> DEFINE t == Append(s, p)
<1>1. /\ t \in Seq(Ports) /\ t # <<>> /\ Len(t) = Len(s) + 1 /\ t[Len(s) + 1] = p
      /\ \A i \in 1..Len(s) : t[i] = s[i]
    BY SeqAppend
<1>2. Len(s) \in Nat
    BY SeqElements
<1> HIDE DEF t
<1>3. NoRepeat(t)
    BY <1>1, <1>2 DEF NoRepeat, inList
<1>4. ASSUME NEW q PROVE inList(t, q) <=> q = p \/ inList(s, q)
    BY <1>1, <1>2 DEF inList
<1> QED BY <1>1, <1>3, <1>4 DEF t

\* The list without its first port.
LEMMA Popped ==
    ASSUME NEW s \in Seq(Ports), s # <<>>, NoRepeat(s)
    PROVE  /\ Head(s) \in Ports /\ Tail(s) \in Seq(Ports) /\ NoRepeat(Tail(s))
           /\ ~inList(Tail(s), Head(s))
           /\ \A q : inList(s, q) <=> q = Head(s) \/ inList(Tail(s), q)
<1> DEFINE t == Tail(s)
<1>1. /\ Head(s) \in Ports /\ t \in Seq(Ports) /\ Len(t) = Len(s) - 1
      /\ \A i \in 1..Len(t) : t[i] = s[i + 1]
    BY SeqHeadTail
<1>2. Len(s) \in Nat /\ Len(s) >= 1 /\ Head(s) = s[1]
    BY SeqElements
<1> HIDE DEF t
<1>3. NoRepeat(t) /\ ~inList(t, Head(s))
    BY <1>1, <1>2 DEF NoRepeat, inList
<1>4. ASSUME NEW q PROVE inList(s, q) <=> q = Head(s) \/ inList(t, q)
    <2>1. ASSUME NEW i \in 1..Len(s), s[i] = q PROVE q = Head(s) \/ inList(t, q)
        <3>1. CASE i = 1
            BY <1>2, <2>1, <3>1
        <3>2. CASE i # 1
            <4>1. i - 1 \in 1..Len(t) /\ t[i - 1] = s[i]
                BY <1>1, <1>2, <3>2
            <4> QED BY <2>1, <4>1 DEF inList
        <3> QED BY <3>1, <3>2
    <2>2. ASSUME q = Head(s) PROVE inList(s, q)
        <3>1. 1 \in 1..Len(s) /\ s[1] = q
            BY <1>2, <2>2
        <3> QED BY <3>1 DEF inList
    <2>3. ASSUME NEW i \in 1..Len(t), t[i] = q PROVE inList(s, q)
        <3>1. i + 1 \in 1..Len(s) /\ s[i + 1] = q
            BY <1>1, <1>2, <2>3
        <3> QED BY <3>1 DEF inList
    <2> QED BY <2>1, <2>2, <2>3 DEF inList
<1> QED BY <1>1, <1>3, <1>4 DEF t

\* Layer m, after layer l was offered a packet of port p.
AfterOffer(l, m, W, p, taken) ==
    /\ m.state # "RETRY"
    /\ ~occupied(l) /\ taken => LayerOK(m, W)
    /\ occupied(l) \/ ~taken => LayerOK(m, W \cup {p})
    /\ occupied(l) => m.waitingForPeer = l.waitingForPeer
    /\ ~occupied(l) => l.waitingForPeer = NoPort
    /\ ~occupied(l) => m.waitingForPeer = IF taken THEN NoPort ELSE p

\* A packet of port p, which does not wait, is offered.
LEMMA Offered ==
    ASSUME NEW l, NEW W, LayerOK(l, W), NEW p \in Ports, p \notin W, NEW taken \in BOOLEAN
    PROVE  AfterOffer(l, retried(offer(l, p, taken)), W, p, taken)
<1> DEFINE m == retried(offer(l, p, taken))
<1>1. /\ l \in Layers /\ l.waitingForLayer \in Seq(Ports) /\ NoRepeat(l.waitingForLayer)
      /\ ~inList(l.waitingForLayer, p) /\ p # l.waitingForPeer /\ p # NoPort
    BY BusAssumption DEF LayerOK, Layers
<1>2. CASE occupied(l)
    <2> DEFINE t == Append(l.waitingForLayer, p)
    <2>1. /\ t \in Seq(Ports) /\ t # <<>> /\ NoRepeat(t)
          /\ \A q : inList(t, q) <=> q = p \/ inList(l.waitingForLayer, q)
        BY <1>1, Appended
    <2>2. l.state # "RETRY"
        BY <1>2 DEF LayerOK, occupied
    <2>3. m = [l EXCEPT !.waitingForLayer = t]
        BY <1>1, <1>2, <2>2 DEF offer, retried, Layers
    <2> HIDE DEF t, m
    <2>4. /\ m \in Layers /\ m.state = l.state /\ m.waitingForLayer = t
          /\ m.waitingForPeer = l.waitingForPeer
        BY <1>1, <2>1, <2>3 DEF Layers
    <2>5. ~inList(t, m.waitingForPeer)
        BY <1>1, <2>1, <2>4 DEF LayerOK
    <2>6. \A q \in Ports : q \in W \cup {p} <=> q = m.waitingForPeer \/ inList(t, q)
        BY <2>1, <2>4 DEF LayerOK
    <2>7. m.state # "IDLE" \/ m.waitingForPeer # NoPort
        BY <1>2, <2>4 DEF occupied
    <2>8. LayerOK(m, W \cup {p})
        BY <2>1, <2>2, <2>4, <2>5, <2>6, <2>7 DEF LayerOK
    <2> QED BY <1>2, <2>2, <2>4, <2>8 DEF m, AfterOffer
<1>3. CASE ~occupied(l)
    <2> DEFINE peer == IF taken THEN NoPort ELSE p
    <2>1. l.waitingForPeer = NoPort
        BY <1>3 DEF occupied
    <2>2. m = [l EXCEPT !.state = "BUSY", !.waitingForPeer = peer]
        BY <1>1, <1>3 DEF offer, retried, Layers
    <2>3. peer \in Ports \cup {NoPort} /\ (taken => peer = NoPort) /\ (~taken => peer = p)
        OBVIOUS
    <2> HIDE DEF peer, m
    <2>4. /\ m \in Layers /\ m.state = "BUSY" /\ m.waitingForLayer = l.waitingForLayer
          /\ m.waitingForPeer = peer
        BY <1>1, <2>2, <2>3, Zenon DEF Layers
    <2>5. ~inList(m.waitingForLayer, peer)
        BY <1>1, <2>1, <2>3, <2>4 DEF LayerOK
    <2>6. taken => LayerOK(m, W)
        BY <1>1, <2>1, <2>3, <2>4, <2>5 DEF LayerOK
    <2>7. ~taken => LayerOK(m, W \cup {p})
        BY <1>1, <2>1, <2>3, <2>4, <2>5, BusAssumption DEF LayerOK
    <2> QED BY <1>3, <2>1, <2>4, <2>6, <2>7 DEF peer, m, AfterOffer
<1> QED BY <1>2, <1>3

----------------------------------------------------------------------------
(* The requests.                                                           *)

Retrying(dm) == {p \in Ports : dm[p].inRetry # <<>>}

DmaOK(dm) == dm = [p \in Ports |-> dm[p]] /\ \A p \in Ports : PortOK(dm[p])

\* The port that waits for the cache is the one the cache owes a retry.
PeerOwed(l, c) == l.waitingForPeer # NoPort <=> c.mustSendRetry

ReqInv(dm, l, c) ==
    /\ DmaOK(dm) /\ LayerOK(l, Retrying(dm)) /\ l.state # "RETRY"
    /\ CacheOK(c) /\ PeerOwed(l, c)

\* The response queue keeps what it has, and gets more at its end.
QueueGrows(c, d) ==
    /\ d.waitingOnRetry = c.waitingOnRetry
    /\ \E pkts \in Seq(Packets) : d.queue = c.queue \o pkts

\* Port p in state e, and the other ports as they were.
LEMMA PortSet ==
    ASSUME NEW dm, DmaOK(dm), NEW p \in Ports, NEW e, PortOK(e)
    PROVE  LET n == [dm EXCEPT ![p] = e]
           IN /\ DmaOK(n)
              /\ e.inRetry = <<>> => Retrying(n) = Retrying(dm) \ {p}
              /\ e.inRetry # <<>> => Retrying(n) = (Retrying(dm) \ {p}) \cup {p}
<1> DEFINE n == [dm EXCEPT ![p] = e]
<1>1. /\ n = [q \in Ports |-> n[q]] /\ n[p] = e
      /\ \A q \in Ports : q # p => n[q] = dm[q]
    BY DEF DmaOK
<1> HIDE DEF n
<1>2. DmaOK(n)
    BY <1>1 DEF DmaOK
<1>3. e.inRetry = <<>> => Retrying(n) = Retrying(dm) \ {p}
    BY <1>1 DEF Retrying
<1>4. e.inRetry # <<>> => Retrying(n) = (Retrying(dm) \ {p}) \cup {p}
    BY <1>1 DEF Retrying
<1> QED BY <1>2, <1>3, <1>4, Zenon DEF n

\* A port with something to send and no event offers its packet.
LEMMA TrySend ==
    ASSUME NEW p \in Ports, NEW d, PortType(d), d.transmitList # <<>>, ~d.sendEvent,
           NEW l, NEW c, CacheOK(c), DmaOK(dma), LayerOK(l, Retrying(dma) \ {p}),
           PeerOwed(l, c), trySendTimingReq(p, d, l, c)
    PROVE  ReqInv(dma', reqLayer', cache') /\ QueueGrows(c, cache')
<1> DEFINE pkt == packetToSend(p, d)
           b == pkt.addr \div LineSize
           W == Retrying(dma) \ {p}
           e == IF ~occupied(l) /\ takes(c) THEN sent(d) ELSE failed(p, d)
<1>1. pkt \in Packets /\ b \in Lines
    BY PacketGood, Zenon DEF Packets
<1>2. PICK hit \in BOOLEAN :
         /\ hit => c.mshr[b].targets = <<>>
         /\ dma' = [dma EXCEPT ![p] = e]
         /\ reqLayer' = retried(offer(l, p, takes(c)))
         /\ cache' = IF occupied(l) THEN c ELSE recvTimingReq(c, b, pkt, hit)
    BY DEF trySendTimingReq
<1>3. takes(c) \in BOOLEAN /\ p \notin W
    BY DEF takes
<1>4. AfterOffer(l, reqLayer', W, p, takes(c))
    <2> DEFINE taken == takes(c)
    <2>1. taken \in BOOLEAN /\ reqLayer' = retried(offer(l, p, taken)) /\ LayerOK(l, W)
        BY <1>2, <1>3
    <2> HIDE DEF W, taken
    <2>2. AfterOffer(l, retried(offer(l, p, taken)), W, p, taken)
        BY <1>3, <2>1, Offered, Zenon
    <2>3. AfterOffer(l, reqLayer', W, p, taken)
        BY <2>1, <2>2, Zenon
    <2> QED BY <2>3, Zenon DEF taken
<1>5. PortOK(e) /\ (e.inRetry = <<>> <=> ~occupied(l) /\ takes(c))
    <2>1. PortOK(sent(d)) /\ sent(d).inRetry = <<>>
        BY SentOK
    <2>2. PortOK(failed(p, d)) /\ failed(p, d).inRetry # <<>>
        BY FailedOK
    <2> QED BY <2>1, <2>2
<1> HIDE DEF e
<1>6. DmaOK(dma') /\ LayerOK(reqLayer', Retrying(dma'))
    <2>1. /\ DmaOK(dma')
          /\ e.inRetry = <<>> => Retrying(dma') = W
          /\ e.inRetry # <<>> => Retrying(dma') = W \cup {p}
        BY <1>2, <1>5, PortSet, Zenon
    <2> QED BY <1>4, <1>5, <2>1, Zenon DEF AfterOffer
<1> HIDE DEF pkt, b
<1>7. CASE occupied(l)
    <2>1. c.queue \in Seq(Packets) /\ <<>> \in Seq(Packets) /\ c.queue \o <<>> = c.queue
        BY SeqConcatNone DEF CacheOK, CacheType
    <2>2. QueueGrows(c, cache') /\ cache' = c
        BY <1>2, <1>7, <2>1, Zenon DEF QueueGrows
    <2> QED BY <1>4, <1>6, <1>7, <2>2 DEF ReqInv, PeerOwed, AfterOffer
<1>8. CASE ~occupied(l)
    <2>1. ~c.mustSendRetry
        BY <1>4, <1>8, Zenon DEF PeerOwed, AfterOffer
    <2>2. /\ CacheOK(cache') /\ cache'.waitingOnRetry = c.waitingOnRetry
          /\ cache'.mustSendRetry = ~takes(c)
          /\ \E pkts \in Seq(Packets) : cache'.queue = c.queue \o pkts
        BY <1>1, <1>2, <1>8, <2>1, RecvReq, Zenon
    <2>3. PeerOwed(reqLayer', cache')
        BY <1>4, <1>8, <2>2, BusAssumption, Zenon DEF PeerOwed, AfterOffer
    <2> QED BY <1>4, <1>6, <2>2, <2>3, Zenon DEF ReqInv, QueueGrows, AfterOffer
<1> QED BY <1>7, <1>8

\* A layer that may have to call back: who waits, as in LayerOK.
Waiting(l, W) ==
    /\ l \in Layers /\ NoRepeat(l.waitingForLayer) /\ l.state # "RETRY"
    /\ ~inList(l.waitingForLayer, l.waitingForPeer)
    /\ \A p \in Ports : p \in W <=> p = l.waitingForPeer \/ inList(l.waitingForLayer, p)

\* The first port of the list has a packet to retry, and no other place to wait.
LEMMA FirstCalled ==
    ASSUME NEW l, NEW W, Waiting(l, W), callsBack(l)
    PROVE  /\ retryingPort(l) \in Ports /\ retryingPort(l) \in W
           /\ LayerOK(retryWaiting(l), W \ {retryingPort(l)})
           /\ retryWaiting(l).waitingForPeer = NoPort
<1> DEFINE s == l.waitingForLayer
           p == Head(s)
           t == Tail(s)
           m == retryWaiting(l)
<1>1. l \in Layers /\ s \in Seq(Ports) /\ s # <<>> /\ NoRepeat(s) /\ l.waitingForPeer = NoPort
    BY DEF Waiting, Layers, callsBack
<1>2. /\ p \in Ports /\ t \in Seq(Ports) /\ NoRepeat(t) /\ ~inList(t, p)
      /\ \A q : inList(s, q) <=> q = p \/ inList(t, q)
    BY <1>1, Popped
<1>3. m = [l EXCEPT !.state = "RETRY", !.waitingForLayer = t]
    BY DEF retryWaiting
<1>4. \A q \in Ports : q \in W <=> q = l.waitingForPeer \/ inList(s, q)
    BY DEF Waiting
<1>5. ~inList(s, NoPort)
    BY <1>1 DEF Waiting
<1>6. p = retryingPort(l)
    BY DEF retryingPort
<1> HIDE DEF s, p, t, m
<1>7. /\ m \in Layers /\ m.state = "RETRY" /\ m.waitingForLayer = t
      /\ m.waitingForPeer = NoPort
    BY <1>1, <1>2, <1>3, Zenon DEF Layers
<1>8. p \in W
    BY <1>2, <1>4
<1>9. ~inList(t, NoPort)
    BY <1>2, <1>5
<1>10. \A q \in Ports : q \in W \ {p} <=> q = NoPort \/ inList(t, q)
    BY <1>1, <1>2, <1>4, BusAssumption
<1>11. LayerOK(m, W \ {p})
    BY <1>2, <1>7, <1>9, <1>10 DEF LayerOK
<1> QED BY <1>2, <1>6, <1>7, <1>8, <1>11 DEF m

\* The layer calls back who waits, if it is free.
LEMMA CalledBack ==
    ASSUME NEW l, NEW c, CacheOK(c), DmaOK(dma), Waiting(l, Retrying(dma)), PeerOwed(l, c),
           CallBack(l, c)
    PROVE  ReqInv(dma', reqLayer', cache') /\ QueueGrows(c, cache')
<1>1. CASE callsBack(l)
    <2> DEFINE p == retryingPort(l)
               d == dma[p]
               m == retryWaiting(l)
    <2>1. /\ p \in Ports /\ p \in Retrying(dma) /\ LayerOK(m, Retrying(dma) \ {p})
          /\ m.waitingForPeer = NoPort
        BY <1>1, FirstCalled
    <2>2. trySendTimingReq(p, d, m, c)
        BY <1>1 DEF CallBack
    <2>3. l.waitingForPeer = NoPort
        BY <1>1 DEF callsBack
    <2> HIDE DEF p, m
    <2>4. PortType(d) /\ d.transmitList # <<>> /\ ~d.sendEvent
        BY <2>1 DEF DmaOK, Retrying, PortOK
    <2>5. PeerOwed(m, c)
        BY <2>1, <2>3 DEF PeerOwed
    <2> HIDE DEF d
    <2> QED BY <2>1, <2>2, <2>4, <2>5, TrySend
<1>2. CASE ~callsBack(l)
    <2>1. reqLayer' = l /\ cache' = c /\ dma' = dma
        BY <1>2 DEF CallBack
    <2>2. LayerOK(l, Retrying(dma)) /\ l.state # "RETRY"
        BY <1>2 DEF callsBack, LayerOK, Waiting
    <2>3. c.queue \in Seq(Packets) /\ <<>> \in Seq(Packets) /\ c.queue \o <<>> = c.queue
        BY SeqConcatNone DEF CacheOK, CacheType
    <2>4. QueueGrows(c, c)
        BY <2>3, Zenon DEF QueueGrows
    <2> QED BY <2>1, <2>2, <2>4 DEF ReqInv
<1> QED BY <1>1, <1>2, Zenon

\* The layer is released.
LEMMA Released ==
    ASSUME NEW l, NEW W, LayerOK(l, W), l.state # "RETRY"
    PROVE  Waiting(releaseLayer(l), W) /\ releaseLayer(l).waitingForPeer = l.waitingForPeer
<1> DEFINE m == releaseLayer(l)
<1>1. l \in Layers
    BY DEF LayerOK
<1>2. m = [l EXCEPT !.state = "IDLE"]
    BY DEF releaseLayer
<1> HIDE DEF m
<1>3. /\ m \in Layers /\ m.state = "IDLE" /\ m.waitingForLayer = l.waitingForLayer
      /\ m.waitingForPeer = l.waitingForPeer
    BY <1>1, <1>2 DEF Layers
<1>4. Waiting(m, W)
    BY <1>3 DEF Waiting, LayerOK
<1> QED BY <1>3, <1>4 DEF m

\* The cache is ready again: the port that waited for it is the first of the list.
LEMMA PeerReady ==
    ASSUME NEW l, NEW W, LayerOK(l, W), l.state # "RETRY", l.waitingForPeer # NoPort
    PROVE  Waiting(recvRetry(l), W) /\ recvRetry(l).waitingForPeer = NoPort
<1> DEFINE s == l.waitingForLayer
           p == l.waitingForPeer
           t == <<p>> \o s
           m == recvRetry(l)
<1>1. l \in Layers /\ s \in Seq(Ports) /\ p \in Ports /\ NoRepeat(s) /\ ~inList(s, p)
    BY DEF LayerOK, Layers
<1>2. \A q \in Ports : q \in W <=> q = p \/ inList(s, q)
    BY DEF LayerOK
<1>3. m = [l EXCEPT !.waitingForLayer = t, !.waitingForPeer = NoPort]
    BY DEF recvRetry
<1>4. <<p>> \in Seq(Ports) /\ Len(<<p>>) = 1 /\ Len(s) \in Nat
    BY <1>1, SeqElements
<1>5. /\ t \in Seq(Ports) /\ Len(t) = 1 + Len(s) /\ t[1] = p
      /\ \A i \in 2..Len(t) : t[i] = s[i - 1]
    BY <1>1, <1>4, SeqConcat
<1> HIDE DEF s, p, t, m
<1>6. NoRepeat(t)
    BY <1>1, <1>4, <1>5 DEF NoRepeat, inList
<1>7. ASSUME NEW q PROVE inList(t, q) <=> q = p \/ inList(s, q)
    <2>1. ASSUME NEW i \in 1..Len(t), t[i] = q PROVE q = p \/ inList(s, q)
        <3>1. CASE i = 1
            BY <1>5, <2>1, <3>1
        <3>2. CASE i # 1
            <4>1. i - 1 \in 1..Len(s) /\ t[i] = s[i - 1]
                BY <1>4, <1>5, <3>2
            <4> QED BY <2>1, <4>1 DEF inList
        <3> QED BY <3>1, <3>2
    <2>2. ASSUME q = p PROVE inList(t, q)
        <3>1. 1 \in 1..Len(t) /\ t[1] = q
            BY <1>4, <1>5, <2>2
        <3> QED BY <3>1 DEF inList
    <2>3. ASSUME NEW i \in 1..Len(s), s[i] = q PROVE inList(t, q)
        <3>1. i + 1 \in 2..Len(t) /\ i + 1 \in 1..Len(t) /\ (i + 1) - 1 = i
            BY <1>4, <1>5
        <3>2. t[i + 1] = q
            BY <1>5, <2>3, <3>1
        <3> QED BY <3>1, <3>2 DEF inList
    <2> QED BY <2>1, <2>2, <2>3 DEF inList
<1>8. /\ m \in Layers /\ m.state = l.state /\ m.waitingForLayer = t
      /\ m.waitingForPeer = NoPort
    BY <1>1, <1>3, <1>5, Zenon DEF Layers
<1>9. ~inList(t, NoPort)
    <2>1. \A i \in 1..Len(t) : t[i] \in Ports
        BY <1>5, SeqElements
    <2> QED BY <2>1, BusAssumption DEF inList
<1>10. Waiting(m, W)
    BY <1>2, <1>6, <1>7, <1>8, <1>9, BusAssumption DEF Waiting
<1> QED BY <1>8, <1>10 DEF m

----------------------------------------------------------------------------
(* The responses.                                                          *)

RespLayers(states) ==
    [state : states, waitingForLayer : {<<>>, <<"cache">>}, waitingForPeer : {NoPort}]

\* The cache's queue waits for one layer, which is busy: that of its first packet.
RespInv(layers, c) ==
    /\ layers \in [Ports -> RespLayers({"IDLE", "BUSY"})]
    /\ \A p \in Ports : layers[p].waitingForLayer # <<>> =>
          /\ layers[p].state = "BUSY" /\ c.waitingOnRetry
          /\ c.queue # <<>> /\ Head(c.queue).port = p
    /\ c.waitingOnRetry => \E p \in Ports : layers[p].waitingForLayer # <<>>

\* More packets in the queue do not change its first one.
LEMMA RespKept ==
    ASSUME NEW layers, NEW c, NEW d, RespInv(layers, c), c.queue \in Seq(Packets),
           QueueGrows(c, d)
    PROVE  RespInv(layers, d)
<1>1. PICK pkts \in Seq(Packets) : d.queue = c.queue \o pkts
    BY DEF QueueGrows
<1>2. c.queue # <<>> => d.queue # <<>> /\ Head(d.queue) = Head(c.queue)
    <2>1. ASSUME c.queue # <<>> PROVE d.queue # <<>> /\ Head(d.queue) = Head(c.queue)
        <3>1. Len(c.queue) \in Nat /\ Len(c.queue) >= 1 /\ Len(pkts) \in Nat
            BY <2>1, SeqElements
        <3>2. /\ d.queue \in Seq(Packets) /\ Len(d.queue) = Len(c.queue) + Len(pkts)
              /\ d.queue[1] = c.queue[1]
            BY <1>1, <3>1, SeqConcat
        <3> QED BY <3>1, <3>2
    <2> QED BY <2>1
<1>3. d.waitingOnRetry = c.waitingOnRetry
    BY DEF QueueGrows
<1> QED BY <1>2, <1>3 DEF RespInv

\* A sequence without one of its elements.
LEMMA TakenOut ==
    ASSUME NEW s \in Seq(Packets), NEW i \in 1..Len(s)
    PROVE  LET rest == SubSeq(s, 1, i - 1) \o SubSeq(s, i + 1, Len(s))
           IN s[i] \in Packets /\ rest \in Seq(Packets) /\ <<s[i]>> \o rest \in Seq(Packets)
<1> DEFINE pre == SubSeq(s, 1, i - 1)
           post == SubSeq(s, i + 1, Len(s))
<1>1. s[i] \in Packets /\ <<s[i]>> \in Seq(Packets)
    BY SeqElements
<1>2. Len(s) \in Nat /\ \A j \in 1..Len(s) : s[j] \in Packets
    BY SeqElements
<1>3. pre \in Seq(Packets)
    <2>1. \A j \in 1..(i - 1) : s[j] \in Packets
        BY <1>2
    <2> QED BY <2>1, SeqPart
<1>4. post \in Seq(Packets)
    <2>1. \A j \in (i + 1)..Len(s) : s[j] \in Packets
        BY <1>2
    <2> QED BY <2>1, SeqPart
<1> HIDE DEF pre, post
<1>5. pre \o post \in Seq(Packets)
    BY <1>3, <1>4, SeqConcat
<1>6. <<s[i]>> \o (pre \o post) \in Seq(Packets)
    BY <1>1, <1>5, SeqConcat
<1> QED BY <1>1, <1>5, <1>6 DEF pre, post

withQueue(c, w, q) == [c EXCEPT !.waitingOnRetry = w, !.queue = q]

\* The cache, but for its response queue.
LEMMA QueueChanged ==
    ASSUME NEW c, CacheOK(c), NEW q \in Seq(Packets), NEW w \in BOOLEAN
    PROVE  LET d == withQueue(c, w, q)
           IN /\ CacheOK(d) /\ d.mustSendRetry = c.mustSendRetry
              /\ d.waitingOnRetry = w /\ d.queue = q
<1> DEFINE d == withQueue(c, w, q)
<1>1. c \in CacheType
    BY DEF CacheOK
<1>2. d \in CacheType
    BY <1>1, Zenon DEF CacheType, withQueue
<1>3. /\ d.mshr = c.mshr /\ d.allocated = c.allocated /\ d.writes = c.writes
      /\ d.causes = c.causes /\ d.noTarget = c.noTarget
      /\ d.mustSendRetry = c.mustSendRetry /\ d.sendRetryEvent = c.sendRetryEvent
      /\ d.waitingOnRetry = w /\ d.queue = q
    BY <1>1 DEF CacheType, withQueue
<1> HIDE DEF d
<1>4. missed(d) = missed(c) /\ unfilled(d) = unfilled(c)
    BY <1>3 DEF missed, unfilled
<1>5. CausesOK(d) /\ RetryOK(d) /\ CountsOK(d)
    BY <1>3, <1>4 DEF CacheOK, CausesOK, RetryOK, CountsOK, mshrsFull, writesFull
<1> QED BY <1>2, <1>3, <1>5 DEF CacheOK, d

\* The queue offers a packet when no layer has it wait.
LEMMA RespOffered ==
    ASSUME NEW c, CacheOK(c), NEW layers \in [Ports -> RespLayers({"IDLE", "BUSY", "RETRY"})],
           \A p \in Ports : layers[p].waitingForLayer = <<>>,
           sendDeferredPacket(c, layers)
    PROVE  /\ CacheOK(cache') /\ cache'.mustSendRetry = c.mustSendRetry
           /\ RespInv(respLayer', cache')
<1>1. PICK i \in 1..Len(c.queue) :
        LET pkt == c.queue[i]
            p == pkt.port
            rest == SubSeq(c.queue, 1, i - 1) \o SubSeq(c.queue, i + 1, Len(c.queue))
            refused == occupied(layers[p])
        IN /\ cache' = [c EXCEPT !.waitingOnRetry = refused,
                                 !.queue = IF refused THEN <<pkt>> \o rest ELSE rest]
           /\ respLayer' = [q \in Ports |->
                 IF q = p THEN offer(layers[q], "cache", TRUE) ELSE retried(layers[q])]
    BY Zenon DEF sendDeferredPacket
<1> DEFINE pkt == c.queue[i]
           p == pkt.port
           rest == SubSeq(c.queue, 1, i - 1) \o SubSeq(c.queue, i + 1, Len(c.queue))
           refused == occupied(layers[p])
           q == IF refused THEN <<pkt>> \o rest ELSE rest
<1>2. c.queue \in Seq(Packets)
    BY DEF CacheOK, CacheType
<1>3. pkt \in Packets /\ rest \in Seq(Packets) /\ <<pkt>> \o rest \in Seq(Packets)
    BY <1>2, TakenOut
<1>4. /\ cache' = [c EXCEPT !.waitingOnRetry = refused, !.queue = q]
      /\ respLayer' = [r \in Ports |->
            IF r = p THEN offer(layers[r], "cache", TRUE) ELSE retried(layers[r])]
    BY <1>1
<1>5. refused \in BOOLEAN
    BY DEF occupied
<1>6. p \in Ports
    BY <1>3 DEF Packets
<1>7. refused => Head(q) = pkt /\ q # <<>>
    <2> HIDE DEF pkt, rest
    <2>1. refused => q = <<pkt>> \o rest /\ Len(<<pkt>>) = 1 /\ <<pkt>> \in Seq(Packets)
        BY <1>3
    <2> QED BY <1>3, <2>1, SeqConcat
<1> HIDE DEF pkt, rest
<1>8. q \in Seq(Packets)
    BY <1>3
<1> HIDE DEF q, refused, p
<1>9. /\ CacheOK(cache') /\ cache'.mustSendRetry = c.mustSendRetry
      /\ cache'.waitingOnRetry = refused /\ cache'.queue = q
    <2>1. cache' = withQueue(c, refused, q)
        BY <1>4 DEF withQueue
    <2> QED BY <1>5, <1>8, <2>1, QueueChanged, Zenon
<1>10. ASSUME NEW r \in Ports
       PROVE  /\ respLayer'[r] \in RespLayers({"IDLE", "BUSY"})
              /\ r # p => respLayer'[r].waitingForLayer = <<>>
              /\ r = p /\ refused => respLayer'[r].waitingForLayer # <<>> /\ respLayer'[r].state = "BUSY"
              /\ r = p /\ ~refused => respLayer'[r].waitingForLayer = <<>>
    <2> DEFINE l == layers[r]
    <2>1. l \in RespLayers({"IDLE", "BUSY", "RETRY"}) /\ l.waitingForLayer = <<>> /\ l.waitingForPeer = NoPort
        BY DEF RespLayers
    <2> HIDE DEF l
    <2>2. CASE r # p
        <3>1. respLayer'[r] = retried(l)
            BY <1>4, <2>2 DEF l
        <3> QED BY <2>1, <2>2, <3>1 DEF retried, RespLayers
    <2>3. CASE r = p
        <3>1. respLayer'[r] = offer(l, "cache", TRUE) /\ refused = occupied(l)
            BY <1>4, <2>3 DEF l, refused
        <3>2. CASE occupied(l)
            <4>1. l.state = "BUSY" /\ respLayer'[r] = [l EXCEPT !.waitingForLayer = <<"cache">>]
                BY <2>1, <3>1, <3>2 DEF offer, occupied
            <4>2. respLayer'[r] \in RespLayers({"IDLE", "BUSY"})
                BY <2>1, <4>1 DEF RespLayers
            <4>3. respLayer'[r].waitingForLayer = <<"cache">> /\ respLayer'[r].state = "BUSY"
                BY <2>1, <4>1 DEF RespLayers
            <4>4. <<"cache">> # <<>>
                OBVIOUS
            <4> QED BY <2>3, <3>1, <3>2, <4>2, <4>3, <4>4, Zenon
        <3>3. CASE ~occupied(l)
            <4>1. respLayer'[r] = [l EXCEPT !.state = "BUSY", !.waitingForPeer = NoPort]
                BY <3>1, <3>3 DEF offer
            <4> QED BY <2>1, <2>3, <3>1, <3>3, <4>1, Zenon DEF RespLayers
        <3> QED BY <3>2, <3>3
    <2> QED BY <2>2, <2>3
<1>11. pkt.port = p
    BY DEF p
<1>12. respLayer' \in [Ports -> RespLayers({"IDLE", "BUSY"})]
    <2>1. respLayer' = [r \in Ports |-> respLayer'[r]]
        BY <1>4
    <2> QED BY <1>10, <2>1
<1>13. RespInv(respLayer', cache')
    BY <1>5, <1>6, <1>7, <1>9, <1>10, <1>11, <1>12 DEF RespInv
<1> QED BY <1>9, <1>13, Zenon

----------------------------------------------------------------------------
(* The bus.                                                                *)

BusInv ==
    /\ launched \in Nat
    /\ ReqInv(dma, reqLayer, cache)
    /\ RespInv(respLayer, cache)

\* Initially no one waits.
LEMMA InitInv == Init => BusInv
<1> SUFFICES ASSUME Init PROVE BusInv
    OBVIOUS
<1>1. CacheOK(cache)
    <2>1. cache = IdleCache
        BY DEF Init
    <2>2. cache \in CacheType
        BY <2>1 DEF IdleCache, CacheType
    <2>3. missed(cache) = {} /\ unfilled(cache) = {}
        BY <2>1 DEF IdleCache, missed, unfilled
    <2>4. Cardinality(missed(cache)) = 0 /\ Cardinality(unfilled(cache)) = 0
        BY <2>3, FS_EmptySet
    <2>5. CausesOK(cache) /\ RetryOK(cache)
        BY <2>1, Sizes DEF IdleCache, CausesOK, RetryOK, mshrsFull, writesFull
    <2>6. CountsOK(cache)
        BY <2>1, <2>4, Sizes DEF IdleCache, CountsOK
    <2> QED BY <2>2, <2>5, <2>6 DEF CacheOK
<1>2. DmaOK(dma) /\ Retrying(dma) = {}
    <2>1. IdlePort.inRetry = <<>> /\ IdlePort.transmitList = <<>> /\ ~IdlePort.sendEvent
        BY DEF IdlePort
    <2>2. PortType(IdlePort)
        BY DEF IdlePort, PortType
    <2>3. PortOK(IdlePort)
        BY <2>1, <2>2 DEF PortOK
    <2>4. dma = [p \in Ports |-> IdlePort]
        BY DEF Init
    <2> QED BY <2>1, <2>3, <2>4 DEF DmaOK, Retrying
<1>3. LayerOK(reqLayer, {}) /\ reqLayer.state # "RETRY"
    <2>1. /\ reqLayer \in Layers /\ reqLayer.state = "IDLE" /\ reqLayer.waitingForLayer = <<>>
          /\ reqLayer.waitingForPeer = NoPort
        BY DEF Init, IdleLayer, Layers
    <2>2. \A p : ~inList(<<>>, p)
        BY DEF inList
    <2>3. NoRepeat(<<>>)
        BY DEF NoRepeat
    <2> QED BY <2>1, <2>2, <2>3, BusAssumption DEF LayerOK
<1>4. PeerOwed(reqLayer, cache)
    BY DEF Init, IdleLayer, IdleCache, PeerOwed
<1>5. RespInv(respLayer, cache)
    <2>1. respLayer = [p \in Ports |-> IdleLayer] /\ ~cache.waitingOnRetry
        BY DEF Init, IdleCache
    <2>2. IdleLayer \in RespLayers({"IDLE", "BUSY"}) /\ IdleLayer.waitingForLayer = <<>>
        BY DEF IdleLayer, RespLayers
    <2> QED BY <2>1, <2>2 DEF RespInv
<1> QED BY <1>1, <1>2, <1>3, <1>4, <1>5, Zenon DEF Init, BusInv, ReqInv

\* sendDma() of a port in state d, which is its state but for what there is to send.
LEMMA DmaSent ==
    ASSUME BusInv, NEW p \in Ports, NEW d, PortType(d), d.transmitList # <<>>,
           d.inRetry = dma[p].inRetry, ~(d.sendEvent /\ d.inRetry # <<>>), sendDma(p, d)
    PROVE  ReqInv(dma', reqLayer', cache') /\ QueueGrows(cache, cache')
<1>1. ReqInv(dma, reqLayer, cache) /\ DmaOK(dma) /\ CacheOK(cache) /\ PeerOwed(reqLayer, cache)
    BY Zenon DEF BusInv, ReqInv
<1>2. CASE sendsAtOnce(d)
    <2>1. d.inRetry = <<>> /\ ~d.sendEvent
        BY <1>2 DEF sendsAtOnce
    <2>2. Retrying(dma) \ {p} = Retrying(dma)
        BY <2>1, Zenon DEF Retrying
    <2>3. LayerOK(reqLayer, Retrying(dma) \ {p})
        BY <1>1, <2>2, Zenon DEF ReqInv
    <2>4. trySendTimingReq(p, d, reqLayer, cache)
        BY <1>2 DEF sendDma
    <2> QED BY <1>1, <2>1, <2>3, <2>4, TrySend
<1>3. CASE ~sendsAtOnce(d)
    <2>1. dma' = [dma EXCEPT ![p] = d] /\ reqLayer' = reqLayer /\ cache' = cache
        BY <1>3 DEF sendDma
    <2>2. PortOK(d)
        BY <1>3 DEF sendsAtOnce, PortOK, PortType
    <2>3. /\ DmaOK(dma')
          /\ d.inRetry = <<>> => Retrying(dma') = Retrying(dma) \ {p}
          /\ d.inRetry # <<>> => Retrying(dma') = (Retrying(dma) \ {p}) \cup {p}
        BY <1>1, <2>1, <2>2, PortSet, Zenon
    <2>4. Retrying(dma') = Retrying(dma)
        BY <2>3 DEF Retrying
    <2>5. cache.queue \in Seq(Packets) /\ <<>> \in Seq(Packets)
          /\ cache.queue \o <<>> = cache.queue
        BY <1>1, SeqConcatNone DEF CacheOK, CacheType
    <2>6. QueueGrows(cache, cache')
        BY <2>1, <2>5, Zenon DEF QueueGrows
    <2> QED BY <1>1, <2>1, <2>3, <2>4, <2>6 DEF ReqInv
<1> QED BY <1>2, <1>3

\* The last part of a step that does not touch the response layers.
LEMMA RespSame ==
    ASSUME BusInv, ReqInv(dma', reqLayer', cache'), QueueGrows(cache, cache'),
           launched' \in Nat, respLayer' = respLayer
    PROVE  BusInv'
<1>1. cache.queue \in Seq(Packets) /\ RespInv(respLayer, cache)
    BY DEF BusInv, ReqInv, CacheOK, CacheType
<1>2. RespInv(respLayer, cache')
    BY <1>1, RespKept
<1> QED BY <1>2 DEF BusInv

\* Every step keeps it: the requests.
LEMMA RequestSteps ==
    ASSUME BusInv, ReleaseReq \/ SendRetry \/ (\E p \in Ports : Launch(p) \/ SendDma(p))
    PROVE  BusInv'
<1>1. /\ launched \in Nat /\ DmaOK(dma) /\ LayerOK(reqLayer, Retrying(dma))
      /\ reqLayer.state # "RETRY" /\ CacheOK(cache) /\ PeerOwed(reqLayer, cache)
    BY DEF BusInv, ReqInv
<1>2. ASSUME NEW p \in Ports, Launch(p) PROVE BusInv'
    <2>1. PICK m \in Dmas :
             /\ launched' = launched + m.size
             /\ sendDma(p, queueDma(dma[p], launched + m.size, m.addr, m.size))
        BY <1>2 DEF Launch
    <2>2. launched + m.size \in Nat
        BY <1>1, BusAssumption
    <2> DEFINE d == queueDma(dma[p], launched + m.size, m.addr, m.size)
    <2>3. PortOK(dma[p])
        BY <1>1, Zenon DEF DmaOK
    <2>4. /\ PortType(d) /\ d.transmitList # <<>>
          /\ d.inRetry = dma[p].inRetry /\ d.sendEvent = dma[p].sendEvent
        BY <2>2, <2>3, QueuedOK
    <2>5. sendDma(p, d)
        BY <2>1
    <2> HIDE DEF d
    <2>6. ~(d.sendEvent /\ d.inRetry # <<>>)
        BY <2>3, <2>4 DEF PortOK
    <2>7. ReqInv(dma', reqLayer', cache') /\ QueueGrows(cache, cache')
        BY <2>4, <2>5, <2>6, DmaSent
    <2> QED BY <1>2, <2>1, <2>2, <2>7, RespSame DEF Launch, below
<1>3. ASSUME NEW p \in Ports, SendDma(p) PROVE BusInv'
    <2> DEFINE s == dma[p]
               d == [s EXCEPT !.sendEvent = FALSE]
    <2>1. PortOK(dma[p]) /\ dma[p].sendEvent /\ sendDma(p, d)
        <3>1. PortOK(dma[p])
            BY <1>1 DEF DmaOK
        <3>2. dma[p].sendEvent /\ sendDma(p, d)
            BY <1>3, Zenon DEF SendDma
        <3> QED BY <3>1, <3>2
    <2>2. s.inRetry = <<>> /\ s.transmitList # <<>> /\ PortType(s)
        BY <2>1 DEF PortOK
    <2> HIDE DEF s
    <2>3. d = [transmitList |-> s.transmitList, inRetry |-> s.inRetry, sendEvent |-> FALSE,
               pendingCount |-> s.pendingCount, reqs |-> s.reqs]
        <3> DEFINE off == FALSE
        <3>1. s = [transmitList |-> s.transmitList, inRetry |-> s.inRetry,
                   sendEvent |-> s.sendEvent, pendingCount |-> s.pendingCount, reqs |-> s.reqs]
            BY <2>2 DEF PortType
        <3> HIDE DEF off
        <3>2. [s EXCEPT !.sendEvent = off] =
                 [transmitList |-> s.transmitList, inRetry |-> s.inRetry, sendEvent |-> off,
                  pendingCount |-> s.pendingCount, reqs |-> s.reqs]
            BY <3>1
        <3> QED BY <3>2 DEF off
    <2> HIDE DEF d
    <2>4. /\ PortType(d) /\ d.transmitList # <<>> /\ ~d.sendEvent
          /\ d.inRetry = s.inRetry
        BY <2>2, <2>3 DEF PortType
    <2>5. ReqInv(dma', reqLayer', cache') /\ QueueGrows(cache, cache')
        BY <2>1, <2>4, DmaSent DEF s
    <2> QED BY <1>1, <1>3, <2>5, RespSame DEF SendDma, below
<1>4. ASSUME ReleaseReq PROVE BusInv'
    <2> DEFINE l == releaseLayer(reqLayer)
    <2>1. Waiting(l, Retrying(dma)) /\ l.waitingForPeer = reqLayer.waitingForPeer
        BY <1>1, Released
    <2>2. CallBack(l, cache)
        BY <1>4 DEF ReleaseReq
    <2> HIDE DEF l
    <2>3. PeerOwed(l, cache)
        BY <1>1, <2>1 DEF PeerOwed
    <2>4. ReqInv(dma', reqLayer', cache') /\ QueueGrows(cache, cache')
        BY <1>1, <2>1, <2>2, <2>3, CalledBack
    <2> QED BY <1>1, <1>4, <2>4, RespSame, Zenon DEF ReleaseReq, below
<1>5. ASSUME SendRetry PROVE BusInv'
    <2> DEFINE l == recvRetry(reqLayer)
               c == processSendRetry(cache)
    <2>1. cache.sendRetryEvent /\ CallBack(l, c)
        BY <1>5 DEF SendRetry
    <2>2. reqLayer.waitingForPeer # NoPort
        BY <1>1, <2>1 DEF CacheOK, RetryOK, PeerOwed
    <2>3. Waiting(l, Retrying(dma)) /\ l.waitingForPeer = NoPort
        BY <1>1, <2>2, PeerReady
    <2>4. /\ CacheOK(c) /\ ~c.mustSendRetry
          /\ c.waitingOnRetry = cache.waitingOnRetry /\ c.queue = cache.queue
        BY <1>1, <2>1, RetrySent
    <2> HIDE DEF l, c
    <2>5. PeerOwed(l, c)
        BY <2>3, <2>4 DEF PeerOwed
    <2>6. ReqInv(dma', reqLayer', cache') /\ QueueGrows(c, cache')
        BY <1>1, <2>1, <2>3, <2>4, <2>5, CalledBack, Zenon
    <2>7. QueueGrows(cache, cache')
        BY <2>4, <2>6 DEF QueueGrows
    <2> QED BY <1>1, <1>5, <2>6, <2>7, RespSame DEF SendRetry, below
<1> QED BY <1>2, <1>3, <1>4, <1>5

\* Every step keeps it: memory's answers and writebacks.
LEMMA MemorySteps ==
    ASSUME BusInv, Writeback \/ \E b \in Lines : Fill(b)
    PROVE  BusInv'
<1>1. /\ launched \in Nat /\ DmaOK(dma) /\ LayerOK(reqLayer, Retrying(dma))
      /\ reqLayer.state # "RETRY" /\ CacheOK(cache) /\ PeerOwed(reqLayer, cache)
    BY DEF BusInv, ReqInv
<1>2. /\ dma' = dma /\ reqLayer' = reqLayer /\ launched' = launched /\ respLayer' = respLayer
    BY DEF Writeback, Fill, below
<1>3. CacheOK(cache') /\ cache'.mustSendRetry = cache.mustSendRetry /\ QueueGrows(cache, cache')
    <2>1. CASE Writeback
        <3>1. CacheOK(cache') /\ SameQueue(cache, cache')
            BY <1>1, <2>1, WriteSent DEF Writeback
        <3>2. cache.queue \in Seq(Packets) /\ <<>> \in Seq(Packets)
              /\ cache.queue \o <<>> = cache.queue
            BY <1>1, SeqConcatNone DEF CacheOK, CacheType
        <3> QED BY <3>1, <3>2, Zenon DEF SameQueue, QueueGrows
    <2>2. ASSUME NEW b \in Lines, Fill(b)
          PROVE  /\ CacheOK(cache') /\ cache'.mustSendRetry = cache.mustSendRetry
                 /\ QueueGrows(cache, cache')
        <3>1. PICK n \in 1..Len(cache.mshr[b].targets), evicts \in BOOLEAN :
                 /\ evicts => ~cache.mshr[b].filled
                 /\ cache' = recvTimingResp(cache, b, n, evicts)
            BY <2>2 DEF Fill
        <3>2. cache.mshr[b].targets # <<>>
            BY <2>2, Zenon DEF Fill
        <3>3. LET d == recvTimingResp(cache, b, n, evicts)
              IN /\ CacheOK(d) /\ d.mustSendRetry = cache.mustSendRetry
                 /\ d.waitingOnRetry = cache.waitingOnRetry
                 /\ \E pkts \in Seq(Packets) : d.queue = cache.queue \o pkts
            BY <1>1, <3>1, <3>2, RecvResp, Zenon
        <3> QED BY <3>1, <3>3, Zenon DEF QueueGrows
    <2> QED BY <2>1, <2>2
<1>4. ReqInv(dma', reqLayer', cache')
    BY <1>1, <1>2, <1>3 DEF ReqInv, PeerOwed
<1> QED BY <1>1, <1>2, <1>3, <1>4, RespSame

\* Every step keeps it: the responses.
LEMMA ResponseSteps ==
    ASSUME BusInv, SendResp \/ \E p \in Ports : ReleaseResp(p) \/ Deliver(p)
    PROVE  BusInv'
<1>1. /\ launched \in Nat /\ DmaOK(dma) /\ LayerOK(reqLayer, Retrying(dma))
      /\ reqLayer.state # "RETRY" /\ CacheOK(cache) /\ PeerOwed(reqLayer, cache)
      /\ RespInv(respLayer, cache)
    BY DEF BusInv, ReqInv
<1>2. respLayer \in [Ports -> RespLayers({"IDLE", "BUSY"})]
    BY <1>1, Zenon DEF RespInv
<1>3. ASSUME NEW c, CacheOK(c), c.mustSendRetry = cache.mustSendRetry,
             NEW layers \in [Ports -> RespLayers({"IDLE", "BUSY", "RETRY"})],
             \A q \in Ports : layers[q].waitingForLayer = <<>>,
             sendDeferredPacket(c, layers), UNCHANGED <<dma, launched, reqLayer>>
      PROVE  BusInv'
    <2>1. /\ CacheOK(cache') /\ cache'.mustSendRetry = cache.mustSendRetry
          /\ RespInv(respLayer', cache')
        BY <1>3, RespOffered, Zenon
    <2> QED BY <1>1, <1>3, <2>1, Zenon DEF BusInv, ReqInv, PeerOwed
<1>4. CASE SendResp
    <2>1. \A q \in Ports : respLayer[q].waitingForLayer = <<>>
        BY <1>1, <1>4 DEF SendResp, RespInv
    <2>2. respLayer \in [Ports -> RespLayers({"IDLE", "BUSY", "RETRY"})]
        BY <1>2 DEF RespLayers
    <2>3. sendDeferredPacket(cache, respLayer) /\ UNCHANGED <<dma, launched, reqLayer>>
        BY <1>4 DEF SendResp
    <2> QED BY <1>1, <1>3, <2>1, <2>2, <2>3, Zenon
<1>5. ASSUME NEW p \in Ports, ReleaseResp(p) PROVE BusInv'
    <2> DEFINE l == releaseLayer(respLayer[p])
               k == respLayer[p]
    <2>1. k \in RespLayers({"IDLE", "BUSY"}) /\ l = [k EXCEPT !.state = "IDLE"]
        BY <1>2 DEF releaseLayer
    <2>2. UNCHANGED <<dma, launched, reqLayer>>
        BY <1>5 DEF ReleaseResp
    <2>3. /\ callsBack(l) => sendDeferredPacket([cache EXCEPT !.waitingOnRetry = FALSE],
                                                [respLayer EXCEPT ![p] = retryWaiting(l)])
          /\ ~callsBack(l) => /\ respLayer' = [respLayer EXCEPT ![p] = l]
                              /\ cache' = cache
        BY <1>5 DEF ReleaseResp
    <2> HIDE DEF l
    <2>4. /\ l \in RespLayers({"IDLE", "BUSY"}) /\ l.state = "IDLE" /\ l.waitingForPeer = NoPort
          /\ l.waitingForLayer = k.waitingForLayer
        BY <2>1 DEF RespLayers
    <2>5. CASE callsBack(l)
        <3> DEFINE m == retryWaiting(l)
                   layers == [respLayer EXCEPT ![p] = m]
                   c == withQueue(cache, FALSE, cache.queue)
        <3>1. k.waitingForLayer # <<>> /\ l.waitingForLayer = <<"cache">>
            BY <2>4, <2>5 DEF callsBack, RespLayers
        <3>2. m = [l EXCEPT !.state = "RETRY", !.waitingForLayer = <<>>]
            BY <3>1 DEF retryWaiting
        <3> HIDE DEF m
        <3>3. m \in RespLayers({"IDLE", "BUSY", "RETRY"}) /\ m.waitingForLayer = <<>>
            BY <2>4, <3>2, Zenon DEF RespLayers
        <3>4. layers \in [Ports -> RespLayers({"IDLE", "BUSY", "RETRY"})]
            <4>1. respLayer \in [Ports -> RespLayers({"IDLE", "BUSY", "RETRY"})]
                BY <1>2 DEF RespLayers
            <4> QED BY <3>3, <4>1
        <3>5. \A q \in Ports : q # p => respLayer[q].waitingForLayer = <<>>
            BY <1>1, <3>1 DEF RespInv
        <3>6. \A q \in Ports : layers[q].waitingForLayer = <<>>
            BY <1>2, <3>3, <3>5, Zenon
        <3>7. cache.queue \in Seq(Packets) /\ cache \in CacheType
            BY <1>1 DEF CacheOK, CacheType
        <3>8. CacheOK(c) /\ c.mustSendRetry = cache.mustSendRetry
            BY <1>1, <3>7, QueueChanged, Zenon
        <3>9. c = [cache EXCEPT !.waitingOnRetry = FALSE]
            BY <3>7, Zenon DEF withQueue, CacheType
        <3>10. sendDeferredPacket(c, layers)
            BY <2>3, <2>5, <3>9, Zenon DEF m
        <3> HIDE DEF c, layers
        <3> QED BY <1>3, <2>2, <3>4, <3>6, <3>8, <3>10, Zenon
    <2>6. CASE ~callsBack(l)
        <3>1. l.waitingForLayer = <<>>
            BY <2>4, <2>6 DEF callsBack
        <3>2. respLayer' = [respLayer EXCEPT ![p] = l] /\ cache' = cache
            BY <2>3, <2>6
        <3>3. /\ respLayer' \in [Ports -> RespLayers({"IDLE", "BUSY"})]
              /\ respLayer'[p].waitingForLayer = <<>>
              /\ \A q \in Ports : q # p => respLayer'[q] = respLayer[q]
            BY <1>2, <2>4, <3>1, <3>2
        <3>4. k.waitingForLayer = <<>>
            BY <2>4, <3>1, Zenon
        <3>5. RespInv(respLayer', cache)
            BY <1>1, <3>3, <3>4, Zenon DEF RespInv
        <3> QED BY <1>1, <2>2, <3>2, <3>5 DEF BusInv, ReqInv
    <2> QED BY <2>5, <2>6
<1>6. ASSUME NEW p \in Ports, Deliver(p) PROVE BusInv'
    <2> DEFINE d == dma[p]
               e == handleResp(d, Head(wire[p]))
    <2>1. /\ dma' = [dma EXCEPT ![p] = e]
          /\ launched' = launched /\ reqLayer' = reqLayer /\ cache' = cache
          /\ respLayer' = respLayer
        BY <1>6 DEF Deliver
    <2>2. PortOK(d)
        BY <1>1 DEF DmaOK
    <2>3. PortOK(e) /\ e.inRetry = d.inRetry
        BY <2>2, RespHandled, Zenon
    <2> HIDE DEF d, e
    <2>4. /\ DmaOK(dma')
          /\ e.inRetry = <<>> => Retrying(dma') = Retrying(dma) \ {p}
          /\ e.inRetry # <<>> => Retrying(dma') = (Retrying(dma) \ {p}) \cup {p}
        BY <1>1, <2>1, <2>3, PortSet, Zenon
    <2>5. Retrying(dma') = Retrying(dma)
        BY <2>3, <2>4 DEF Retrying, d
    <2> QED BY <1>1, <2>1, <2>4, <2>5 DEF BusInv, ReqInv
<1> QED BY <1>4, <1>5, <1>6

\* Every step keeps the invariant.
LEMMA NextInv == BusInv /\ [Next]_vars => BusInv'
<1> SUFFICES ASSUME BusInv, [Next]_vars PROVE BusInv'
    OBVIOUS
<1>1. CASE ReleaseReq \/ SendRetry \/ (\E p \in Ports : Launch(p) \/ SendDma(p))
    BY <1>1, RequestSteps
<1>2. CASE Writeback \/ \E b \in Lines : Fill(b)
    BY <1>2, MemorySteps
<1>3. CASE SendResp \/ \E p \in Ports : ReleaseResp(p) \/ Deliver(p)
    BY <1>3, ResponseSteps
<1>4. CASE UNCHANGED vars
    BY <1>4 DEF vars, BusInv, ReqInv
<1> QED BY <1>1, <1>2, <1>3, <1>4 DEF Next, Step

\* A cache that is blocked has a miss or a writeback under way.
LEMMA Unblocks ==
    ASSUME NEW c, CacheOK(c), c.causes # {}
    PROVE  c.writes > 0 \/ \E b \in Lines : c.mshr[b].targets # <<>>
<1>1. c \in CacheType /\ CausesOK(c) /\ CountsOK(c)
    BY DEF CacheOK
<1>2. CASE "NoMSHRs" \in c.causes
    <2>1. Cardinality(missed(c)) >= 1
        BY <1>1, <1>2, Sizes DEF CausesOK, CountsOK, mshrsFull, CacheType
    <2>2. missed(c) # {}
        BY <2>1, FS_EmptySet
    <2> QED BY <2>2 DEF missed
<1>3. CASE "NoWBBuffers" \in c.causes
    BY <1>1, <1>3, Sizes DEF CausesOK, writesFull, CacheType
<1>4. CASE "NoTargets" \in c.causes
    BY <1>1, <1>4 DEF CausesOK, CacheType
<1> QED BY <1>1, <1>2, <1>3, <1>4 DEF CacheType, Causes

\* The invariant says that who is turned away is called back.
LEMMA InvOwed == BusInv => RetryOwed
<1> SUFFICES ASSUME BusInv PROVE RetryOwed
    OBVIOUS
<1>1. /\ DmaOK(dma) /\ LayerOK(reqLayer, Retrying(dma)) /\ reqLayer.state # "RETRY"
      /\ CacheOK(cache) /\ PeerOwed(reqLayer, cache) /\ RespInv(respLayer, cache)
    BY DEF BusInv, ReqInv
<1>2. ASSUME NEW p \in Ports
      PROVE  dma[p].inRetry # <<>> <=> p = reqLayer.waitingForPeer \/ waits(p) # {}
    <2>1. p \in Retrying(dma) <=> dma[p].inRetry # <<>>
        BY DEF Retrying
    <2>2. waits(p) # {} <=> inList(reqLayer.waitingForLayer, p)
        BY DEF waits, inList
    <2> QED BY <1>1, <2>1, <2>2 DEF LayerOK
<1>3. reqLayer.waitingForLayer # <<>> => reqLayer.state = "BUSY" \/ reqLayer.waitingForPeer # NoPort
    BY <1>1 DEF LayerOK, Layers
<1>4. /\ reqLayer.waitingForPeer # NoPort <=> cache.mustSendRetry
      /\ cache.mustSendRetry => cache.causes # {} \/ cache.sendRetryEvent
    BY <1>1 DEF PeerOwed, CacheOK, RetryOK
<1>5. cache.causes # {} => cache.writes > 0 \/ \E b \in Lines : cache.mshr[b].targets # <<>>
    BY <1>1, Unblocks
<1>6. \A p \in Ports : dma[p].transmitList # <<>> => dma[p].sendEvent \/ dma[p].inRetry # <<>>
    BY <1>1 DEF DmaOK, PortOK
<1>7. cache.waitingOnRetry =>
         \E p \in Ports : respLayer[p].state = "BUSY" /\ respLayer[p].waitingForLayer # <<>>
    BY <1>1 DEF RespInv
<1> QED BY <1>2, <1>3, <1>4, <1>5, <1>6, <1>7 DEF RetryOwed

\* Who is turned away is called back, for any number of devices, lines and buffers: a
\* DMA port with a packet to retry is in the layer's list or is the one the cache
\* owes a retry, and what they wait for is under way.
THEOREM RetryOwedHolds == Spec => []RetryOwed
<1>1. Init => BusInv
    BY InitInv
<1>2. BusInv /\ [Next]_vars => BusInv'
    BY NextInv
<1>3. BusInv => RetryOwed
    BY InvOwed, Zenon
<1> QED BY <1>1, <1>2, <1>3, PTL DEF Spec

\* The reserve of one entry per MSHR is enough for the writebacks of the misses that
\* were let in, for any number of MSHRs and write buffers.
THEOREM WriteBufferFitsHolds == Spec => []WriteBufferFits
<1>1. Init => BusInv
    BY InitInv
<1>2. BusInv /\ [Next]_vars => BusInv'
    BY NextInv
<1>3. BusInv => WriteBufferFits
    <2> SUFFICES ASSUME BusInv PROVE WriteBufferFits
        OBVIOUS
    <2>1. cache \in CacheType /\ CountsOK(cache)
        BY DEF BusInv, ReqInv, CacheOK
    <2>2. Cardinality(unfilled(cache)) \in Nat
        BY LinesFinite, FS_CardinalityType
    <2> QED BY <2>1, <2>2, Sizes DEF CountsOK, WriteBufferFits, CacheType
<1> QED BY <1>1, <1>2, <1>3, PTL DEF Spec
=============================================================================
