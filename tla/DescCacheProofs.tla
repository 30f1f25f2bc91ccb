-------------------------- MODULE DescCacheProofs --------------------------
(***************************************************************************)
(* Proofs about the descriptor cache, for every ring length, cache size    *)
(* and set of alignment masks.  First the ring arithmetic, on plain        *)
(* numbers; then one lemma per member function, that it preserves the ring *)
(* invariant of the record it is applied to; then what the done bits of    *)
(* the ring say.                                                           *)
(***************************************************************************)
EXTENDS DescCache, SequenceTheorems, TLAPS

\* The account of the ring: h, t, p are the head, tail and cachePnt positions,
\* u, n, f, w the numbers of used, unused, fetching and outgoing descriptors,
\* l how many of the w have landed in memory, k the driver's next slot to reap.
Account(h, t, p, u, n, f, w, l, k) ==
    /\ l <= w /\ w <= u /\ h + w <= RingLen
    /\ p + f <= RingLen
    /\ u + n + f <= CacheSize
    /\ p = Wrap(h + u + n)
    /\ f <= Dist(p, t)
    /\ Dist(k, Wrap(h + l)) + (u - l) + n + Dist(p, t) = Dist(k, t)

----------------------------------------------------------------------------
(* Ring arithmetic.                                                        *)

\* n & ~mask is at most n and not negative.
LEMMA AlignBound ==
    ASSUME NEW n \in Nat, NEW m \in 0..3
    PROVE  AlignDown(n, m) \in Nat /\ AlignDown(n, m) <= n
BY DEF AlignDown

\* A position at most a ring length past a slot wraps to a slot.
LEMMA WrapSlot ==
    ASSUME NEW h \in Slots, NEW l \in Nat, l <= RingLen
    PROVE  Wrap(h + l) \in Slots
BY RingAssumption DEF Wrap, Slots

\* The driver posts j more slots: the card's account stretches to the new tail.
LEMMA PostAccount ==
    ASSUME NEW h \in Slots, NEW t \in Slots, NEW p \in Slots, NEW k \in Slots,
           NEW u \in Nat, NEW n \in Nat, NEW f \in Nat, NEW w \in Nat, NEW l \in Nat,
           NEW j \in Nat, Dist(k, t) + j < RingLen,
           Account(h, t, p, u, n, f, w, l, k)
    PROVE  Wrap(t + j) \in Slots /\ Account(h, Wrap(t + j), p, u, n, f, w, l, k)
BY RingAssumption, CacheAssumption DEF Account, Wrap, Dist, Slots

\* A fetch in flight ends: f descriptors join the unused ones.
LEMMA FetchedAccount ==
    ASSUME NEW h \in Slots, NEW t \in Slots, NEW p \in Slots, NEW k \in Slots,
           NEW u \in Nat, NEW n \in Nat, NEW f \in Nat, NEW w \in Nat, NEW l \in Nat,
           Account(h, t, p, u, n, f, w, l, k)
    PROVE  LET q == IF p + f = RingLen THEN 0 ELSE p + f
           IN q \in Slots /\ Account(h, t, q, u, n + f, 0, w, l, k)
BY RingAssumption, CacheAssumption DEF Account, Wrap, Dist, Slots

\* A writeback ends: its w descriptors leave the cache and the head passes them.
LEMMA RetiredAccount ==
    ASSUME NEW h \in Slots, NEW t \in Slots, NEW p \in Slots, NEW k \in Slots,
           NEW u \in Nat, NEW n \in Nat, NEW f \in Nat, NEW w \in Nat,
           Account(h, t, p, u, n, f, w, w, k)
    PROVE  /\ Wrap(h + w) \in Slots /\ u - w \in Nat
           /\ Account(Wrap(h + w), t, p, u - w, n, f, 0, 0, k)
BY RingAssumption, CacheAssumption DEF Account, Wrap, Dist, Slots

\* The front descriptor becomes used.
LEMMA UsedAccount ==
    ASSUME NEW h \in Slots, NEW t \in Slots, NEW p \in Slots, NEW k \in Slots,
           NEW u \in Nat, NEW n \in Nat, NEW f \in Nat, NEW w \in Nat, NEW l \in Nat,
           n > 0, Account(h, t, p, u, n, f, w, l, k)
    PROVE  Account(h, t, p, u + 1, n - 1, f, w, l, k)
BY RingAssumption, CacheAssumption DEF Account, Wrap, Dist, Slots

\* One more descriptor of a writeback lands in memory.
LEMMA LandedAccount ==
    ASSUME NEW h \in Slots, NEW t \in Slots, NEW p \in Slots, NEW k \in Slots,
           NEW u \in Nat, NEW n \in Nat, NEW f \in Nat, NEW w \in Nat, NEW l \in Nat,
           l < w, Account(h, t, p, u, n, f, w, l, k)
    PROVE  Account(h, t, p, u, n, f, w, l + 1, k)
BY RingAssumption, CacheAssumption DEF Account, Wrap, Dist, Slots

\* The driver reaps a slot that was returned.
LEMMA ReapedAccount ==
    ASSUME NEW h \in Slots, NEW t \in Slots, NEW p \in Slots, NEW k \in Slots,
           NEW u \in Nat, NEW n \in Nat, NEW f \in Nat, NEW w \in Nat, NEW l \in Nat,
           Dist(k, Wrap(h + l)) > 0, Account(h, t, p, u, n, f, w, l, k)
    PROVE  Wrap(k + 1) \in Slots /\ Account(h, t, p, u, n, f, w, l, Wrap(k + 1))
BY RingAssumption, CacheAssumption DEF Account, Wrap, Dist, Slots

Continues(h, u, n, p, f) ==
    \A i \in 1..f : /\ p + i - 1 \in Slots
                    /\ Wrap(h + u + (n + i) - 1) = p + i - 1

\* The i-th fetched slot continues the ring order of the cached ones.
LEMMA FetchedSlot ==
    ASSUME NEW h \in Slots, NEW t \in Slots, NEW p \in Slots, NEW k \in Slots,
           NEW u \in Nat, NEW n \in Nat, NEW f \in Nat, NEW w \in Nat, NEW l \in Nat,
           Account(h, t, p, u, n, f, w, l, k)
    PROVE  Continues(h, u, n, p, f)
BY RingAssumption, CacheAssumption DEF Continues, Account, Wrap, Dist, Slots

Shifts(h, w, u, n) ==
    \A i \in 1..((u - w) + n) : Wrap(h + (w + i) - 1) = Wrap(Wrap(h + w) + i - 1)

\* A cached slot keeps its position when the head moves past w descriptors.
LEMMA RetiredSlot ==
    ASSUME NEW h \in Slots, NEW t \in Slots, NEW p \in Slots, NEW k \in Slots,
           NEW u \in Nat, NEW n \in Nat, NEW f \in Nat, NEW w \in Nat,
           Account(h, t, p, u, n, f, w, w, k)
    PROVE  Shifts(h, w, u, n)
BY RingAssumption, CacheAssumption DEF Shifts, Account, Wrap, Dist, Slots

----------------------------------------------------------------------------
(* The member functions.                                                   *)

AccountOf(c, l, k) ==
    Account(c.head, c.tail, c.cachePnt, Len(c.used), Len(c.unused),
            c.curFetching, c.wbOut, l, k)

\* The cached descriptors are the slots from head on, in ring order.
Order(c) ==
    /\ \A i \in 1..Len(c.used) : c.used[i] = Wrap(c.head + i - 1)
    /\ \A i \in 1..Len(c.unused) : c.unused[i] = Wrap(c.head + Len(c.used) + i - 1)

\* An event is pending exactly while descriptors are in flight.
Events(c) ==
    /\ c.wbOut > 0 <=> c.wbEv # "none"
    /\ c.curFetching > 0 <=> c.fetchEv # "none"

RingInv(c, l, k) == c \in DescState /\ AccountOf(c, l, k) /\ Order(c) /\ Events(c)

More(c) == c.moreToWb => c.wbOut > 0

\* The members of a record have their types; lengths are numbers.
LEMMA MemberTypes ==
    ASSUME NEW c \in DescState
    PROVE  /\ c.head \in Slots /\ c.tail \in Slots /\ c.cachePnt \in Slots
           /\ c.used \in Seq(Slots) /\ c.unused \in Seq(Slots)
           /\ Len(c.used) \in Nat /\ Len(c.unused) \in Nat
           /\ c.curFetching \in Nat /\ c.wbOut \in Nat
           /\ c.moreToWb \in BOOLEAN /\ c.wbAlign \in 0..3
BY LenProperties DEF DescState

\* maxToWb() stays inside the used cache and inside the ring.
LEMMA MaxToWbBound ==
    ASSUME NEW c \in DescState, NEW m \in 0..3
    PROVE  /\ maxToWb(c, m) \in Nat
           /\ maxToWb(c, m) <= Len(c.used)
           /\ c.head + maxToWb(c, m) <= RingLen
           /\ Len(c.used) + c.head >= RingLen => maxToWb(c, m) > 0
<1>1. Len(c.used) \in Nat /\ c.head \in Slots
  BY MemberTypes
<1>2. AlignDown(Len(c.used), m) \in Nat /\ AlignDown(Len(c.used), m) <= Len(c.used)
  BY <1>1, AlignBound
<1> QED BY <1>1, <1>2, RingAssumption DEF maxToWb, Slots

\* writeback() keeps the ring invariant; called while nothing is in flight it
\* also establishes that moreToWb is only set with a writeback in flight.
LEMMA WritebackRing ==
    ASSUME NEW c, NEW l \in Nat, NEW k \in Slots, NEW m \in 0..3, RingInv(c, l, k)
    PROVE  /\ RingInv(writeback(c, m), l, k)
           /\ More(c) \/ c.wbOut = 0 => More(writeback(c, m))
           /\ writeback(c, m).head = c.head
<1> DEFINE v == writeback(c, m)
<1> USE DEF RingInv
<1>1. /\ c \in DescState
      /\ maxToWb(c, m) \in Nat /\ maxToWb(c, m) <= Len(c.used)
      /\ c.head + maxToWb(c, m) <= RingLen
      /\ Len(c.used) + c.head >= RingLen => maxToWb(c, m) > 0
      /\ Len(c.used) \in Nat /\ c.wbOut \in Nat
  BY MaxToWbBound, MemberTypes
<1>2. CASE c.wbOut > 0
  <2>1. v = writebackBusy(c, m)
    BY <1>2 DEF writeback
  <2>2. /\ v \in DescState
        /\ v.head = c.head /\ v.tail = c.tail /\ v.cachePnt = c.cachePnt
        /\ v.used = c.used /\ v.unused = c.unused
        /\ v.curFetching = c.curFetching /\ v.fetchEv = c.fetchEv
        /\ v.wbOut = c.wbOut /\ v.wbEv = c.wbEv
    BY <1>1, <2>1 DEF writebackBusy, DescState
  <2>3. AccountOf(v, l, k) /\ Order(v) /\ Events(v)
    BY <2>2 DEF AccountOf, Order, Events
  <2> QED BY <1>2, <2>2, <2>3 DEF More
<1>3. CASE ~(c.wbOut > 0)
  <2>1. v = writebackIdle(c, m)
    BY <1>3 DEF writeback
  <2>2. (Len(c.used) + c.head >= RingLen) \in BOOLEAN
    OBVIOUS
  <2>3. v \in DescState
    BY <1>1, <2>1, <2>2 DEF writebackIdle, DescState, EventState
  <2>4. /\ v.head = c.head /\ v.tail = c.tail /\ v.cachePnt = c.cachePnt
        /\ v.used = c.used /\ v.unused = c.unused
        /\ v.curFetching = c.curFetching /\ v.fetchEv = c.fetchEv
        /\ v.wbOut = maxToWb(c, m)
        /\ v.wbEv = IF maxToWb(c, m) = 0 THEN "none" ELSE "delay"
        /\ v.moreToWb => Len(c.used) + c.head >= RingLen
    BY <1>1, <2>1 DEF writebackIdle, DescState
  <2>5. AccountOf(v, l, k)
    <3>1. c.wbOut = 0 /\ l = 0
      BY <1>1, <1>3 DEF AccountOf, Account
    <3>2. l <= v.wbOut /\ v.wbOut <= Len(v.used) /\ v.head + v.wbOut <= RingLen
      BY <1>1, <2>4, <3>1
    <3> QED BY <2>4, <3>2 DEF AccountOf, Account
  <2>6. Order(v) /\ Events(v) /\ More(v)
    BY <1>1, <2>4 DEF Order, Events, More
  <2> QED BY <2>3, <2>4, <2>5, <2>6
<1> QED BY <1>2, <1>3

\* fetchDescriptors() asks for slots up to the tail or the end of the ring, and
\* for no more than the cache has room for.
LEMMA FetchSize ==
    ASSUME NEW h \in Slots, NEW t \in Slots, NEW p \in Slots, NEW k \in Slots,
           NEW u \in Nat, NEW n \in Nat, NEW f \in Nat, NEW w \in Nat, NEW l \in Nat,
           Account(h, t, p, u, n, f, w, l, k), f = 0
    PROVE  LET g == SmallerOf(IF t >= p THEN t - p ELSE RingLen - p,
                              CacheSize - (u + n))
           IN g \in Nat /\ Account(h, t, p, u, n, g, w, l, k)
BY RingAssumption, CacheAssumption DEF Account, Wrap, Dist, Slots, SmallerOf

\* fetchDescriptors() keeps the ring invariant and leaves the writeback alone.
LEMMA FetchRing ==
    ASSUME NEW c, NEW l \in Nat, NEW k \in Slots, RingInv(c, l, k)
    PROVE  /\ RingInv(fetchDescriptors(c), l, k)
           /\ More(c) => More(fetchDescriptors(c))
           /\ fetchDescriptors(c).head = c.head
           /\ fetchDescriptors(c).wbOut = c.wbOut
<1> DEFINE v == fetchDescriptors(c)
<1> USE DEF RingInv
<1>1. c \in DescState /\ c.curFetching \in Nat
  BY MemberTypes
<1>2. CASE c.curFetching > 0 \/ maxToFetch(c) = 0
  BY <1>2 DEF fetchDescriptors
<1>3. CASE ~(c.curFetching > 0 \/ maxToFetch(c) = 0)
  <2>1. maxToFetch(c) \in Nat /\
        Account(c.head, c.tail, c.cachePnt, Len(c.used), Len(c.unused),
                maxToFetch(c), c.wbOut, l, k)
    <3>1. /\ c.head \in Slots /\ c.tail \in Slots /\ c.cachePnt \in Slots
          /\ Len(c.used) \in Nat /\ Len(c.unused) \in Nat
          /\ c.curFetching \in Nat /\ c.wbOut \in Nat
      BY MemberTypes
    <3>2. c.curFetching = 0
      BY <1>1, <1>3
    <3> QED BY <3>1, <3>2, FetchSize DEF AccountOf, maxToFetch
  <2>2. /\ v \in DescState
        /\ v.head = c.head /\ v.tail = c.tail /\ v.cachePnt = c.cachePnt
        /\ v.used = c.used /\ v.unused = c.unused
        /\ v.curFetching = maxToFetch(c) /\ v.fetchEv = "delay"
        /\ v.wbOut = c.wbOut /\ v.wbEv = c.wbEv /\ v.moreToWb = c.moreToWb
    BY <1>1, <1>3, <2>1 DEF fetchDescriptors, DescState, EventState
  <2>3. AccountOf(v, l, k) /\ Order(v)
    BY <2>1, <2>2 DEF AccountOf, Order
  <2>4. Events(v)
    BY <1>3, <2>1, <2>2 DEF Events
  <2> QED BY <2>2, <2>3, <2>4 DEF More
<1> QED BY <1>2, <1>3

\* fetchComplete() appends the fetched slots in ring order.
LEMMA FetchedRing ==
    ASSUME NEW c, NEW l \in Nat, NEW k \in Slots, RingInv(c, l, k)
    PROVE  /\ RingInv(fetchComplete(c), l, k)
           /\ More(c) => More(fetchComplete(c))
           /\ fetchComplete(c).head = c.head
<1> DEFINE v == fetchComplete(c)
           fetched == [i \in 1..c.curFetching |-> c.cachePnt + i - 1]
           q == IF c.cachePnt + c.curFetching = RingLen
                THEN 0 ELSE c.cachePnt + c.curFetching
<1> USE DEF RingInv
<1>1. /\ c \in DescState /\ c.head \in Slots /\ c.tail \in Slots
      /\ c.cachePnt \in Slots /\ c.curFetching \in Nat /\ c.wbOut \in Nat
      /\ c.unused \in Seq(Slots) /\ Len(c.used) \in Nat /\ Len(c.unused) \in Nat
  BY MemberTypes
<1>2. \A i \in 1..c.curFetching :
         /\ c.cachePnt + i - 1 \in Slots
         /\ Wrap(c.head + Len(c.used) + (Len(c.unused) + i) - 1) = c.cachePnt + i - 1
  <2>1. Continues(c.head, Len(c.used), Len(c.unused), c.cachePnt, c.curFetching)
    BY <1>1, FetchedSlot DEF AccountOf
  <2> QED BY <2>1 DEF Continues
<1>3. fetched \in Seq(Slots) /\ Len(fetched) = c.curFetching
  BY <1>1, <1>2
<1>4. /\ c.unused \o fetched \in Seq(Slots)
      /\ Len(c.unused \o fetched) = Len(c.unused) + c.curFetching
      /\ \A i \in 1..(Len(c.unused) + c.curFetching) :
            (c.unused \o fetched)[i] = IF i <= Len(c.unused) THEN c.unused[i]
                                       ELSE fetched[i - Len(c.unused)]
  BY <1>1, <1>3, ConcatProperties
<1>5. q \in Slots /\ Account(c.head, c.tail, q, Len(c.used),
                             Len(c.unused) + c.curFetching, 0, c.wbOut, l, k)
  BY <1>1, FetchedAccount DEF AccountOf
<1>6. /\ v \in DescState
      /\ v.head = c.head /\ v.tail = c.tail /\ v.cachePnt = q
      /\ v.used = c.used /\ v.unused = c.unused \o fetched
      /\ v.curFetching = 0 /\ v.fetchEv = "none"
      /\ v.wbOut = c.wbOut /\ v.wbEv = c.wbEv /\ v.moreToWb = c.moreToWb
  <2> HIDE DEF fetched, q
  <2>1. v = [c EXCEPT !.unused = c.unused \o fetched, !.cachePnt = q,
                      !.curFetching = 0, !.fetchEv = "none"]
    BY DEF fetchComplete, fetched, q
  <2> HIDE DEF v
  <2> QED BY <1>1, <1>4, <1>5, <2>1 DEF DescState, EventState
<1>7. \A i \in 1..Len(v.unused) : v.unused[i] = Wrap(v.head + Len(v.used) + i - 1)
  <2> SUFFICES ASSUME NEW i \in 1..(Len(c.unused) + c.curFetching)
               PROVE  (c.unused \o fetched)[i] = Wrap(c.head + Len(c.used) + i - 1)
    BY <1>4, <1>6
  <2>1. CASE i <= Len(c.unused)
    BY <1>1, <1>4, <2>1 DEF Order
  <2>2. CASE ~(i <= Len(c.unused))
    <3>1. i - Len(c.unused) \in 1..c.curFetching
          /\ Len(c.unused) + (i - Len(c.unused)) = i
      BY <1>1, <2>2
    <3>2. fetched[i - Len(c.unused)] = Wrap(c.head + Len(c.used) + i - 1)
      BY <1>2, <3>1
    <3> QED BY <1>4, <2>2, <3>2
  <2> QED BY <2>1, <2>2
<1>8. AccountOf(v, l, k) /\ Order(v) /\ Events(v)
  <2> HIDE DEF v, fetched, q
  <2> QED BY <1>4, <1>5, <1>6, <1>7 DEF AccountOf, Order, Events
<1> QED BY <1>6, <1>8 DEF More

\* What is left of a sequence without its first w elements, as wbComplete()
\* leaves usedCache.
LEMMA DropFront ==
    ASSUME NEW S, NEW s \in Seq(S), NEW w \in Nat, w <= Len(s)
    PROVE  /\ SubSeq(s, w + 1, Len(s)) \in Seq(S)
           /\ Len(SubSeq(s, w + 1, Len(s))) = Len(s) - w
           /\ \A i \in 1..(Len(s) - w) : SubSeq(s, w + 1, Len(s))[i] = s[w + i]
<1>1. Len(s) \in Nat /\ \A i \in 1..Len(s) : s[i] \in S
  OBVIOUS
<1>2. \A i \in (w + 1)..Len(s) : s[i] \in S
  BY <1>1
<1>3. w + 1 \in Int /\ Len(s) \in Int
  BY <1>1
<1> DEFINE t == SubSeq(s, w + 1, Len(s))
<1>4. /\ t \in Seq(S)
      /\ Len(t) = IF w + 1 <= Len(s) THEN Len(s) - (w + 1) + 1 ELSE 0
      /\ \A i \in 1..(Len(s) - (w + 1) + 1) : t[i] = s[(w + 1) + i - 1]
  BY <1>2, <1>3, SubSeqProperties
<1> HIDE DEF t
<1>5. Len(t) = Len(s) - w
  BY <1>1, <1>4
<1>6. Len(s) - (w + 1) + 1 = Len(s) - w
  BY <1>1
<1>7. \A i \in 1..(Len(s) - w) : (w + 1) + i - 1 = w + i
  BY <1>1
<1>8. \A i \in 1..(Len(s) - w) : t[i] = s[w + i]
  BY <1>4, <1>6, <1>7
<1> QED BY <1>4, <1>5, <1>8, Zenon DEF t

\* wbComplete() up to the head update: the head passes the returned slots.
LEMMA RetiredRing ==
    ASSUME NEW c, NEW k \in Slots, RingInv(c, c.wbOut, k)
    PROVE  /\ RingInv(retireWb(c), 0, k)
           /\ retireWb(c).head = Wrap(c.head + c.wbOut)
           /\ retireWb(c).wbOut = 0
<1> DEFINE v == retireWb(c)
           rest == SubSeq(c.used, c.wbOut + 1, Len(c.used))
<1> USE DEF RingInv
<1>1. /\ c \in DescState /\ c.head \in Slots /\ c.tail \in Slots
      /\ c.cachePnt \in Slots /\ c.curFetching \in Nat /\ c.wbOut \in Nat
      /\ c.used \in Seq(Slots) /\ Len(c.used) \in Nat /\ Len(c.unused) \in Nat
  BY MemberTypes
<1>2. Shifts(c.head, c.wbOut, Len(c.used), Len(c.unused))
  BY <1>1, RetiredSlot DEF AccountOf
<1>3. /\ Wrap(c.head + c.wbOut) \in Slots /\ Len(c.used) - c.wbOut \in Nat
      /\ Account(Wrap(c.head + c.wbOut), c.tail, c.cachePnt, Len(c.used) - c.wbOut,
                 Len(c.unused), c.curFetching, 0, 0, k)
  BY <1>1, RetiredAccount DEF AccountOf
<1>4. /\ rest \in Seq(Slots)
      /\ Len(rest) = Len(c.used) - c.wbOut
      /\ \A i \in 1..(Len(c.used) - c.wbOut) : rest[i] = c.used[c.wbOut + i]
  <2>1. c.wbOut <= Len(c.used)
    BY <1>1, <1>3
  <2> QED BY <1>1, <2>1, DropFront
<1>5. /\ v \in DescState
      /\ v.head = Wrap(c.head + c.wbOut) /\ v.tail = c.tail
      /\ v.cachePnt = c.cachePnt /\ v.used = rest /\ v.unused = c.unused
      /\ v.curFetching = c.curFetching /\ v.fetchEv = c.fetchEv
      /\ v.wbOut = 0 /\ v.wbEv = "none"
  <2> HIDE DEF rest
  <2>1. v = [c EXCEPT !.used = rest, !.head = Wrap(c.head + c.wbOut),
                      !.wbOut = 0, !.wbEv = "none"]
    BY DEF retireWb, rest
  <2> HIDE DEF v
  <2> QED BY <1>1, <1>3, <1>4, <2>1 DEF DescState, EventState
<1> HIDE DEF v, rest
<1>6. \A i \in 1..Len(v.used) : v.used[i] = Wrap(v.head + i - 1)
  <2> SUFFICES ASSUME NEW i \in 1..(Len(c.used) - c.wbOut)
               PROVE  rest[i] = Wrap(Wrap(c.head + c.wbOut) + i - 1)
    BY <1>4, <1>5
  <2>1. /\ c.wbOut + i \in 1..Len(c.used)
        /\ i \in 1..((Len(c.used) - c.wbOut) + Len(c.unused))
    BY <1>1, <1>3
  <2>2. c.used[c.wbOut + i] = Wrap(c.head + (c.wbOut + i) - 1)
    BY <2>1 DEF Order
  <2> QED BY <1>2, <1>4, <2>1, <2>2 DEF Shifts
<1>7. \A i \in 1..Len(v.unused) : v.unused[i] = Wrap(v.head + Len(v.used) + i - 1)
  <2> SUFFICES ASSUME NEW i \in 1..Len(c.unused)
               PROVE  c.unused[i] = Wrap(Wrap(c.head + c.wbOut)
                                            + (Len(c.used) - c.wbOut) + i - 1)
    BY <1>4, <1>5
  <2> DEFINE j == (Len(c.used) - c.wbOut) + i
  <2>1. /\ j \in 1..((Len(c.used) - c.wbOut) + Len(c.unused))
        /\ c.head + (c.wbOut + j) - 1 = c.head + Len(c.used) + i - 1
        /\ Wrap(c.head + c.wbOut) + (Len(c.used) - c.wbOut) + i - 1
             = Wrap(c.head + c.wbOut) + j - 1
    <3>1. /\ c.head \in Nat /\ c.wbOut \in Nat /\ Len(c.used) - c.wbOut \in Nat
          /\ Len(c.used) \in Nat /\ Len(c.unused) \in Nat
          /\ Wrap(c.head + c.wbOut) \in Nat
      BY <1>1, <1>3 DEF Slots
    <3> HIDE DEF RingInv
    <3>2. j \in 1..((Len(c.used) - c.wbOut) + Len(c.unused))
      BY <3>1
    <3>3. c.head + (c.wbOut + j) - 1 = c.head + Len(c.used) + i - 1
      <4> DEFINE h == c.head  w == c.wbOut  u == Len(c.used)
      <4>1. h \in Int /\ w \in Int /\ u \in Int /\ i \in Int
        BY <3>1
      <4> HIDE DEF h, w, u
      <4>2. h + (w + ((u - w) + i)) - 1 = h + u + i - 1
        BY <4>1
      <4> QED BY <4>2 DEF h, w, u
    <3>4. Wrap(c.head + c.wbOut) + (Len(c.used) - c.wbOut) + i - 1
             = Wrap(c.head + c.wbOut) + j - 1
      BY <3>1
    <3> QED BY <3>2, <3>3, <3>4
  <2>2. c.unused[i] = Wrap(c.head + Len(c.used) + i - 1)
    BY DEF Order
  <2> HIDE DEF j
  <2>3. Wrap(c.head + (c.wbOut + j) - 1) = Wrap(Wrap(c.head + c.wbOut) + j - 1)
    BY <1>2, <2>1 DEF Shifts
  <2> QED BY <2>1, <2>2, <2>3
<1>8. AccountOf(v, 0, k) /\ Order(v) /\ Events(v)
  BY <1>3, <1>4, <1>5, <1>6, <1>7 DEF AccountOf, Order, Events
<1> QED BY <1>5, <1>8 DEF v

\* wbComplete(), with the writeback and the fetch that may follow the head
\* update; `landed' restarts at 0.
LEMMA WbCompleteRing ==
    ASSUME NEW c, NEW k \in Slots, NEW fetchToo \in BOOLEAN, RingInv(c, c.wbOut, k)
    PROVE  /\ RingInv(wbComplete(c, fetchToo), 0, k)
           /\ More(wbComplete(c, fetchToo))
           /\ wbComplete(c, fetchToo).head = Wrap(c.head + c.wbOut)
<1> DEFINE r == retireWb(c)
           s == [r EXCEPT !.moreToWb = FALSE]
           a == continueWb(r)
<1>1. RingInv(r, 0, k) /\ r.head = Wrap(c.head + c.wbOut) /\ r.wbOut = 0
  BY RetiredRing
<1>2. r \in DescState
  BY <1>1 DEF RingInv
<1> HIDE DEF r
<1>3. RingInv(a, 0, k) /\ More(a) /\ a.head = r.head
  <2>1. CASE r.moreToWb
    <3>1. a = writeback(s, r.wbAlign)
      BY <2>1 DEF continueWb
    <3>2. /\ s \in DescState
          /\ s.head = r.head /\ s.tail = r.tail /\ s.cachePnt = r.cachePnt
          /\ s.used = r.used /\ s.unused = r.unused
          /\ s.curFetching = r.curFetching /\ s.fetchEv = r.fetchEv
          /\ s.wbOut = r.wbOut /\ s.wbEv = r.wbEv
      BY <1>2 DEF DescState
    <3> HIDE DEF s, a
    <3>3. RingInv(s, 0, k) /\ s.wbOut = 0
      BY <1>1, <3>2 DEF RingInv, AccountOf, Order, Events
    <3>4. r.wbAlign \in 0..3
      BY <1>2, MemberTypes
    <3>5. writeback(s, r.wbAlign) = writebackIdle(s, r.wbAlign)
      BY <3>3 DEF writeback
    <3>6. writeback(s, r.wbAlign).head = s.head
      BY <3>2, <3>5 DEF writebackIdle, DescState
    <3>7. RingInv(writeback(s, r.wbAlign), 0, k) /\ More(writeback(s, r.wbAlign))
      BY <3>3, <3>4, WritebackRing
    <3> QED BY <3>1, <3>2, <3>6, <3>7
  <2>2. CASE ~r.moreToWb
    BY <1>1, <2>2 DEF continueWb, More
  <2> QED BY <2>1, <2>2
<1> HIDE DEF a
<1>4. wbComplete(c, fetchToo) = IF fetchToo THEN fetchDescriptors(a) ELSE a
  BY DEF wbComplete, a, r
<1>5. CASE fetchToo
  BY <1>1, <1>3, <1>4, <1>5, FetchRing
<1>6. CASE ~fetchToo
  BY <1>1, <1>3, <1>4, <1>6
<1> QED BY <1>5, <1>6

\* The front unused descriptor becomes the last used one.
LEMMA UseFrontRing ==
    ASSUME NEW c, NEW l \in Nat, NEW k \in Slots, RingInv(c, l, k), c.unused # <<>>
    PROVE  /\ RingInv(useFront(c), l, k)
           /\ More(c) => More(useFront(c))
           /\ useFront(c).head = c.head
<1> DEFINE v == useFront(c)
           us == Append(c.used, Head(c.unused))
           un == Tail(c.unused)
<1> USE DEF RingInv
<1>1. /\ c \in DescState /\ c.head \in Slots /\ c.tail \in Slots
      /\ c.cachePnt \in Slots /\ c.curFetching \in Nat /\ c.wbOut \in Nat
      /\ c.used \in Seq(Slots) /\ c.unused \in Seq(Slots)
      /\ Len(c.used) \in Nat /\ Len(c.unused) \in Nat
  BY MemberTypes
<1>2. Len(c.unused) > 0 /\ Head(c.unused) \in Slots /\ Head(c.unused) = c.unused[1]
  BY <1>1
<1>3. /\ us \in Seq(Slots) /\ Len(us) = Len(c.used) + 1
      /\ \A i \in 1..Len(c.used) : us[i] = c.used[i]
      /\ us[Len(c.used) + 1] = c.unused[1]
  BY <1>1, <1>2, AppendProperties
<1>4. /\ un \in Seq(Slots) /\ Len(un) = Len(c.unused) - 1
      /\ \A i \in 1..(Len(c.unused) - 1) : un[i] = c.unused[i + 1]
  BY <1>1, <1>2, HeadTailProperties
<1>5. Account(c.head, c.tail, c.cachePnt, Len(c.used) + 1, Len(c.unused) - 1,
              c.curFetching, c.wbOut, l, k)
  BY <1>1, <1>2, UsedAccount DEF AccountOf
<1>6. /\ v \in DescState
      /\ v.head = c.head /\ v.tail = c.tail /\ v.cachePnt = c.cachePnt
      /\ v.used = us /\ v.unused = un
      /\ v.curFetching = c.curFetching /\ v.fetchEv = c.fetchEv
      /\ v.wbOut = c.wbOut /\ v.wbEv = c.wbEv /\ v.moreToWb = c.moreToWb
  <2> HIDE DEF us, un
  <2>1. v = [c EXCEPT !.used = us, !.unused = un]
    BY DEF useFront, us, un
  <2> HIDE DEF v
  <2> QED BY <1>1, <1>3, <1>4, <2>1 DEF DescState
<1> HIDE DEF v, us, un
<1>7. c.unused[1] = Wrap(c.head + (Len(c.used) + 1) - 1)
  <2>1. 1 \in 1..Len(c.unused) /\ Len(c.used) + 1 - 1 = (Len(c.used) + 1) - 1
    BY <1>1, <1>2
  <2>2. c.unused[1] = Wrap(c.head + Len(c.used) + 1 - 1)
    BY <2>1 DEF Order
  <2>3. c.head + Len(c.used) + 1 - 1 = c.head + (Len(c.used) + 1) - 1
    BY <1>1 DEF Slots
  <2> QED BY <2>2, <2>3
<1>8. \A i \in 1..Len(us) : us[i] = Wrap(c.head + i - 1)
  <2> TAKE i \in 1..Len(us)
  <2>1. CASE i \in 1..Len(c.used)
    BY <1>3, <2>1 DEF Order
  <2>2. CASE i = Len(c.used) + 1
    BY <1>3, <1>7, <2>2
  <2> QED BY <1>1, <1>3, <2>1, <2>2
<1>9. \A i \in 1..Len(un) : un[i] = Wrap(c.head + Len(us) + i - 1)
  <2> TAKE i \in 1..Len(un)
  <2>1. /\ i \in 1..(Len(c.unused) - 1) /\ i + 1 \in 1..Len(c.unused)
        /\ c.head + Len(c.used) + (i + 1) - 1 = c.head + (Len(c.used) + 1) + i - 1
    <3>1. c.head \in Nat
      BY <1>1 DEF Slots
    <3> HIDE DEF RingInv
    <3>2. i \in 1..(Len(c.unused) - 1) 
      BY <1>1, <1>4, <3>1
    <3>3. i + 1 \in 1..Len(c.unused)
      BY <1>1, <1>4, <3>1
    <3>4. c.head + Len(c.used) + (i + 1) - 1 = c.head + (Len(c.used) + 1) + i - 1
      BY <1>1, <1>4, <3>1
    <3> QED BY <3>2, <3>3, <3>4
  <2>2. c.unused[i + 1] = Wrap(c.head + Len(c.used) + (i + 1) - 1)
    BY <2>1 DEF Order
  <2> QED BY <1>3, <1>4, <2>1, <2>2
<1>10. AccountOf(v, l, k) /\ Order(v) /\ Events(v)
  BY <1>3, <1>4, <1>5, <1>6, <1>8, <1>9 DEF AccountOf, Order, Events
<1> QED BY <1>6, <1>10 DEF More, v

\* Writing the tail register, before the fetch it may start.
LEMMA TailRing ==
    ASSUME NEW c, NEW l \in Nat, NEW k \in Slots, NEW j \in Nat, RingInv(c, l, k),
           Dist(k, c.tail) + j < RingLen
    PROVE  LET v == [c EXCEPT !.tail = Wrap(c.tail + j)]
           IN RingInv(v, l, k) /\ (More(c) => More(v)) /\ v.head = c.head
<1> DEFINE v == [c EXCEPT !.tail = Wrap(c.tail + j)]
<1> USE DEF RingInv
<1>1. /\ c \in DescState /\ c.head \in Slots /\ c.tail \in Slots
      /\ c.cachePnt \in Slots /\ c.curFetching \in Nat /\ c.wbOut \in Nat
      /\ Len(c.used) \in Nat /\ Len(c.unused) \in Nat
  BY MemberTypes
<1>2. /\ Wrap(c.tail + j) \in Slots
      /\ Account(c.head, Wrap(c.tail + j), c.cachePnt, Len(c.used), Len(c.unused),
                 c.curFetching, c.wbOut, l, k)
  BY <1>1, PostAccount DEF AccountOf
<1>3. /\ v \in DescState
      /\ v.head = c.head /\ v.tail = Wrap(c.tail + j) /\ v.cachePnt = c.cachePnt
      /\ v.used = c.used /\ v.unused = c.unused
      /\ v.curFetching = c.curFetching /\ v.fetchEv = c.fetchEv
      /\ v.wbOut = c.wbOut /\ v.wbEv = c.wbEv /\ v.moreToWb = c.moreToWb
  BY <1>1, <1>2 DEF DescState
<1> HIDE DEF v
<1>4. AccountOf(v, l, k) /\ Order(v) /\ Events(v)
  BY <1>2, <1>3 DEF AccountOf, Order, Events
<1> QED BY <1>3, <1>4 DEF More, v

----------------------------------------------------------------------------
(* The done bits.                                                          *)

\* Which slots carry a done bit, for a driver at k and a card whose first
\* unreturned slot is b.
Returned(k, b) == {s \in Slots : Dist(k, s) < Dist(k, b)}

OneMoreReturned(k, h, l) ==
    /\ h + l \in Slots
    /\ Returned(k, Wrap(h + (l + 1))) = Returned(k, Wrap(h + l)) \cup {h + l}

\* Landing a descriptor adds exactly its slot to the returned ones.
LEMMA ReturnedLanded ==
    ASSUME NEW h \in Slots, NEW t \in Slots, NEW p \in Slots, NEW k \in Slots,
           NEW u \in Nat, NEW n \in Nat, NEW f \in Nat, NEW w \in Nat, NEW l \in Nat,
           l < w, Account(h, t, p, u, n, f, w, l, k)
    PROVE  OneMoreReturned(k, h, l)
<1>1. h + l \in Slots
  BY RingAssumption, CacheAssumption DEF Account, Slots
<1>2. \A s \in Slots : Dist(k, s) < Dist(k, Wrap(h + (l + 1)))
                          <=> Dist(k, s) < Dist(k, Wrap(h + l)) \/ s = h + l
  BY RingAssumption, CacheAssumption DEF Account, Wrap, Dist, Slots
<1> QED BY <1>1, <1>2 DEF Returned, OneMoreReturned

\* Reaping a slot removes exactly that slot.
LEMMA ReturnedReaped ==
    ASSUME NEW k \in Slots, NEW b \in Slots, Dist(k, b) > 0
    PROVE  Returned(Wrap(k + 1), b) = Returned(k, b) \ {k}
<1>1. \A s \in Slots : Dist(Wrap(k + 1), s) < Dist(Wrap(k + 1), b)
                          <=> Dist(k, s) < Dist(k, b) /\ s # k
  BY RingAssumption DEF Wrap, Dist, Slots
<1> QED BY <1>1 DEF Returned

----------------------------------------------------------------------------
(* The ring as a whole: the record c, l of its outgoing descriptors landed,*)
(* the done bits b in memory, and the driver at slot k.                    *)

RingState(c, l, b, k) ==
    /\ l \in Nat /\ k \in Slots /\ b \in [Slots -> BOOLEAN]
    /\ RingInv(c, l, k) /\ More(c)
    /\ \A s \in Slots : b[s] <=> s \in Returned(k, Wrap(c.head + l))

\* What the ring state says of the numbers.
LEMMA Numbers ==
    ASSUME NEW c, NEW l, NEW b, NEW k, RingState(c, l, b, k)
    PROVE  /\ c \in DescState /\ c.head \in Slots /\ c.tail \in Slots
           /\ c.cachePnt \in Slots /\ c.curFetching \in Nat /\ c.wbOut \in Nat
           /\ Len(c.used) \in Nat /\ Len(c.unused) \in Nat
           /\ l \in Nat /\ k \in Slots
           /\ Account(c.head, c.tail, c.cachePnt, Len(c.used), Len(c.unused),
                      c.curFetching, c.wbOut, l, k)
BY MemberTypes DEF RingState, RingInv, AccountOf

\* A step that keeps the ring invariant and the head keeps the done bits exact.
LEMMA SameHead ==
    ASSUME NEW c, NEW v, NEW l, NEW b, NEW k, RingState(c, l, b, k),
           RingInv(v, l, k), More(v), v.head = c.head
    PROVE  RingState(v, l, b, k)
BY DEF RingState

\* The empty ring, at reset and after areaChanged().
LEMMA EmptyState ==
    ASSUME NEW c \in DescState, c.head = 0, c.tail = 0, c.cachePnt = 0,
           c.used = <<>>, c.unused = <<>>, c.curFetching = 0, c.wbOut = 0,
           c.fetchEv = "none", c.wbEv = "none", ~c.moreToWb
    PROVE  RingState(c, 0, [s \in Slots |-> FALSE], 0)
<1>1. Len(<<>>) = 0
  OBVIOUS
<1>2. Account(0, 0, 0, 0, 0, 0, 0, 0, 0) /\ 0 \in Slots
  BY RingAssumption, CacheAssumption DEF Account, Wrap, Dist, Slots
<1>3. AccountOf(c, 0, 0)
  BY <1>1, <1>2 DEF AccountOf
<1>4. Order(c) /\ Events(c)
  BY <1>1 DEF Order, Events
<1>5. Wrap(0) = 0 /\ \A s \in Slots : ~(Dist(0, s) < Dist(0, 0))
  BY RingAssumption DEF Dist, Wrap, Slots
<1>6. c.head + 0 = 0
  OBVIOUS
<1>7. \A s \in Slots : s \notin Returned(0, Wrap(c.head + 0))
  BY <1>5, <1>6 DEF Returned
<1>8. RingInv(c, 0, 0) /\ More(c)
  BY <1>3, <1>4 DEF RingInv, More
<1> QED BY <1>2, <1>7, <1>8 DEF RingState

\* The driver reaps a slot whose done bit is set.
LEMMA ReapState ==
    ASSUME NEW c, NEW l, NEW b, NEW k, RingState(c, l, b, k), b[k]
    PROVE  RingState(c, l, [b EXCEPT ![k] = FALSE], Wrap(k + 1))
<1> DEFINE w == Wrap(c.head + l)
<1>1. /\ c.head \in Slots /\ c.tail \in Slots /\ c.cachePnt \in Slots
      /\ Len(c.used) \in Nat /\ Len(c.unused) \in Nat
      /\ c.curFetching \in Nat /\ c.wbOut \in Nat /\ l \in Nat /\ k \in Slots
  BY Numbers
<1>2. AccountOf(c, l, k)
  BY DEF RingInv, RingState
<1>3. w \in Slots
  <2>1. l <= c.wbOut /\ c.head + c.wbOut <= RingLen
    BY <1>2 DEF AccountOf, Account
  <2>2. c.head \in Nat /\ RingLen \in Nat
    BY <1>1, RingAssumption DEF Slots
  <2>3. l <= RingLen
    BY <1>1, <2>1, <2>2
  <2> QED BY <1>1, <2>3, WrapSlot
<1>4. Dist(k, w) > 0
  <2>1. k \in Returned(k, w)
    BY <1>1 DEF RingState
  <2>2. Dist(k, k) = 0 /\ Dist(k, k) < Dist(k, w)
    BY <1>1, <2>1, RingAssumption DEF Returned, Dist, Slots
  <2> QED BY <2>2
<1>5. Returned(Wrap(k + 1), w) = Returned(k, w) \ {k}
  BY <1>1, <1>3, <1>4, ReturnedReaped
<1>6. Wrap(k + 1) \in Slots /\ AccountOf(c, l, Wrap(k + 1))
  BY <1>1, <1>2, <1>4, ReapedAccount DEF AccountOf
<1>7. RingInv(c, l, Wrap(k + 1))
  BY <1>6 DEF RingInv, RingState
<1>8. \A s \in Slots : [b EXCEPT ![k] = FALSE][s] <=> s \in Returned(Wrap(k + 1), w)
  BY <1>5 DEF RingState
<1> QED BY <1>1, <1>6, <1>7, <1>8 DEF RingState

\* The next descriptor of a writeback reaches memory.
LEMMA LandState ==
    ASSUME NEW c, NEW l, NEW b, NEW k, RingState(c, l, b, k), l < c.wbOut
    PROVE  RingState(c, l + 1, [b EXCEPT ![c.head + l] = TRUE], k)
<1>1. /\ c.head \in Slots /\ c.tail \in Slots /\ c.cachePnt \in Slots
      /\ Len(c.used) \in Nat /\ Len(c.unused) \in Nat
      /\ c.curFetching \in Nat /\ c.wbOut \in Nat /\ l \in Nat /\ k \in Slots
  BY Numbers
<1>2. AccountOf(c, l, k)
  BY DEF RingInv, RingState
<1>3. AccountOf(c, l + 1, k)
  BY <1>1, <1>2, LandedAccount DEF AccountOf
<1>4. OneMoreReturned(k, c.head, l)
  BY <1>1, <1>2, ReturnedLanded DEF AccountOf
<1>5. /\ c.head + l \in Slots
      /\ Returned(k, Wrap(c.head + (l + 1)))
           = Returned(k, Wrap(c.head + l)) \cup {c.head + l}
  BY <1>4 DEF OneMoreReturned
<1>6. RingInv(c, l + 1, k)
  BY <1>3 DEF RingInv, RingState
<1>7. \A s \in Slots : [b EXCEPT ![c.head + l] = TRUE][s]
                          <=> b[s] \/ s = c.head + l
  BY <1>5 DEF RingState
<1>8. \A s \in Slots : [b EXCEPT ![c.head + l] = TRUE][s]
                          <=> s \in Returned(k, Wrap(c.head + (l + 1)))
  BY <1>5, <1>7 DEF RingState
<1>9. [b EXCEPT ![c.head + l] = TRUE] \in [Slots -> BOOLEAN] /\ l + 1 \in Nat
  <2>1. b \in [Slots -> BOOLEAN]
    BY DEF RingState
  <2>2. [b EXCEPT ![c.head + l] = TRUE] \in [Slots -> BOOLEAN]
    BY <2>1
  <2>3. l + 1 \in Nat
    BY <1>1
  <2> QED BY <2>2, <2>3
<1> QED BY <1>1, <1>6, <1>8, <1>9 DEF RingState

\* wbEvent: the whole writeback has landed.
LEMMA CompleteState ==
    ASSUME NEW c, NEW b, NEW k, NEW fetchToo \in BOOLEAN,
           RingState(c, c.wbOut, b, k)
    PROVE  RingState(wbComplete(c, fetchToo), 0, b, k)
<1> DEFINE v == wbComplete(c, fetchToo)
<1>1. RingInv(v, 0, k) /\ More(v) /\ v.head = Wrap(c.head + c.wbOut)
  BY WbCompleteRing DEF RingState
<1> HIDE DEF v
<1>2. v.head \in Slots
  BY <1>1, MemberTypes DEF RingInv
<1>3. Wrap(v.head + 0) = v.head
  BY <1>2, RingAssumption DEF Wrap, Slots
<1>4. Wrap(v.head + 0) = Wrap(c.head + c.wbOut)
  BY <1>1, <1>3
<1>5. RingState(v, 0, b, k)
  BY <1>1, <1>4 DEF RingState
<1> QED BY <1>5 DEF v

\* writeback1() and fetchDescriptors1() issue their DMA.
LEMMA IssueState ==
    ASSUME NEW c, NEW v, NEW l, NEW b, NEW k, RingState(c, l, b, k),
           \/ c.wbEv = "delay" /\ v = [c EXCEPT !.wbEv = "dma"]
           \/ c.fetchEv = "delay" /\ v = [c EXCEPT !.fetchEv = "dma"]
    PROVE  RingState(v, l, b, k)
<1>1. c \in DescState
  BY Numbers
<1>2. /\ v \in DescState
      /\ v.head = c.head /\ v.tail = c.tail /\ v.cachePnt = c.cachePnt
      /\ v.used = c.used /\ v.unused = c.unused
      /\ v.curFetching = c.curFetching /\ v.wbOut = c.wbOut
      /\ v.fetchEv # "none" <=> c.fetchEv # "none"
      /\ v.wbEv # "none" <=> c.wbEv # "none"
      /\ v.moreToWb = c.moreToWb
  BY <1>1 DEF DescState, EventState
<1>3. RingInv(v, l, k) /\ More(v)
  BY <1>2 DEF RingState, RingInv, AccountOf, Order, Events, More
<1> QED BY <1>2, <1>3, SameHead

\* The driver posts j slots; the card may start a fetch.
LEMMA PostState ==
    ASSUME NEW c, NEW v, NEW l, NEW b, NEW k, NEW j \in Nat,
           RingState(c, l, b, k), Dist(k, c.tail) + j < RingLen,
           LET t == [c EXCEPT !.tail = Wrap(c.tail + j)]
           IN v \in {t, fetchDescriptors(t)}
    PROVE  RingState(v, l, b, k)
<1> DEFINE t == [c EXCEPT !.tail = Wrap(c.tail + j)]
<1>1. RingInv(t, l, k) /\ More(t) /\ t.head = c.head
  BY TailRing DEF RingState
<1>2. v \in {t, fetchDescriptors(t)} /\ l \in Nat /\ k \in Slots
  BY DEF RingState
<1> HIDE DEF t
<1>3. RingInv(v, l, k) /\ More(v) /\ v.head = c.head
  BY <1>1, <1>2, FetchRing
<1> QED BY <1>3, SameHead

\* A tick of the state machine: a forced writeback, an aligned one, a fetch.
LEMMA TickState ==
    ASSUME NEW c, NEW l, NEW b, NEW k, RingState(c, l, b, k),
           NEW f \in {c, writeback(c, 0)},
           NEW a \in {f} \cup {writeback(f, m) : m \in Masks},
           NEW v \in {a, fetchDescriptors(a)}
    PROVE  RingState(v, l, b, k)
<1>1. l \in Nat /\ k \in Slots /\ RingInv(c, l, k) /\ More(c)
  BY DEF RingState
<1>2. RingInv(f, l, k) /\ More(f) /\ f.head = c.head
  BY <1>1, WritebackRing
<1>3. RingInv(a, l, k) /\ More(a) /\ a.head = f.head
  BY <1>1, <1>2, WritebackRing, MaskAssumption
<1>4. RingInv(v, l, k) /\ More(v) /\ v.head = c.head
  BY <1>1, <1>2, <1>3, FetchRing
<1> QED BY <1>4, SameHead

\* The front descriptor is used; fetched descriptors arrive.
LEMMA UseState ==
    ASSUME NEW c, NEW l, NEW b, NEW k, RingState(c, l, b, k), c.unused # <<>>
    PROVE  RingState(useFront(c), l, b, k)
BY UseFrontRing, SameHead DEF RingState

LEMMA FetchedState ==
    ASSUME NEW c, NEW l, NEW b, NEW k, RingState(c, l, b, k)
    PROVE  RingState(fetchComplete(c), l, b, k)
BY FetchedRing, SameHead DEF RingState

----------------------------------------------------------------------------
(* What the member functions leave alone: the descriptors a packet is      *)
(* about to use, and the DMAs in flight.                                   *)

\* writeback() and fetchDescriptors() leave the unused descriptors alone.
LEMMA KeepUnused ==
    ASSUME NEW c \in DescState, NEW m
    PROVE  /\ writeback(c, m).unused = c.unused
           /\ fetchDescriptors(c).unused = c.unused
BY DEF writeback, writebackBusy, writebackIdle, fetchDescriptors, DescState

\* fetchComplete() only adds to them.
LEMMA FetchedUnused ==
    ASSUME NEW c \in DescState, c.unused # <<>>
    PROVE  fetchComplete(c).unused # <<>>
<1> DEFINE fetched == [i \in 1..c.curFetching |-> c.cachePnt + i - 1]
<1>1. c.unused \in Seq(Slots) /\ c.curFetching \in Nat /\ c.cachePnt \in Nat
  BY MemberTypes DEF Slots
<1>2. fetched \in Seq(Int)
  BY <1>1
<1>3. fetchComplete(c).unused = c.unused \o fetched
  BY DEF fetchComplete, DescState
<1>4. c.unused \in Seq(Int)
  <2>1. Len(c.unused) \in Nat /\ c.unused = [i \in 1..Len(c.unused) |-> c.unused[i]]
        /\ \A i \in 1..Len(c.unused) : c.unused[i] \in Slots
    BY <1>1, LenProperties
  <2>2. \A i \in 1..Len(c.unused) : c.unused[i] \in Int
    BY <2>1 DEF Slots
  <2>3. [i \in 1..Len(c.unused) |-> c.unused[i]] \in Seq(Int)
    BY <2>1, <2>2, IsASeq
  <2> QED BY <2>1, <2>3
<1> HIDE DEF fetched
<1>5. Len(c.unused \o fetched) = Len(c.unused) + Len(fetched)
      /\ Len(c.unused) \in Nat /\ Len(fetched) \in Nat
  BY <1>2, <1>4, ConcatProperties, LenProperties
<1>6. Len(c.unused) > 0
  BY <1>1, <1>5, EmptySeq
<1>7. Len(<<>>) = 0
  OBVIOUS
<1> QED BY <1>3, <1>5, <1>6, <1>7

\* The DMAs of v are those of c, and a writeback in flight has its length.
KeepsDmas(c, v) ==
    /\ v.wbEv = "dma" <=> c.wbEv = "dma"
    /\ c.wbEv = "dma" => v.wbOut = c.wbOut
    /\ v.fetchEv = "dma" <=> c.fetchEv = "dma"

\* A call of writeback() or fetchDescriptors() may only start a delay event.
LEMMA CallsKeepDmas ==
    ASSUME NEW c, NEW l, NEW b, NEW k, RingState(c, l, b, k), NEW m
    PROVE  KeepsDmas(c, writeback(c, m)) /\ KeepsDmas(c, fetchDescriptors(c))
<1>1. /\ c \in DescState /\ c.wbOut \in Nat /\ c.curFetching \in Nat
      /\ c.wbOut > 0 <=> c.wbEv # "none"
      /\ c.curFetching > 0 <=> c.fetchEv # "none"
  BY Numbers DEF RingState, RingInv, Events
<1>2. KeepsDmas(c, writeback(c, m))
  <2>1. CASE c.wbOut > 0
    BY <1>1, <2>1 DEF KeepsDmas, writeback, writebackBusy, DescState
  <2>2. CASE ~(c.wbOut > 0)
    <3>1. writeback(c, m) = writebackIdle(c, m) /\ c.wbEv = "none"
      BY <1>1, <2>2 DEF writeback
    <3>2. writebackIdle(c, m).wbEv # "dma" /\ writebackIdle(c, m).fetchEv = c.fetchEv
      BY <1>1 DEF writebackIdle, DescState
    <3> QED BY <3>1, <3>2 DEF KeepsDmas
  <2> QED BY <2>1, <2>2
<1>3. KeepsDmas(c, fetchDescriptors(c))
  BY <1>1 DEF KeepsDmas, fetchDescriptors, DescState
<1> QED BY <1>2, <1>3

\* Using the front descriptor touches no DMA.
LEMMA UseKeepsDmas ==
    ASSUME NEW c \in DescState
    PROVE  KeepsDmas(c, useFront(c))
BY DEF KeepsDmas, useFront, DescState

\* wbComplete() ends the writeback, and leaves fetches and unused descriptors alone.
LEMMA WbCompleteKeeps ==
    ASSUME NEW c, NEW l, NEW b, NEW k, RingState(c, l, b, k), l = c.wbOut, c.wbEv = "dma",
           NEW f \in BOOLEAN
    PROVE  /\ wbComplete(c, f).wbEv # "dma"
           /\ wbComplete(c, f).fetchEv = "dma" <=> c.fetchEv = "dma"
           /\ wbComplete(c, f).unused = c.unused
<1> DEFINE r == retireWb(c)
           q == [r EXCEPT !.moreToWb = FALSE]
           w == continueWb(r)
<1>1. RingInv(r, 0, k) /\ r.unused = c.unused /\ r.fetchEv = c.fetchEv
      /\ r.wbOut = 0 /\ r.wbEv = "none"
  <2>1. RingInv(r, 0, k)
    BY RetiredRing DEF RingState
  <2> QED BY <2>1, Numbers DEF retireWb, DescState
<1>2. r \in DescState
  BY <1>1 DEF RingInv
<1> HIDE DEF r
<1>3. q \in DescState /\ q.unused = r.unused /\ q.fetchEv = r.fetchEv /\ q.wbOut = 0
  BY <1>1, <1>2 DEF DescState
<1> HIDE DEF q
<1>4. ASSUME NEW m
      PROVE  /\ writeback(q, m).wbEv # "dma" /\ writeback(q, m).fetchEv = q.fetchEv
             /\ writeback(q, m).unused = q.unused
  BY <1>3 DEF writeback, writebackIdle, DescState
<1>5. w.wbEv # "dma" /\ w.fetchEv = c.fetchEv /\ w.unused = c.unused
  BY <1>1, <1>3, <1>4 DEF continueWb, q
<1>6. RingState(w, 0, b, k)
  <2>1. RingState(wbComplete(c, FALSE), 0, b, k)
    BY CompleteState
  <2> QED BY <2>1 DEF wbComplete, r
<1> HIDE DEF w
<1>7. KeepsDmas(w, fetchDescriptors(w)) /\ fetchDescriptors(w).unused = w.unused
  BY <1>6, CallsKeepDmas, KeepUnused, Numbers
<1>8. wbComplete(c, f) = IF f THEN fetchDescriptors(w) ELSE w
  BY DEF wbComplete, w, r
<1> QED BY <1>5, <1>7, <1>8 DEF KeepsDmas
=============================================================================
