--------------------------- MODULE DescRingProofs ---------------------------
(***************************************************************************)
(* The theorems about DescRing, for every ring length, cache size and set  *)
(* of alignment masks: the lemmas about the member functions, combined     *)
(* into one inductive invariant, and the properties that follow from it.   *)
(***************************************************************************)
EXTENDS DescRing, DescCacheProofs

\* The inductive invariant.  The properties speak of parts of it; none of them
\* is inductive alone, because each member function reads all the counters.
IInv == running \in BOOLEAN /\ RingState(d, landed, dd, clean)

\* The initial state satisfies the inductive invariant.
LEMMA InitIInv == Init => IInv
<1> SUFFICES ASSUME Init PROVE IInv
  OBVIOUS
<1>1. 0 \in Slots /\ <<>> \in Seq(Slots)
  BY RingAssumption DEF Slots
<1>2. EmptyDesc \in DescState
  BY <1>1 DEF EmptyDesc, DescState, EventState
<1>3. RingState(EmptyDesc, 0, [s \in Slots |-> FALSE], 0)
  BY <1>2, EmptyState DEF EmptyDesc
<1> QED BY <1>3 DEF Init, IInv

\* Every step preserves the inductive invariant.
LEMMA StepIInv == IInv /\ [Next]_vars => IInv'
<1> SUFFICES ASSUME IInv, [Next]_vars PROVE IInv'
  OBVIOUS
<1> USE DEF IInv
<1>1. ASSUME NEW j \in 1..(RingLen - 1), WriteTail(j) PROVE IInv'
  <2>1. j \in Nat
    OBVIOUS
  <2> QED BY <1>1, <2>1, PostState DEF WriteTail
<1>2. CASE DriverReap
  BY <1>2, ReapState DEF DriverReap
<1>3. CASE AreaChanged
  <2> DEFINE c == [reset(d) EXCEPT !.head = 0, !.tail = 0]
  <2>1. d \in DescState
    BY Numbers
  <2>2. c \in DescState
    <3>1. 0 \in Slots /\ <<>> \in Seq(Slots)
      BY RingAssumption DEF Slots
    <3> QED BY <2>1, <3>1 DEF reset, DescState
  <2>3. /\ c.head = 0 /\ c.tail = 0 /\ c.cachePnt = 0 /\ c.used = <<>>
        /\ c.unused = <<>> /\ c.curFetching = d.curFetching /\ c.wbOut = d.wbOut
        /\ c.fetchEv = d.fetchEv /\ c.wbEv = d.wbEv /\ c.moreToWb = d.moreToWb
    BY <2>1 DEF reset, DescState
  <2>4. /\ d' = c /\ landed' = landed /\ running' = running /\ clean' = 0
        /\ dd' = [s \in Slots |-> FALSE] /\ d.curFetching = 0 /\ d.wbOut = 0
    BY <1>3 DEF AreaChanged
  <2> HIDE DEF c
  <2>5. d.fetchEv = "none" /\ d.wbEv = "none" /\ ~d.moreToWb /\ landed = 0
    <3>1. d.fetchEv = "none" /\ d.wbEv = "none"
      BY <2>4 DEF RingState, RingInv, Events
    <3>2. ~d.moreToWb
      BY <2>4 DEF RingState, More
    <3>3. landed = 0
      BY <2>4 DEF RingState, RingInv, AccountOf, Account
    <3> QED BY <3>1, <3>2, <3>3
  <2>6. RingState(c, 0, [s \in Slots |-> FALSE], 0)
    BY <2>2, <2>3, <2>4, <2>5, EmptyState
  <2> QED BY <2>4, <2>5, <2>6
<1>4. CASE SmUse
  BY <1>4, UseState DEF SmUse
<1>5. CASE SmTick
  BY <1>5, TickState DEF SmTick, SmCalls
<1>u. CASE SmUseTick
  <2>1. RingState(useFront(d), landed, dd, clean)
    BY <1>u, UseState DEF SmUseTick
  <2> QED BY <1>u, <2>1, TickState DEF SmUseTick, SmCalls
<1>6. CASE Writeback1
  BY <1>6, IssueState DEF Writeback1
<1>7. CASE FetchDescriptors1
  BY <1>7, IssueState DEF FetchDescriptors1
<1>8. CASE WbLand
  BY <1>8, LandState DEF WbLand
<1>9. CASE WbComplete
  <2>1. PICK smIdle \in BOOLEAN : d' = wbComplete(d, smIdle /\ running)
    BY <1>9 DEF WbComplete
  <2>2. (smIdle /\ running) \in BOOLEAN
    OBVIOUS
  <2>3. landed = d.wbOut /\ landed' = 0 /\ UNCHANGED <<dd, clean, running>>
    BY <1>9 DEF WbComplete
  <2> QED BY <2>1, <2>2, <2>3, CompleteState
<1>10. CASE FetchComplete
  BY <1>10, FetchedState DEF FetchComplete
<1>11. CASE DrainToggle
  BY <1>11 DEF DrainToggle
<1>12. CASE UNCHANGED vars
  BY <1>12 DEF vars
<1> QED
  BY <1>1, <1>2, <1>3, <1>4, <1>5, <1>u, <1>6, <1>7, <1>8, <1>9, <1>10, <1>11, <1>12
     DEF Next

\* The descriptor cache never leaves the inductive invariant.
THEOREM InvariantAlways == Spec => []IInv
BY InitIInv, StepIInv, PTL DEF Spec

\* The members keep their types whatever the driver, the memory system and the
\* state machine do (DescCache's members, the ring in memory, RDT/RDH).
THEOREM TypeCorrect == Spec => []TypeOK
<1>1. IInv => TypeOK
  BY DEF IInv, RingState, RingInv, TypeOK
<1> QED BY <1>1, InvariantAlways, PTL

\* No assert of writeback(), writeback1(), fetchDescriptors(),
\* fetchDescriptors1(), fetchComplete() or wbComplete() can fail.
THEOREM AssertsAlwaysHold == Spec => []AssertsHold
<1>1. ASSUME IInv PROVE AssertsHold
  BY <1>1, Numbers DEF IInv, RingState, RingInv, Account, Events, More, AssertsHold
<1> QED BY <1>1, InvariantAlways, PTL

\* usedCache, unusedCache and the fetch in flight fit the cache of
\* `size' entries, so free_cache in fetchDescriptors() never underflows.
THEOREM CacheAlwaysBounded == Spec => []CacheBounded
<1>1. ASSUME IInv PROVE CacheBounded
  BY <1>1, Numbers DEF IInv, Account, CacheBounded
<1> QED BY <1>1, InvariantAlways, PTL

\* A writeback at descHead() returns every descriptor to the slot it was
\* fetched from, in ring order.
THEOREM RingAlwaysInOrder == Spec => []RingOrder
<1>1. ASSUME IInv PROVE RingOrder
  BY <1>1, Numbers DEF IInv, RingState, RingInv, Order, Account, RingOrder
<1> QED BY <1>1, InvariantAlways, PTL

\* No posted slot is lost or duplicated between driver and card.
THEOREM SlotsAlwaysConserved == Spec => []SlotsConserved
<1>1. ASSUME IInv PROVE SlotsConserved
  BY <1>1, Numbers DEF IInv, Account, SlotsConserved, wbPnt, Pending
<1> QED BY <1>1, InvariantAlways, PTL

PostedAhead(h, t, p, u, n, f, l, k) ==
    /\ \A i \in (l + 1)..u : Dist(k, Wrap(h + i - 1)) < Dist(k, t)
    /\ \A i \in 1..n : Dist(k, Wrap(h + u + i - 1)) < Dist(k, t)
    /\ \A i \in 1..f : Dist(k, p + i - 1) < Dist(k, t)

\* Every slot from the first unreturned one to the end of the fetch in flight
\* lies before the tail.
LEMMA AccountPosted ==
    ASSUME NEW h \in Slots, NEW t \in Slots, NEW p \in Slots, NEW k \in Slots,
           NEW u \in Nat, NEW n \in Nat, NEW f \in Nat, NEW w \in Nat, NEW l \in Nat,
           Account(h, t, p, u, n, f, w, l, k)
    PROVE  PostedAhead(h, t, p, u, n, f, l, k)
<1>1. \A i \in (l + 1)..u : Dist(k, Wrap(h + i - 1)) < Dist(k, t)
  BY RingAssumption, CacheAssumption DEF Account, Wrap, Dist, Slots
<1>2. \A i \in 1..n : Dist(k, Wrap(h + u + i - 1)) < Dist(k, t)
  BY RingAssumption, CacheAssumption DEF Account, Wrap, Dist, Slots
<1>3. \A i \in 1..f : Dist(k, p + i - 1) < Dist(k, t)
  BY RingAssumption, CacheAssumption DEF Account, Wrap, Dist, Slots
<1> QED BY <1>1, <1>2, <1>3 DEF PostedAhead

\* The card holds and fetches only slots between the driver's clean position
\* and the tail register: never one the driver owns.
THEOREM OnlyPostedSlotsAlways == Spec => []OnlyPostedSlots
<1>1. ASSUME IInv PROVE OnlyPostedSlots
  <2>1. PostedAhead(d.head, d.tail, d.cachePnt, Len(d.used), Len(d.unused),
                    d.curFetching, landed, clean)
    BY <1>1, Numbers, AccountPosted DEF IInv
  <2>2. \A i \in (landed + 1)..Len(d.used) : i \in 1..Len(d.used)
    BY <1>1, Numbers DEF IInv
  <2>3. \A i \in (landed + 1)..Len(d.used) : Dist(clean, d.used[i]) < Dist(clean, d.tail)
    BY <1>1, <2>1, <2>2 DEF PostedAhead, IInv, RingState, RingInv, Order
  <2>4. \A i \in 1..Len(d.unused) : Dist(clean, d.unused[i]) < Dist(clean, d.tail)
    BY <1>1, <2>1 DEF PostedAhead, IInv, RingState, RingInv, Order
  <2>5. \A i \in 1..d.curFetching :
           Dist(clean, d.cachePnt + i - 1) < Dist(clean, d.tail)
    BY <2>1 DEF PostedAhead
  <2> QED BY <2>3, <2>4, <2>5 DEF OnlyPostedSlots
<1> QED BY <1>1, InvariantAlways, PTL

\* The done bits the driver polls are exact while wbEvent, and with it the head
\* register, lags behind the memory.
THEOREM DoneBitsAlwaysExact == Spec => []DoneBitsExact
<1>1. ASSUME IInv PROVE DoneBitsExact
  BY <1>1 DEF IInv, RingState, Returned, DoneBitsExact, wbPnt
<1> QED BY <1>1, InvariantAlways, PTL

\* descLeft() on plain numbers.
LEMMA LeftAccount ==
    ASSUME NEW h \in Slots, NEW t \in Slots, NEW p \in Slots, NEW k \in Slots,
           NEW u \in Nat, NEW n \in Nat, NEW f \in Nat, NEW w \in Nat, NEW l \in Nat,
           Account(h, t, p, u, n, f, w, l, k)
    PROVE  LET left == n + (IF p > t THEN RingLen - p + t ELSE t - p)
           IN left + (u - l) + Dist(k, Wrap(h + l)) = Dist(k, t) /\ left < RingLen
BY RingAssumption, CacheAssumption DEF Account, Wrap, Dist, Slots

\* descLeft() counts the posted slots that no packet has used, and is below the
\* ring length.
THEOREM DescLeftAlwaysExact == Spec => []DescLeftExact
<1>1. ASSUME IInv PROVE DescLeftExact
  BY <1>1, Numbers, LeftAccount DEF IInv, DescLeftExact, descLeft, wbPnt, Pending
<1> QED BY <1>1, InvariantAlways, PTL
=============================================================================
