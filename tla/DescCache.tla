----------------------------- MODULE DescCache -----------------------------
(***************************************************************************)
(* The descriptor cache of the IGbE network card (IGbE::DescCache<T>).     *)
(*                                                                         *)
(* A ring of RingLen descriptors lives in host memory.  The driver hands   *)
(* slots to the card by moving the tail register; the card prefetches      *)
(* them into `unused', the receive or transmit state machine moves them    *)
(* to `used' when their packet is done, and a writeback DMA returns them   *)
(* to the ring and moves the head register.  Fetches and writebacks are    *)
(* two events each: a delay event that issues the DMA, and the completion  *)
(* event of that DMA.  Everything else may happen between the two.         *)
(*                                                                         *)
(* The card's side is a record, and each member function an operator on    *)
(* it, because the state machines of the card call several of them within  *)
(* one event.  A descriptor is named by the ring slot it was read from.    *)
(***************************************************************************)
EXTENDS Naturals, Sequences

CONSTANTS
    RingLen,    \* descLen(): descriptors in the ring
    CacheSize,  \* rx_desc_cache_size / tx_desc_cache_size
    Masks       \* alignment masks the state machines pass to writeback()

ASSUME RingAssumption == RingLen \in Nat /\ RingLen > 1
ASSUME CacheAssumption == CacheSize \in Nat /\ CacheSize > 0
ASSUME MaskAssumption == Masks \subseteq 0..3

Slots == 0..(RingLen - 1)

\* Ring arithmetic: a position less than two laps ahead, and the way from a to b.
Wrap(i) == IF i >= RingLen THEN i - RingLen ELSE i
Dist(a, b) == IF b >= a THEN b - a ELSE RingLen - a + b

SmallerOf(a, b) == IF a < b THEN a ELSE b

\* n & ~mask, for the masks of at most two bits that the card uses.
AlignDown(n, mask) ==
    n - (IF mask \in {1, 3} THEN n % 2 ELSE 0)
      - (IF mask \in {2, 3} THEN (n % 4) - (n % 2) ELSE 0)

EventState == {"none", "delay", "dma"}

DescState ==
    [head : Slots, tail : Slots,          \* RDH/TDH and RDT/TDT
     cachePnt : Slots,                    \* next slot to fetch
     used : Seq(Slots), unused : Seq(Slots),
     curFetching : Nat,                   \* descriptors being fetched
     wbOut : Nat,                         \* descriptors being written back
     moreToWb : BOOLEAN, wbAlign : 0..3,
     fetchEv : EventState,                \* fetchDelayEvent, then fetchEvent
     wbEv : EventState]                   \* wbDelayEvent, then wbEvent

EmptyDesc ==
    [head |-> 0, tail |-> 0, cachePnt |-> 0, used |-> <<>>, unused |-> <<>>,
     curFetching |-> 0, wbOut |-> 0, moreToWb |-> FALSE, wbAlign |-> 0,
     fetchEv |-> "none", wbEv |-> "none"]

----------------------------------------------------------------------------
(* The member functions.                                                   *)

\* Mutant: a wrapped ring is counted to its end only.
descLeftToEnd(c) ==
    Len(c.unused) + (IF c.cachePnt > c.tail THEN RingLen - c.cachePnt
                                            ELSE c.tail - c.cachePnt)

descLeft(c) ==
    Len(c.unused) + (IF c.cachePnt > c.tail THEN RingLen - c.cachePnt + c.tail
                                            ELSE c.tail - c.cachePnt)

\* Mutant: no stop at the end of the ring.
maxToWbNoWrap(c, aMask) == AlignDown(Len(c.used), aMask)

\* How many descriptors writeback() takes: up to the end of the ring, or all
\* of them rounded down to the alignment.
maxToWb(c, aMask) ==
    IF Len(c.used) + c.head >= RingLen THEN RingLen - c.head
    ELSE AlignDown(Len(c.used), aMask)

writebackBusy(c, aMask) ==
    IF aMask < c.wbAlign
    THEN [c EXCEPT !.moreToWb = TRUE, !.wbAlign = aMask]
    ELSE c

\* Mutant: the writeback is sized, but its delay event is not scheduled.
writebackIdleUnscheduled(c, aMask) ==
    [c EXCEPT !.moreToWb = Len(c.used) + c.head >= RingLen, !.wbAlign = aMask,
              !.wbOut = maxToWb(c, aMask)]

writebackIdle(c, aMask) ==
    LET n == maxToWb(c, aMask)
    IN [c EXCEPT !.moreToWb = Len(c.used) + c.head >= RingLen,
                 !.wbAlign = aMask,
                 !.wbOut = n,
                 !.wbEv = IF n = 0 THEN "none" ELSE "delay"]

writeback(c, aMask) ==
    IF c.wbOut > 0 THEN writebackBusy(c, aMask) ELSE writebackIdle(c, aMask)

\* How many descriptors fetchDescriptors() asks for: up to the tail or the end
\* of the ring, and no more than the cache has room for.
maxToFetch(c) ==
    SmallerOf(IF c.tail >= c.cachePnt THEN c.tail - c.cachePnt
                                      ELSE RingLen - c.cachePnt,
              CacheSize - (Len(c.used) + Len(c.unused)))

fetchDescriptors(c) ==
    IF c.curFetching > 0 \/ maxToFetch(c) = 0
    THEN c
    ELSE [c EXCEPT !.curFetching = maxToFetch(c), !.fetchEv = "delay"]

\* Mutant: cachePnt does not move.
fetchCompleteStay(c) ==
    [c EXCEPT !.unused = c.unused \o [i \in 1..c.curFetching |-> c.cachePnt + i - 1],
              !.curFetching = 0,
              !.fetchEv = "none"]

fetchComplete(c) ==
    LET fetched == [i \in 1..c.curFetching |-> c.cachePnt + i - 1]
    IN [c EXCEPT !.unused = c.unused \o fetched,
                 !.cachePnt = IF c.cachePnt + c.curFetching = RingLen
                              THEN 0 ELSE c.cachePnt + c.curFetching,
                 !.curFetching = 0,
                 !.fetchEv = "none"]

\* Mutant: wbOut is cleared before it is added to the head.
retireWbZero(c) ==
    [c EXCEPT !.used = SubSeq(c.used, c.wbOut + 1, Len(c.used)),
              !.wbOut = 0,
              !.wbEv = "none"]

\* wbComplete() up to the head update, and the writeback that may follow it.
retireWb(c) ==
    [c EXCEPT !.used = SubSeq(c.used, c.wbOut + 1, Len(c.used)),
              !.head = Wrap(c.head + c.wbOut),
              !.wbOut = 0,
              !.wbEv = "none"]

continueWb(c) ==
    IF c.moreToWb THEN writeback([c EXCEPT !.moreToWb = FALSE], c.wbAlign) ELSE c

\* `fetchToo' is fetchAfterWb()'s condition: state machine idle, not draining.
wbComplete(c, fetchToo) ==
    LET after == continueWb(retireWb(c))
    IN IF fetchToo THEN fetchDescriptors(after) ELSE after

\* The state machine is done with the front descriptor (pktComplete() etc).
useFront(c) ==
    [c EXCEPT !.used = Append(c.used, Head(c.unused)), !.unused = Tail(c.unused)]

\* Mutant: the fetch position survives the reset.
resetKeep(c) == [c EXCEPT !.used = <<>>, !.unused = <<>>]

reset(c) == [c EXCEPT !.used = <<>>, !.unused = <<>>, !.cachePnt = 0]
=============================================================================
