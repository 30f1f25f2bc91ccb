------------------------------ MODULE DescRing ------------------------------
(***************************************************************************)
(* The descriptor cache at work between a driver, the memory system and a  *)
(* state machine of the card.  This is what RxDescCache and TxDescCache    *)
(* have in common: the state machine is any program that uses descriptors  *)
(* in order and calls writeback() and fetchDescriptors() when it likes.    *)
(***************************************************************************)
EXTENDS DescCache

VARIABLES
    d,        \* the card's record, in DescState
    landed,   \* how many of the wbOut descriptors the DMA has put in memory
    dd,       \* "descriptor done" bit of every slot, in host memory
    clean,    \* the driver's next slot to reap
    running   \* drainState() = Running

vars == <<d, landed, dd, clean, running>>

Init ==
    /\ d = EmptyDesc
    /\ landed = 0
    /\ dd = [s \in Slots |-> FALSE]
    /\ clean = 0
    /\ running = TRUE

\* The driver posts k more slots by writing RDT/TDT.  It leaves one slot free,
\* since head = tail means an empty ring.
WriteTail(k) ==
    /\ Dist(clean, d.tail) + k < RingLen
    /\ LET c == [d EXCEPT !.tail = Wrap(d.tail + k)]
       IN d' = IF running THEN fetchDescriptors(c) ELSE c
    /\ UNCHANGED <<landed, dd, clean, running>>

\* The driver reaps the next slot once its done bit is set, and clears the bit.
DriverReap ==
    /\ dd[clean]
    /\ dd' = [dd EXCEPT ![clean] = FALSE]
    /\ clean' = Wrap(clean + 1)
    /\ UNCHANGED <<d, landed, running>>

\* The driver sets the ring up again (base, length, head and tail registers).
\* areaChanged() panics unless nothing is used, being fetched or written back.
AreaChanged ==
    /\ d.used = <<>> /\ d.curFetching = 0 /\ d.wbOut = 0
    /\ d' = [reset(d) EXCEPT !.head = 0, !.tail = 0]
    /\ dd' = [s \in Slots |-> FALSE]
    /\ clean' = 0
    /\ UNCHANGED <<landed, running>>

SmUse ==
    /\ d.unused # <<>>
    /\ d' = useFront(d)
    /\ UNCHANGED <<landed, dd, clean, running>>

\* What one event of the state machine, or a timer, may call: it may force a
\* writeback, ask for an aligned one, and fetch, in this order.
SmCalls(c) ==
    \E flushed \in {c, writeback(c, 0)} :
       \E aligned \in {flushed} \cup {writeback(flushed, m) : m \in Masks} :
          d' \in {aligned, fetchDescriptors(aligned)}

SmTick ==
    /\ SmCalls(d)
    /\ UNCHANGED <<landed, dd, clean, running>>

\* TxDescCache::pktComplete() makes its calls in the event that uses the descriptor.
SmUseTick ==
    /\ d.unused # <<>>
    /\ SmCalls(useFront(d))
    /\ UNCHANGED <<landed, dd, clean, running>>

\* The delay events issue their DMA; while draining they only re-arm themselves.
Writeback1 ==
    /\ d.wbEv = "delay" /\ running
    /\ d' = [d EXCEPT !.wbEv = "dma"]
    /\ UNCHANGED <<landed, dd, clean, running>>

FetchDescriptors1 ==
    /\ d.fetchEv = "delay" /\ running
    /\ d' = [d EXCEPT !.fetchEv = "dma"]
    /\ UNCHANGED <<landed, dd, clean, running>>

\* The writeback DMA reaches memory a descriptor at a time, before wbEvent.
WbLand ==
    /\ d.wbEv = "dma" /\ landed < d.wbOut
    /\ dd' = [dd EXCEPT ![d.head + landed] = TRUE]
    /\ landed' = landed + 1
    /\ UNCHANGED <<d, clean, running>>

WbComplete ==
    /\ d.wbEv = "dma" /\ landed = d.wbOut
    /\ \E smIdle \in BOOLEAN : d' = wbComplete(d, smIdle /\ running)
    /\ landed' = 0
    /\ UNCHANGED <<dd, clean, running>>

FetchComplete ==
    /\ d.fetchEv = "dma"
    /\ d' = fetchComplete(d)
    /\ UNCHANGED <<landed, dd, clean, running>>

DrainToggle ==
    /\ running' = ~running
    /\ UNCHANGED <<d, landed, dd, clean>>

Next ==
    \/ \E k \in 1..(RingLen - 1) : WriteTail(k)
    \/ DriverReap
    \/ AreaChanged
    \/ SmUse
    \/ SmTick
    \/ SmUseTick
    \/ Writeback1
    \/ FetchDescriptors1
    \/ WbLand
    \/ WbComplete
    \/ FetchComplete
    \/ DrainToggle

Spec == Init /\ [][Next]_vars

----------------------------------------------------------------------------
(* Properties.                                                             *)

\* The first slot whose return has not reached memory, and how many used
\* descriptors the card still has to return from there on.
wbPnt == Wrap(d.head + landed)
Pending == Len(d.used) - landed

\* Type invariant: the members of the descriptor cache, the ring in memory and
\* the driver's position have their types.
TypeOK ==
    /\ d \in DescState
    /\ landed \in Nat
    /\ dd \in [Slots -> BOOLEAN]
    /\ clean \in Slots
    /\ running \in BOOLEAN

\* The asserts of writeback(), writeback1(), fetchDescriptors(),
\* fetchDescriptors1(), fetchComplete() and wbComplete(): an event is pending
\* exactly while descriptors are in flight, what is being written back is in
\* the used cache, and neither DMA runs past the end of the ring.
AssertsHold ==
    /\ d.wbOut > 0 <=> d.wbEv # "none"
    /\ d.curFetching > 0 <=> d.fetchEv # "none"
    /\ d.wbOut <= Len(d.used) /\ d.head + d.wbOut <= RingLen
    /\ d.cachePnt + d.curFetching <= RingLen
    /\ landed <= d.wbOut
    /\ d.moreToWb => d.wbOut > 0

\* The cache never holds, or is about to hold, more descriptors than it has
\* entries, although a fetch sized earlier completes after others were used.
CacheBounded ==
    Len(d.used) + Len(d.unused) + d.curFetching <= CacheSize

\* The used and unused descriptors are the ring's slots from head to cachePnt,
\* in order and across the wrap: a writeback at head returns each descriptor
\* to the very slot it was fetched from.
RingOrder ==
    /\ \A i \in 1..Len(d.used) : d.used[i] = Wrap(d.head + i - 1)
    /\ \A i \in 1..Len(d.unused) :
          d.unused[i] = Wrap(d.head + Len(d.used) + i - 1)
    /\ d.cachePnt = Wrap(d.head + Len(d.used) + Len(d.unused))

\* Every slot the driver posted and has not reaped is accounted for exactly
\* once: returned, used, unused or still to be fetched.
SlotsConserved ==
    Dist(clean, wbPnt) + Pending + Len(d.unused) + Dist(d.cachePnt, d.tail)
        = Dist(clean, d.tail)

\* A slot the card holds or is fetching lies between the driver's clean and
\* tail positions: the card never touches a slot the driver owns.
OnlyPostedSlots ==
    LET posted(s) == Dist(clean, s) < Dist(clean, d.tail)
    IN /\ \A i \in (landed + 1)..Len(d.used) : posted(d.used[i])
       /\ \A i \in 1..Len(d.unused) : posted(d.unused[i])
       /\ \A i \in 1..d.curFetching : posted(d.cachePnt + i - 1)

\* The driver sees a done bit on exactly the slots that were returned and not
\* yet reaped, even while the head register lags behind the memory.
DoneBitsExact ==
    \A s \in Slots : dd[s] <=> Dist(clean, s) < Dist(clean, wbPnt)

\* descLeft(), which decides on writebacks, interrupts and the drop statistics,
\* is the number of posted slots no packet has used; it is below RingLen.
DescLeftExact ==
    /\ descLeft(d) + Pending + Dist(clean, wbPnt) = Dist(clean, d.tail)
    /\ descLeft(d) < RingLen
=============================================================================
