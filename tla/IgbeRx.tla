------------------------------- MODULE IgbeRx -------------------------------
(***************************************************************************)
(* The receive path of the IGbE card: packets from the wire enter rxFifo   *)
(* (ethRxPkt), the receive state machine copies them into the buffers of   *)
(* posted descriptors (rxStateMachine, RxDescCache::writePacket and        *)
(* pktComplete), and the descriptor cache returns the descriptors to the   *)
(* driver, which polls their done bits.                                    *)
(*                                                                         *)
(* The card is running (not draining) and its interrupts are masked, as    *)
(* under a poll-mode driver.  A packet has a length in bytes and an `id'   *)
(* that only the model sees: accepted packets are numbered 0, 1, ...,      *)
(* NumIds - 1, 0, ... so that losing, repeating or reordering one shows.   *)
(***************************************************************************)
EXTENDS DescCache, FiniteSets

CONSTANTS
    Lens,           \* packet lengths that arrive
    FifoSize,       \* rx_fifo_size
    NumIds,         \* packets are numbered modulo this
    PostSizes,      \* how many slots the driver posts at a time
    Split,          \* SRRCTL.DESCTYPE: header split (TRUE) or one buffer
    BufLen, HdrLen, \* buffer and header buffer lengths of a descriptor
    SplitPoint,     \* hsplit(): header length of every packet
    Rdmts,          \* RCTL.RDMTS, 0..2
    Wthresh, Pthresh, Hthresh,  \* RXDCTL thresholds
    Timers,         \* which of RDTR and RADV are set, a subset of {"rdtr", "radv"}
    RctlWrites,     \* values of RCTL.EN the driver writes while it runs
    BytesInit       \* what bytesCopied may hold when the card is constructed

ASSUME PacketAssumption ==
    /\ Lens \subseteq Nat \ {0} /\ FifoSize \in Nat /\ NumIds \in Nat \ {0}
    /\ PostSizes \subseteq 1..(RingLen - 1) /\ Timers \subseteq {"rdtr", "radv"}
    /\ Split \in BOOLEAN /\ RctlWrites \subseteq BOOLEAN

\* rxStateMachine()'s alignment mask, for a write-back threshold that is set.
wbMask == IF Wthresh < 4 THEN Wthresh - 1 ELSE 3
ASSUME ThresholdAssumption == Wthresh \in Nat \ {0} /\ wbMask \in Masks

VARIABLES
    d, landed, dd, clean,      \* the descriptor ring, as in DescRing
    fill,                      \* what the buffers of a slot hold: id, end of packet
    rxFifo, fifoBytes,         \* the queue of PacketFifo and its _size
    rctlEn, rxTick, tickEv,    \* RCTL.EN, rxTick, tickEvent.scheduled()
    rxDmaPacket, pktDone,      \* a packet is being written; it has been written
    pktPtr, dma, splitCount,   \* that packet, its DMAs in flight, parts that ended
    bytesCopied, pktOffset,
    timers,                    \* which of rdtrEvent, radvEvent are scheduled
    nextId, expect             \* ids of the next packet accepted, and reaped

ring == <<d, landed, dd, clean>>
fifo == <<rxFifo, fifoBytes, nextId>>
clock == <<rxTick, tickEv>>
copy == <<rxDmaPacket, pktDone, pktPtr, dma, splitCount, bytesCopied, pktOffset>>
vars == <<ring, fill, fifo, rctlEn, clock, copy, timers, expect>>

NoPkt == [id |-> 0, len |-> 0]
Fresh == [id |-> 0, eop |-> FALSE]
NextId(i) == (i + 1) % NumIds

Init ==
    /\ d = EmptyDesc /\ landed = 0 /\ dd = [s \in Slots |-> FALSE] /\ clean = 0
    /\ fill = [s \in Slots |-> Fresh]
    /\ rxFifo = <<>> /\ fifoBytes = 0 /\ nextId = 0 /\ expect = 0
    /\ rctlEn = TRUE /\ rxTick = FALSE /\ tickEv = FALSE
    /\ rxDmaPacket = FALSE /\ pktDone = FALSE /\ pktPtr = NoPkt
    /\ dma = {} /\ splitCount = 0 /\ pktOffset = 0 /\ timers = {}
    /\ bytesCopied \in BytesInit

----------------------------------------------------------------------------
(* Packets from the wire.                                                  *)

\* enableSm(), and the restart in ethRxPkt(): tick again from the next cycle.
enableSm == rxTick' = TRUE /\ tickEv' = TRUE

\* PacketFifo::push() takes the packet when it fits.
pushFits(len) == FifoSize - fifoBytes >= len

\* While RCTL.EN is clear packets are counted and dropped.
EthRxPkt(len) ==
    /\ rctlEn
    /\ enableSm
    /\ IF pushFits(len)
       THEN /\ rxFifo' = Append(rxFifo, [id |-> nextId, len |-> len])
            /\ fifoBytes' = fifoBytes + len
            /\ nextId' = NextId(nextId)
       ELSE UNCHANGED fifo
    /\ UNCHANGED <<ring, fill, rctlEn, copy, timers, expect>>

----------------------------------------------------------------------------
(* rxStateMachine(): one action per way through it.                        *)

Ticking == tickEv /\ rxTick

\* The clock goes on exactly when rxTick is still set at the end of tick().
SetTick(b) == rxTick' = b /\ tickEv' = b

TickDisabled ==
    /\ Ticking /\ ~rctlEn
    /\ SetTick(FALSE)
    /\ UNCHANGED <<ring, fill, fifo, rctlEn, copy, timers, expect>>

\* A copy ended.  descLeft() is compared with RDLEN, which is in bytes (16 per
\* descriptor).  Repeating writeback(0), or fetchDescriptors(), changes nothing,
\* so the conditions that ask for either are joined.
rdmtsHit(c) == descLeft(c) * 2 ^ (Rdmts + 1) <= RingLen * 16

flushed(c) ==
    IF rdmtsHit(c) \/ descLeft(c) < 32 \/ fifoBytes = 0 \/ descLeft(c) = 0
    THEN writeback(c, 0) ELSE c

aligned(c) ==
    IF Wthresh >= Len(c.used)
    THEN writeback(c, wbMask) ELSE c

refilled(c) ==
    IF \/ Len(c.unused) < Pthresh /\ descLeft(c) - Len(c.unused) > Hthresh
       \/ c.unused = <<>>
    THEN fetchDescriptors(c) ELSE c

TickPacketDone ==
    /\ Ticking /\ rctlEn /\ pktDone
    /\ pktDone' = FALSE /\ rxDmaPacket' = FALSE
    /\ d' = refilled(aligned(flushed(d)))
    /\ SetTick(descLeft(d) # 0 /\ d.unused # <<>>)
    /\ UNCHANGED <<landed, dd, clean, fill, fifo, rctlEn, pktPtr, dma, splitCount,
                   bytesCopied, pktOffset, timers, expect>>

TickWaitDma ==
    /\ Ticking /\ rctlEn /\ ~pktDone /\ rxDmaPacket
    /\ SetTick(FALSE)
    /\ UNCHANGED <<ring, fill, fifo, rctlEn, copy, timers, expect>>

TickNoDesc ==
    /\ Ticking /\ rctlEn /\ ~pktDone /\ ~rxDmaPacket /\ d.unused = <<>>
    /\ d' = fetchDescriptors(d)
    /\ SetTick(FALSE)
    /\ UNCHANGED <<landed, dd, clean, fill, fifo, rctlEn, copy, timers, expect>>

TickFifoEmpty ==
    /\ Ticking /\ rctlEn /\ ~pktDone /\ ~rxDmaPacket /\ d.unused # <<>>
    /\ fifoBytes = 0
    /\ SetTick(FALSE)
    /\ UNCHANGED <<ring, fill, fifo, rctlEn, copy, timers, expect>>

\* RxDescCache::writePacket(): bytesCopied afterwards, which it also returns,
\* and the DMAs it starts.
copiedUpTo(len) ==
    IF ~Split \/ len <= HdrLen THEN len
    ELSE IF pktOffset > 0 THEN bytesCopied + SmallerOf(len - pktOffset, BufLen)
    ELSE bytesCopied + SmallerOf(len - SplitPoint, BufLen) + SplitPoint

startedDmas(len) ==
    IF Split /\ len > HdrLen /\ pktOffset = 0 THEN {"hdr", "data"} ELSE {"pkt"}

\* Mutant: the byte count of the FIFO survives the pop.
popBytesKeep(len) == fifoBytes

\* PacketFifo::pop().
popBytes(len) == fifoBytes - len

\* Mutant: the packet leaves the FIFO with its first part.
wholeFirst(len, done) == TRUE

\* Is this the last part of the packet?
wholeCopied(len, done) == done = len

TickWritePacket ==
    /\ Ticking /\ rctlEn /\ ~pktDone /\ ~rxDmaPacket /\ d.unused # <<>>
    /\ fifoBytes > 0
    /\ LET pkt == Head(rxFifo)
           done == copiedUpTo(pkt.len)
       IN /\ pktPtr' = pkt
          /\ bytesCopied' = done
          /\ dma' = startedDmas(pkt.len)
          /\ IF wholeCopied(pkt.len, done)
             THEN /\ rxFifo' = Tail(rxFifo) /\ fifoBytes' = popBytes(pkt.len)
                  /\ pktOffset' = 0
             ELSE UNCHANGED <<rxFifo, fifoBytes>> /\ pktOffset' = done
    /\ rxDmaPacket' = TRUE
    /\ SetTick(FALSE)
    /\ UNCHANGED <<ring, fill, nextId, rctlEn, pktDone, splitCount, timers, expect>>

----------------------------------------------------------------------------
(* Completions: of the packet's DMAs, of fetches and of writebacks.        *)

\* Mutant: the byte count of the packet before is kept.
bytesAfterKeep(copied, len) == copied

\* bytesCopied starts again at 0 for the next packet.
bytesAfter(copied, len) == IF copied = len THEN 0 ELSE copied

\* RxDescCache::pktComplete(), the last DMA of the descriptor being done.
pktComplete ==
    LET last == bytesCopied = pktPtr.len
    IN /\ fill' = [fill EXCEPT ![Head(d.unused)] = [id |-> pktPtr.id, eop |-> last]]
       /\ timers' = IF last THEN Timers \cup timers ELSE timers
       /\ bytesCopied' = bytesAfter(bytesCopied, pktPtr.len)
       /\ pktPtr' = NoPkt /\ pktDone' = TRUE
       /\ d' = useFront(d)
       /\ enableSm

PktEvent ==
    /\ dma = {"pkt"}
    /\ dma' = {}
    /\ pktComplete
    /\ UNCHANGED <<landed, dd, clean, fifo, rctlEn, rxDmaPacket, splitCount,
                   pktOffset, expect>>

\* pktHdrEvent and pktDataEvent: the second of them completes the descriptor.
PktSplitDone(part) ==
    /\ part \in dma \cap {"hdr", "data"}
    /\ dma' = dma \ {part}
    /\ IF splitCount + 1 = 2
       THEN splitCount' = 0 /\ pktComplete
       ELSE /\ splitCount' = splitCount + 1
            /\ UNCHANGED <<d, fill, timers, bytesCopied, pktPtr, pktDone, clock>>
    /\ UNCHANGED <<landed, dd, clean, fifo, rctlEn, rxDmaPacket, pktOffset, expect>>

Writeback1 ==
    /\ d.wbEv = "delay"
    /\ d' = [d EXCEPT !.wbEv = "dma"]
    /\ UNCHANGED <<landed, dd, clean, fill, fifo, rctlEn, clock, copy, timers, expect>>

FetchDescriptors1 ==
    /\ d.fetchEv = "delay"
    /\ d' = [d EXCEPT !.fetchEv = "dma"]
    /\ UNCHANGED <<landed, dd, clean, fill, fifo, rctlEn, clock, copy, timers, expect>>

WbLand ==
    /\ d.wbEv = "dma" /\ landed < d.wbOut
    /\ dd' = [dd EXCEPT ![d.head + landed] = TRUE]
    /\ landed' = landed + 1
    /\ UNCHANGED <<d, clean, fill, fifo, rctlEn, clock, copy, timers, expect>>

\* Mutant: nothing is fetched after a writeback.
fetchAfterWbNever == FALSE

\* RxDescCache::fetchAfterWb() fetches only while the state machine is stopped.
fetchAfterWb == ~rxTick

\* Mutant: wbEvent comes before the descriptors are in memory.
WbCompleteEarly ==
    /\ d.wbEv = "dma"
    /\ d' = wbComplete(d, fetchAfterWb)
    /\ landed' = 0
    /\ UNCHANGED <<dd, clean, fill, fifo, rctlEn, clock, copy, timers, expect>>

WbComplete ==
    /\ d.wbEv = "dma" /\ landed = d.wbOut
    /\ d' = wbComplete(d, fetchAfterWb)
    /\ landed' = 0
    /\ UNCHANGED <<dd, clean, fill, fifo, rctlEn, clock, copy, timers, expect>>

FetchComplete ==
    /\ d.fetchEv = "dma"
    /\ d' = fetchComplete(d)
    /\ enableSm
    /\ UNCHANGED <<landed, dd, clean, fill, fifo, rctlEn, copy, timers, expect>>

\* rdtrProcess() and radvProcess().
TimerExpires(t) ==
    /\ t \in timers
    /\ timers' = timers \ {t}
    /\ d' = writeback(d, 0)
    /\ UNCHANGED <<landed, dd, clean, fill, fifo, rctlEn, clock, copy, expect>>

----------------------------------------------------------------------------
(* The driver.                                                             *)

WriteRDT(k) ==
    /\ Dist(clean, d.tail) + k < RingLen
    /\ d' = fetchDescriptors([d EXCEPT !.tail = Wrap(d.tail + k)])
    /\ UNCHANGED <<landed, dd, clean, fill, fifo, rctlEn, clock, copy, timers, expect>>

\* The driver takes a returned buffer and leaves a fresh one in the slot; the
\* last buffer of a packet completes it.
DriverReap ==
    /\ dd[clean]
    /\ dd' = [dd EXCEPT ![clean] = FALSE]
    /\ clean' = Wrap(clean + 1)
    /\ expect' = IF fill[clean].eop THEN NextId(expect) ELSE expect
    /\ fill' = [fill EXCEPT ![clean] = Fresh]
    /\ UNCHANGED <<d, landed, fifo, rctlEn, clock, copy, timers>>

WriteRCTL(en) ==
    /\ rctlEn' = en
    /\ IF en THEN enableSm ELSE UNCHANGED clock
    /\ UNCHANGED <<ring, fill, fifo, copy, timers, expect>>

Tick ==
    \/ TickDisabled
    \/ TickPacketDone
    \/ TickWaitDma
    \/ TickNoDesc
    \/ TickFifoEmpty
    \/ TickWritePacket

DmaStep ==
    \/ PktEvent
    \/ \E part \in {"hdr", "data"} : PktSplitDone(part)
    \/ Writeback1 \/ WbLand \/ WbComplete
    \/ FetchDescriptors1 \/ FetchComplete

Next ==
    \/ \E len \in Lens : EthRxPkt(len)
    \/ Tick
    \/ DmaStep
    \/ \E t \in timers : TimerExpires(t)
    \/ \E k \in PostSizes : WriteRDT(k)
    \/ DriverReap
    \/ \E en \in RctlWrites : WriteRCTL(en)

Spec == Init /\ [][Next]_vars

\* Events of the simulator happen: scheduled ticks, DMA completions, delays.
EventFairness ==
    /\ WF_vars(Tick) /\ WF_vars(PktEvent)
    /\ \A part \in {"hdr", "data"} : WF_vars(PktSplitDone(part))
    /\ WF_vars(Writeback1) /\ WF_vars(WbLand) /\ WF_vars(WbComplete)
    /\ WF_vars(FetchDescriptors1) /\ WF_vars(FetchComplete)
    /\ \A t \in Timers : WF_vars(TimerExpires(t))

\* A poll-mode driver keeps reaping and posting.
DriverFairness ==
    /\ WF_vars(DriverReap)
    /\ WF_vars(\E k \in PostSizes : WriteRDT(k))

Traffic == WF_vars(\E len \in Lens : EthRxPkt(len))

FairSpec == Spec /\ EventFairness /\ DriverFairness /\ Traffic

----------------------------------------------------------------------------
(* Properties.                                                             *)

\* Every event of the receive path is a step of the descriptor ring, or leaves
\* it alone: what is proved of DescRing holds of the card.
Ring == INSTANCE DescRing WITH running <- TRUE
ImplementsRing == Ring!Spec

\* The asserts of writePacket(), pktComplete() and pktSplitDone(): the packet
\* being written has a descriptor, no more bytes are counted than it has, a
\* packet is only continued in the middle when it was split, and a header and
\* a data completion belong to one descriptor.
CopyAsserts ==
    /\ dma # {} => /\ d.unused # <<>> /\ pktPtr # NoPkt /\ rxDmaPacket
                   /\ bytesCopied <= pktPtr.len
    /\ pktOffset > 0 => /\ Split /\ rxFifo # <<>>
                        /\ Head(rxFifo).len > HdrLen
                        /\ pktOffset < Head(rxFifo).len
    /\ splitCount = 1 => Cardinality(dma) = 1 /\ dma \subseteq {"hdr", "data"}

\* The buffers the driver will reap, counted from its clean position: the
\* returned ones, then the used ones not yet returned.
Filled == Dist(clean, Wrap(d.head + landed)) + Len(d.used) - landed
bufferAt(j) == fill[Wrap(clean + j - 1)]
packetsEnded(j) == Cardinality({i \in 1..j : bufferAt(i).eop})
Popped == IF pktPtr # NoPkt /\ pktOffset = 0 THEN 1 ELSE 0

\* From the driver's next buffer through the packet being copied to the end of
\* the FIFO, the accepted packets lie in order of arrival: none is lost,
\* repeated or overtaken, and the buffers of one packet are adjacent.
PacketsInOrder ==
    LET id(n) == (expect + n) % NumIds
        ended == packetsEnded(Filled)
    IN /\ \A j \in 1..Filled : bufferAt(j).id = id(packetsEnded(j - 1))
       /\ pktPtr # NoPkt => pktPtr.id = id(ended)
       /\ \A i \in 1..Len(rxFifo) : rxFifo[i].id = id(ended + Popped + i - 1)
       /\ nextId = id(ended + Popped + Len(rxFifo))
       /\ Filled > 0 /\ ~bufferAt(Filled).eop => pktPtr # NoPkt \/ pktOffset > 0

\* The state machine never sleeps through work.  With a packet to copy, or a
\* copy to finish, a cached descriptor keeps it ticking or in a DMA; with no
\* cached descriptor but one in the ring, a fetch, or a writeback that will
\* fetch, is on its way.
NoLostWakeup ==
    rctlEn /\ (rxFifo # <<>> \/ pktDone) =>
        /\ d.unused # <<>> => Ticking \/ dma # {}
        /\ descLeft(d) > 0 => Ticking \/ dma # {} \/ d.curFetching > 0 \/ d.wbOut > 0

\* While packets keep arriving and the receiver stays on, the driver keeps
\* receiving them: packet after packet reaches it, whatever writeback requests
\* were dropped, and however often RCTL.EN was switched, on the way.
PacketsKeepArriving ==
    <>[]rctlEn => \A i \in 0..(NumIds - 1) : []<>(expect = i)

----------------------------------------------------------------------------
(* A property the code states and does not have.                           *)

\* "Check if this writeback is less restrictive that the previous and if so
\* setup another one immediately following it", "If we still have more to wb,
\* call wb now": a card with nothing left to do has returned every descriptor.
QuietCardReturnedAll ==
    (~tickEv /\ dma = {} /\ timers = {} /\ d.wbEv = "none" /\ d.fetchEv = "none")
        => d.used = <<>>
=============================================================================
