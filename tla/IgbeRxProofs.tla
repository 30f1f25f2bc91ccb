---------------------------- MODULE IgbeRxProofs ----------------------------
(***************************************************************************)
(* The receive path implements the descriptor ring: each event of the card *)
(* and of its driver is a step of DescRing or leaves the ring unchanged.   *)
(* A DMA completion uses a descriptor, so the argument needs that the card *)
(* still has the descriptor it started with: that is DmaInv.               *)
(***************************************************************************)
EXTENDS IgbeRx, DescCacheProofs

\* The member functions DescRing uses are those the receive path calls.
LEMMA SameFunctions ==
    /\ Ring!EmptyDesc = EmptyDesc /\ Ring!Slots = Slots
    /\ \A i : Ring!Wrap(i) = Wrap(i)
    /\ \A a, b : Ring!Dist(a, b) = Dist(a, b)
    /\ \A c, m : Ring!writeback(c, m) = writeback(c, m)
    /\ \A c : Ring!fetchDescriptors(c) = fetchDescriptors(c)
    /\ \A c : Ring!fetchComplete(c) = fetchComplete(c)
    /\ \A c, f : Ring!wbComplete(c, f) = wbComplete(c, f)
    /\ \A c : Ring!useFront(c) = useFront(c)
<1>1. \A i : Ring!Wrap(i) = Wrap(i)
  BY DEF Wrap, Ring!Wrap
<1>2. \A a, b : Ring!Dist(a, b) = Dist(a, b)
  BY DEF Dist, Ring!Dist
<1>3. \A c, m : Ring!writeback(c, m) = writeback(c, m)
  BY DEF writeback, writebackBusy, writebackIdle, maxToWb, AlignDown,
         Ring!writeback, Ring!writebackBusy, Ring!writebackIdle, Ring!maxToWb,
         Ring!AlignDown
<1>4. \A c : Ring!fetchDescriptors(c) = fetchDescriptors(c)
  BY DEF fetchDescriptors, maxToFetch, SmallerOf,
         Ring!fetchDescriptors, Ring!maxToFetch, Ring!SmallerOf
<1>5. \A c : Ring!fetchComplete(c) = fetchComplete(c)
  BY DEF fetchComplete, Ring!fetchComplete
<1>6. \A c : Ring!retireWb(c) = retireWb(c)
  BY <1>1 DEF retireWb, Ring!retireWb
<1>7. \A c : Ring!continueWb(c) = continueWb(c)
  BY <1>3 DEF continueWb, Ring!continueWb
<1>8. \A c, f : Ring!wbComplete(c, f) = wbComplete(c, f)
  BY <1>4, <1>6, <1>7 DEF wbComplete, Ring!wbComplete
<1>9. Ring!EmptyDesc = EmptyDesc /\ Ring!Slots = Slots
  BY DEF EmptyDesc, Ring!EmptyDesc, Slots, Ring!Slots
<1>10. \A c : Ring!useFront(c) = useFront(c)
  BY DEF useFront, Ring!useFront
<1> QED BY <1>1, <1>2, <1>3, <1>4, <1>5, <1>8, <1>9, <1>10

----------------------------------------------------------------------------
(* The invariant.                                                          *)

\* DMAs in flight belong to one descriptor, which is still the front one; the
\* split count says how many of its two parts have ended; pktDone waits for
\* the state machine, with no DMA in flight.
DmaInv ==
    /\ dma \in {{}, {"pkt"}, {"hdr", "data"}, {"hdr"}, {"data"}}
    /\ splitCount = IF dma = {"hdr"} \/ dma = {"data"} THEN 1 ELSE 0
    /\ dma # {} => d.unused # <<>> /\ rxDmaPacket /\ ~pktDone

RxInv == RingState(d, landed, dd, clean) /\ DmaInv

\* The card starts with the empty ring and no DMA.
LEMMA InitRx == Init => Ring!Init /\ RxInv
<1> SUFFICES ASSUME Init PROVE Ring!Init /\ RxInv
  OBVIOUS
<1>1. 0 \in Slots /\ <<>> \in Seq(Slots)
  BY RingAssumption DEF Slots
<1>2. EmptyDesc \in DescState
  BY <1>1 DEF EmptyDesc, DescState, EventState
<1>3. RingState(EmptyDesc, 0, [s \in Slots |-> FALSE], 0)
  BY <1>2, EmptyState DEF EmptyDesc
<1>4. Ring!Init
  BY SameFunctions DEF Init, Ring!Init
<1> QED BY <1>3, <1>4 DEF Init, RxInv, DmaInv

\* Each step keeps the invariant, and maps to a step of the ring or a stutter.
LEMMA StepRx == RxInv /\ [Next]_vars => RxInv' /\ [Ring!Next]_(Ring!vars)
<1> SUFFICES ASSUME RxInv, [Next]_vars PROVE RxInv' /\ [Ring!Next]_(Ring!vars)
  OBVIOUS
<1> USE SameFunctions
<1>0. d \in DescState /\ RingState(d, landed, dd, clean) /\ DmaInv
  BY Numbers DEF RxInv
<1>s. ASSUME UNCHANGED ring, DmaInv' PROVE RxInv' /\ [Ring!Next]_(Ring!vars)
  BY <1>0, <1>s DEF ring, Ring!vars, RxInv
<1>1. ASSUME NEW len \in Lens, EthRxPkt(len) PROVE RxInv' /\ [Ring!Next]_(Ring!vars)
  <2>1. UNCHANGED <<ring, copy>>
    BY <1>1 DEF EthRxPkt
  <2> QED BY <1>0, <1>s, <2>1 DEF DmaInv, copy, ring
<1>2. CASE TickDisabled \/ TickWaitDma \/ TickFifoEmpty
  <2>1. UNCHANGED <<ring, copy>>
    BY <1>2 DEF TickDisabled, TickWaitDma, TickFifoEmpty
  <2> QED BY <1>0, <1>s, <2>1 DEF DmaInv, copy, ring
<1>3. CASE TickPacketDone
  <2>1. flushed(d) \in {d, writeback(d, 0)}
    BY DEF flushed
  <2>2. aligned(flushed(d))
          \in {flushed(d)} \cup {writeback(flushed(d), m) : m \in Masks}
    BY ThresholdAssumption DEF aligned
  <2>3. d' \in {aligned(flushed(d)), fetchDescriptors(aligned(flushed(d)))}
        /\ UNCHANGED <<landed, dd, clean, dma, splitCount>> /\ pktDone
    BY <1>3 DEF TickPacketDone, refilled
  <2>4. RingState(d', landed, dd, clean)
    BY <1>0, <2>1, <2>2, <2>3, TickState
  <2>5. Ring!SmTick
    BY <2>1, <2>2, <2>3 DEF Ring!SmTick, Ring!SmCalls
  <2>6. DmaInv'
    BY <1>0, <2>3 DEF DmaInv
  <2> QED BY <2>3, <2>4, <2>5, <2>6 DEF RxInv, Ring!Next
<1>4. CASE TickNoDesc
  <2>1. d' = fetchDescriptors(d) /\ UNCHANGED <<landed, dd, clean, dma, splitCount>>
        /\ d.unused = <<>>
    BY <1>4 DEF TickNoDesc, copy
  <2>2. RingState(d', landed, dd, clean)
    BY <1>0, <2>1, TickState
  <2>3. DmaInv'
    BY <1>0, <2>1 DEF DmaInv
  <2>4. Ring!SmTick
    BY <2>1 DEF Ring!SmTick, Ring!SmCalls
  <2> QED BY <2>1, <2>2, <2>3, <2>4 DEF RxInv, Ring!Next
<1>5. CASE TickWritePacket
  <2>1. UNCHANGED ring /\ d.unused # <<>> /\ ~rxDmaPacket /\ rxDmaPacket'
        /\ ~pktDone /\ UNCHANGED <<pktDone, splitCount>>
        /\ (dma' = {"pkt"} \/ dma' = {"hdr", "data"})
    BY <1>5 DEF TickWritePacket, startedDmas
  <2>2. dma = {}
    BY <1>0, <2>1 DEF DmaInv
  <2>3. splitCount = 0
    BY <1>0, <2>2 DEF DmaInv
  <2>4. DmaInv'
    BY <2>1, <2>3 DEF DmaInv, ring
  <2> QED BY <1>s, <2>1, <2>4
<1>6. ASSUME d.unused # <<>>, d' = useFront(d), UNCHANGED <<landed, dd, clean>>, DmaInv'
      PROVE  RxInv' /\ [Ring!Next]_(Ring!vars)
  <2>1. RingState(d', landed, dd, clean)
    BY <1>0, <1>6, UseState
  <2>2. Ring!SmUse
    BY <1>6 DEF Ring!SmUse
  <2> QED BY <1>6, <2>1, <2>2 DEF RxInv, Ring!Next
<1>7. CASE PktEvent
  <2>1. d' = useFront(d) /\ UNCHANGED <<landed, dd, clean, splitCount>>
        /\ dma = {"pkt"} /\ dma' = {}
    BY <1>7 DEF PktEvent, pktComplete
  <2>2. d.unused # <<>> /\ DmaInv'
    BY <1>0, <2>1 DEF DmaInv
  <2> QED BY <1>6, <2>1, <2>2
<1>8. ASSUME NEW part \in {"hdr", "data"}, PktSplitDone(part)
      PROVE  RxInv' /\ [Ring!Next]_(Ring!vars)
  <2>1. CASE splitCount + 1 = 2
    <3>1. d' = useFront(d) /\ UNCHANGED <<landed, dd, clean>> /\ splitCount' = 0
          /\ part \in dma /\ dma' = dma \ {part}
      BY <1>8, <2>1 DEF PktSplitDone, pktComplete
    <3>2. splitCount = 1
      BY <1>0, <2>1 DEF DmaInv
    <3>3. dma = {part}
      BY <1>0, <3>1, <3>2 DEF DmaInv
    <3>4. d.unused # <<>> /\ DmaInv'
      BY <1>0, <3>1, <3>3 DEF DmaInv
    <3> QED BY <1>6, <3>1, <3>4
  <2>2. CASE splitCount + 1 # 2
    <3>1. UNCHANGED ring /\ splitCount' = splitCount + 1 /\ part \in dma
          /\ dma' = dma \ {part} /\ UNCHANGED <<rxDmaPacket, pktDone>>
      BY <1>8, <2>2 DEF PktSplitDone, ring
    <3>2. splitCount = 0 /\ dma = {"hdr", "data"}
      BY <1>0, <2>2, <3>1 DEF DmaInv
    <3>3. dma' \in {{"hdr"}, {"data"}} /\ splitCount' = 1
      BY <3>1, <3>2
    <3>4. DmaInv'
      BY <1>0, <3>1, <3>2, <3>3 DEF DmaInv, ring
    <3> QED BY <1>s, <3>1, <3>4
  <2> QED BY <2>1, <2>2
<1>9. ASSUME RingState(d', landed', dd', clean'), Ring!Next,
             UNCHANGED <<dma, splitCount, rxDmaPacket, pktDone>>,
             d.unused # <<>> => d'.unused # <<>>
      PROVE  RxInv' /\ [Ring!Next]_(Ring!vars)
  BY <1>0, <1>9 DEF RxInv, DmaInv
<1>10. CASE Writeback1
  <2>1. RingState(d', landed', dd', clean')
    BY <1>0, <1>10, IssueState DEF Writeback1
  <2>2. Ring!Next
    BY <1>10 DEF Writeback1, Ring!Writeback1, Ring!Next
  <2>3. d'.unused = d.unused
    BY <1>0, <1>10 DEF Writeback1, DescState
  <2> QED BY <1>9, <1>10, <2>1, <2>2, <2>3 DEF Writeback1, copy
<1>11. CASE FetchDescriptors1
  <2>1. RingState(d', landed', dd', clean')
    BY <1>0, <1>11, IssueState DEF FetchDescriptors1
  <2>2. Ring!Next
    BY <1>11 DEF FetchDescriptors1, Ring!FetchDescriptors1, Ring!Next
  <2>3. d'.unused = d.unused
    BY <1>0, <1>11 DEF FetchDescriptors1, DescState
  <2> QED BY <1>9, <1>11, <2>1, <2>2, <2>3 DEF FetchDescriptors1, copy
<1>12. CASE WbLand
  <2>1. RingState(d', landed', dd', clean')
    BY <1>0, <1>12, LandState DEF WbLand
  <2>2. Ring!Next
    BY <1>12 DEF WbLand, Ring!WbLand, Ring!Next
  <2> QED BY <1>9, <1>12, <2>1, <2>2 DEF WbLand, copy
<1>13. CASE WbComplete
  <2>1. PICK idle \in BOOLEAN : d' = wbComplete(d, idle)
    BY <1>13 DEF WbComplete, fetchAfterWb
  <2>2. landed = d.wbOut /\ landed' = 0 /\ d.wbEv = "dma"
        /\ UNCHANGED <<dd, clean, dma, splitCount, rxDmaPacket, pktDone>>
    BY <1>13 DEF WbComplete, copy
  <2>3. RingState(d', landed', dd', clean')
    BY <1>0, <2>1, <2>2, CompleteState
  <2>4. (idle /\ TRUE) = idle
    OBVIOUS
  <2>5. Ring!WbComplete
    BY <2>1, <2>2, <2>4 DEF Ring!WbComplete
  <2>6. d'.unused = d.unused
    BY <1>0, <2>1, <2>2, WbCompleteKeeps
  <2> QED BY <1>9, <2>2, <2>3, <2>5, <2>6 DEF Ring!Next
<1>14. CASE FetchComplete
  <2>1. RingState(d', landed', dd', clean')
    BY <1>0, <1>14, FetchedState DEF FetchComplete
  <2>2. Ring!Next
    BY <1>14 DEF FetchComplete, Ring!FetchComplete, Ring!Next
  <2>3. d.unused # <<>> => d'.unused # <<>>
    BY <1>0, <1>14, FetchedUnused DEF FetchComplete
  <2> QED BY <1>9, <1>14, <2>1, <2>2, <2>3 DEF FetchComplete, copy
<1>15. ASSUME NEW t \in timers, TimerExpires(t) PROVE RxInv' /\ [Ring!Next]_(Ring!vars)
  <2>1. d' = writeback(d, 0) /\ UNCHANGED <<landed, dd, clean>>
        /\ UNCHANGED <<dma, splitCount, rxDmaPacket, pktDone>>
    BY <1>15 DEF TimerExpires, copy
  <2>2. RingState(d', landed', dd', clean')
    BY <1>0, <2>1, TickState
  <2>3. Ring!SmTick
    BY <2>1 DEF Ring!SmTick, Ring!SmCalls
  <2> QED BY <1>0, <1>9, <2>1, <2>2, <2>3, KeepUnused DEF Ring!Next
<1>16. ASSUME NEW k \in PostSizes, WriteRDT(k) PROVE RxInv' /\ [Ring!Next]_(Ring!vars)
  <2> DEFINE c == [d EXCEPT !.tail = Wrap(d.tail + k)]
  <2>1. k \in 1..(RingLen - 1) /\ k \in Nat
    BY PacketAssumption
  <2>2. Dist(clean, d.tail) + k < RingLen /\ d' = fetchDescriptors(c)
        /\ UNCHANGED <<landed, dd, clean, dma, splitCount, rxDmaPacket, pktDone>>
    BY <1>16 DEF WriteRDT, copy
  <2>3. RingState(d', landed', dd', clean')
    BY <1>0, <2>1, <2>2, PostState
  <2>4. Ring!WriteTail(k)
    BY <2>2 DEF Ring!WriteTail
  <2>5. d'.unused = d.unused
    <3>1. c \in DescState /\ c.unused = d.unused
      <4>1. RingState(c, landed, dd, clean)
        BY <1>0, <2>1, <2>2, PostState
      <4> QED BY <1>0, <4>1, Numbers DEF DescState
    <3> HIDE DEF c
    <3> QED BY <2>2, <3>1, KeepUnused
  <2> QED BY <1>9, <2>1, <2>2, <2>3, <2>4, <2>5 DEF Ring!Next
<1>17. CASE DriverReap
  <2>1. RingState(d', landed', dd', clean')
    BY <1>0, <1>17, ReapState DEF DriverReap
  <2>2. Ring!Next
    BY <1>17 DEF DriverReap, Ring!DriverReap, Ring!Next
  <2> QED BY <1>9, <1>17, <2>1, <2>2 DEF DriverReap, copy
<1>18. ASSUME NEW en \in RctlWrites, WriteRCTL(en) PROVE RxInv' /\ [Ring!Next]_(Ring!vars)
  <2>1. UNCHANGED <<ring, copy>>
    BY <1>18 DEF WriteRCTL
  <2> QED BY <1>0, <1>s, <2>1 DEF DmaInv, copy, ring
<1>19. CASE UNCHANGED vars
  BY <1>0, <1>19, <1>s DEF vars, DmaInv, copy, ring
<1> QED
  BY <1>1, <1>2, <1>3, <1>4, <1>5, <1>7, <1>8, <1>10, <1>11, <1>12, <1>13, <1>14,
     <1>15, <1>16, <1>17, <1>18, <1>19 DEF Next, Tick, DmaStep

\* The receive path of the card, for every ring, cache and packet size, behaves
\* as the descriptor ring promises: rxStateMachine(), pktComplete(), the timers
\* and the register writes use the descriptor cache only as DescRing allows.
THEOREM RxImplementsRing == Spec => ImplementsRing
<1>1. Spec => []RxInv
  BY InitRx, StepRx, PTL DEF Spec
<1> QED BY <1>1, InitRx, StepRx, PTL DEF Spec, ImplementsRing, Ring!Spec
=============================================================================
