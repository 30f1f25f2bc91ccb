---------------------------- MODULE IgbeTxProofs ----------------------------
(***************************************************************************)
(* The transmit path implements the descriptor ring, through drains and    *)
(* restores, and a checkpoint in timing mode misses no DMA.  It needs that *)
(* the port's DMAs and the completion events are those the descriptor      *)
(* cache and the state machine wait for: that is Lanes.                    *)
(***************************************************************************)
EXTENDS IgbeTx, DescCacheProofs

\* The member functions DescRing uses are those the transmit path calls.
LEMMA SameFunctions ==
    /\ Ring!EmptyDesc = EmptyDesc /\ Ring!Slots = Slots
    /\ \A i : Ring!Wrap(i) = Wrap(i)
    /\ \A a, b : Ring!Dist(a, b) = Dist(a, b)
    /\ \A c, m : Ring!writeback(c, m) = writeback(c, m)
    /\ \A c : Ring!fetchDescriptors(c) = fetchDescriptors(c)
    /\ \A c : Ring!fetchComplete(c) = fetchComplete(c)
    /\ \A c, f : Ring!wbComplete(c, f) = wbComplete(c, f)
    /\ \A c : Ring!useFront(c) = useFront(c)
<1>1. \A i : Ring!Wrap(i) = Wrap(i)
  BY DEF Wrap, Ring!Wrap
<1>2. \A a, b : Ring!Dist(a, b) = Dist(a, b)
  BY DEF Dist, Ring!Dist
<1>3. \A c, m : Ring!writeback(c, m) = writeback(c, m)
  BY DEF writeback, writebackBusy, writebackIdle, maxToWb, AlignDown,
         Ring!writeback, Ring!writebackBusy, Ring!writebackIdle, Ring!maxToWb,
         Ring!AlignDown
<1>4. \A c : Ring!fetchDescriptors(c) = fetchDescriptors(c)
  BY DEF fetchDescriptors, maxToFetch, SmallerOf,
         Ring!fetchDescriptors, Ring!maxToFetch, Ring!SmallerOf
<1>5. \A c : Ring!fetchComplete(c) = fetchComplete(c)
  BY DEF fetchComplete, Ring!fetchComplete
<1>6. \A c : Ring!retireWb(c) = retireWb(c)
  BY <1>1 DEF retireWb, Ring!retireWb
<1>7. \A c : Ring!continueWb(c) = continueWb(c)
  BY <1>3 DEF continueWb, Ring!continueWb
<1>8. \A c, f : Ring!wbComplete(c, f) = wbComplete(c, f)
  BY <1>4, <1>6, <1>7 DEF wbComplete, Ring!wbComplete
<1>9. Ring!EmptyDesc = EmptyDesc /\ Ring!Slots = Slots
  BY DEF EmptyDesc, Ring!EmptyDesc, Slots, Ring!Slots
<1>10. \A c : Ring!useFront(c) = useFront(c)
  BY DEF useFront, Ring!useFront
<1> QED BY <1>1, <1>2, <1>3, <1>4, <1>5, <1>8, <1>9, <1>10

----------------------------------------------------------------------------
(* The invariant.                                                          *)

Kinds == {"hdr", "pkt", "wb", "fetch"}

\* Each DMA is at the port or waits for its completion event, and somebody in
\* the card waits for it; the packet's DMA keeps its descriptor in front; a
\* drained system has no DMA at all, and no event but a header's in atomic mode,
\* which a restore loses.
Lanes ==
    /\ dmas \subseteq Kinds /\ events \subseteq Kinds
    /\ \A k \in Kinds : ~(k \in dmas /\ k \in events)
    /\ d.wbEv = "dma" <=> "wb" \in InFlight
    /\ "wb" \in events => landed = d.wbOut
    /\ d.fetchEv = "dma" <=> "fetch" \in InFlight
    /\ "hdr" \in InFlight \/ "pkt" \in InFlight => pktWaiting
    /\ pktWaiting => AtomicMem \/ "hdr" \in InFlight \/ "pkt" \in InFlight
    /\ ~("hdr" \in InFlight /\ "pkt" \in InFlight)
    /\ pktWaiting => d.unused # <<>>
    /\ sys = "Drained" => dmas = {} /\ events \subseteq {"hdr"} /\ (AtomicMem \/ events = {})

TxInv == RingState(d, landed, dd, clean) /\ Lanes

\* The card starts with the empty ring and no DMA.
LEMMA InitTx == Init => Ring!Init /\ TxInv
<1> SUFFICES ASSUME Init PROVE Ring!Init /\ TxInv
  OBVIOUS
<1>1. 0 \in Slots /\ <<>> \in Seq(Slots)
  BY RingAssumption DEF Slots
<1>2. EmptyDesc \in DescState
  BY <1>1 DEF EmptyDesc, DescState, EventState
<1>3. RingState(EmptyDesc, 0, [s \in Slots |-> FALSE], 0)
  BY <1>2, EmptyState DEF EmptyDesc
<1>4. Ring!Init
  BY SameFunctions DEF Init, Ring!Init, Running
<1>5. Lanes
  BY DEF Init, Lanes, InFlight, Kinds, EmptyDesc
<1> QED BY <1>3, <1>4, <1>5 DEF Init, TxInv

\* What a step must show: it keeps the invariant, and maps to the ring.
Good == TxInv' /\ [Ring!Next]_(Ring!vars)

\* One event of the state machine or a timer: the front descriptor may be used
\* (c), then written back and fetched, as DescRing allows.
LEMMA SmStep ==
    ASSUME TxInv,
           NEW c, c = d \/ (d.unused # <<>> /\ c = useFront(d)),
           NEW f \in {c, writeback(c, 0)},
           NEW a \in {f} \cup {writeback(f, m) : m \in Masks},
           d' \in {a, fetchDescriptors(a)},
           UNCHANGED <<landed, dd, clean>>, Running' = Running
    PROVE  /\ RingState(d', landed', dd', clean') /\ [Ring!Next]_(Ring!vars)
           /\ KeepsDmas(d, d') /\ d'.unused = c.unused
<1> USE SameFunctions
<1>0. RingState(d, landed, dd, clean) /\ d \in DescState
  BY Numbers DEF TxInv
<1>1. RingState(c, landed, dd, clean) /\ KeepsDmas(d, c)
  BY <1>0, UseState, UseKeepsDmas DEF KeepsDmas
<1>2. RingState(f, landed, dd, clean) /\ KeepsDmas(c, f) /\ f.unused = c.unused
  <2>1. f \in {f} \cup {writeback(f, m) : m \in Masks} /\ f \in {f, fetchDescriptors(f)}
    OBVIOUS
  <2>2. RingState(f, landed, dd, clean)
    BY <1>1, <2>1, TickState
  <2> QED BY <1>1, <2>2, CallsKeepDmas, KeepUnused, Numbers DEF KeepsDmas
<1>3. RingState(a, landed, dd, clean) /\ KeepsDmas(f, a) /\ a.unused = f.unused
  <2>1. a \in {a, fetchDescriptors(a)}
    OBVIOUS
  <2>2. RingState(a, landed, dd, clean)
    BY <1>1, <2>1, TickState
  <2>3. CASE a = f
    BY <2>2, <2>3 DEF KeepsDmas
  <2>4. ASSUME NEW m \in Masks, a = writeback(f, m)
        PROVE KeepsDmas(f, a) /\ a.unused = f.unused
    BY <1>2, <2>4, CallsKeepDmas, KeepUnused, Numbers
  <2> QED BY <2>2, <2>3, <2>4
<1>4. RingState(d', landed, dd, clean) /\ KeepsDmas(a, d') /\ d'.unused = a.unused
  <2>1. RingState(d', landed, dd, clean)
    BY <1>1, TickState
  <2> QED BY <1>3, <2>1, CallsKeepDmas, KeepUnused, Numbers DEF KeepsDmas
<1>5. [Ring!Next]_(Ring!vars)
  <2>1. CASE c = d
    <3>1. Ring!SmTick
      BY <2>1 DEF Ring!SmTick, Ring!SmCalls
    <3> QED BY <3>1 DEF Ring!Next
  <2>2. CASE d.unused # <<>> /\ c = useFront(d)
    <3>1. Ring!SmUseTick
      BY <2>2 DEF Ring!SmUseTick, Ring!SmCalls
    <3> QED BY <3>1 DEF Ring!Next
  <2> QED BY <2>1, <2>2
<1>6. KeepsDmas(d, d')
  BY <1>1, <1>2, <1>3, <1>4 DEF KeepsDmas
<1> QED BY <1>2, <1>3, <1>4, <1>5, <1>6

\* A step that leaves the DMAs, the packet in progress and the ring's DMAs alone.
LEMMA QuietLanes ==
    ASSUME TxInv, KeepsDmas(d, d'), UNCHANGED <<landed, dmas, events, pktWaiting, sys>>,
           pktWaiting => d'.unused # <<>>
    PROVE  Lanes'
BY DEF TxInv, Lanes, InFlight, KeepsDmas
\* processContextDesc() uses at most the front descriptor.
LEMMA ContextUses ==
    contextDesc = d \/ (contextDesc = useFront(d))
BY DEF contextDesc

\* The ticks of the transmit state machine.
LEMMA TickStep == TxInv /\ Tick => Good
<1> SUFFICES ASSUME TxInv, Tick PROVE Good
  OBVIOUS
<1> USE DEF Good
<1>0. RingState(d, landed, dd, clean) /\ d \in DescState /\ Lanes
  BY Numbers DEF TxInv
<1>m. 3 \in Masks
  BY TxAssumption
<1>k. KeepsDmas(d, d)
  BY DEF KeepsDmas
<1>1. CASE TickDisabled \/ TickWire \/ TickWaiting
  <2>1. UNCHANGED <<d, landed, dd, clean, ds, dmas, events, pktWaiting, sys>>
    BY <1>1 DEF TickDisabled, TickWire, TickWaiting, Scan, ring, cache, drain
  <2>2. Lanes'
    BY <1>0, <1>k, <2>1, QuietLanes DEF Lanes, KeepsDmas
  <2> QED BY <1>0, <2>1, <2>2 DEF TxInv, Ring!vars, Running
<1>2. CASE TickPush \/ TickNoDescs \/ TickFetch
  <2>1. UNCHANGED <<landed, dd, clean, ds, dmas, events, pktWaiting, sys>>
        /\ d' \in {writeback(d, 3), fetchDescriptors(writeback(d, 0)), fetchDescriptors(d)}
    BY <1>2 DEF TickPush, TickNoDescs, TickFetch, noDescs, Scan, ring, cache, drain
  <2>2. Running' = Running
    BY <2>1 DEF Running
  <2>3. CASE d' = writeback(d, 3)
    <3>1. writeback(d, 3) \in {d} \cup {writeback(d, m) : m \in Masks}
      BY <1>m
    <3>2. RingState(d', landed', dd', clean') /\ [Ring!Next]_(Ring!vars)
          /\ KeepsDmas(d, d') /\ d'.unused = d.unused
      BY <2>1, <2>2, <2>3, <3>1, SmStep
    <3> QED BY <1>0, <2>1, <3>2, QuietLanes DEF TxInv, Lanes
  <2>4. CASE d' = fetchDescriptors(writeback(d, 0))
    <3>1. RingState(d', landed', dd', clean') /\ [Ring!Next]_(Ring!vars)
          /\ KeepsDmas(d, d') /\ d'.unused = d.unused
      BY <2>1, <2>2, <2>4, SmStep
    <3> QED BY <1>0, <2>1, <3>1, QuietLanes DEF TxInv, Lanes
  <2>5. CASE d' = fetchDescriptors(d)
    <3>1. RingState(d', landed', dd', clean') /\ [Ring!Next]_(Ring!vars)
          /\ KeepsDmas(d, d') /\ d'.unused = d.unused
      BY <2>1, <2>2, <2>5, SmStep
    <3> QED BY <1>0, <2>1, <3>1, QuietLanes DEF TxInv, Lanes
  <2> QED BY <2>1, <2>3, <2>4, <2>5
<1>3. CASE TickNoData \/ TickFifoFull
  <2>1. UNCHANGED <<landed, dd, clean, ds, dmas, events, pktWaiting, sys>>
        /\ ~pktWaiting /\ d.unused # <<>>
        /\ d' \in {contextDesc, writeback(contextDesc, 0)}
    BY <1>3 DEF TickNoData, TickFifoFull, Scan, Ready, drain
  <2>2. Running' = Running
    BY <2>1 DEF Running
  <2>3. RingState(d', landed', dd', clean') /\ [Ring!Next]_(Ring!vars) /\ KeepsDmas(d, d')
    BY <2>1, <2>2, ContextUses, SmStep
  <2> QED BY <2>1, <2>3, QuietLanes DEF TxInv
<1>4. CASE TickHeader \/ TickGetData
  <2>1. UNCHANGED <<landed, dd, clean, ds, events, sys>> /\ Alive
        /\ ~pktWaiting /\ pktWaiting' /\ d.unused # <<>> /\ contextDesc.unused # <<>>
        /\ d' = contextDesc /\ (dmas' = dmas \cup {"hdr"} \/ dmas' = dmas \cup {"pkt"})
    BY <1>4 DEF TickHeader, TickGetData, Scan, Ready, drain, wantsHeader, Ticking
  <2>2. Running' = Running
    BY <2>1 DEF Running
  <2>3. RingState(d', landed', dd', clean') /\ [Ring!Next]_(Ring!vars) /\ KeepsDmas(d, d')
    BY <2>1, <2>2, ContextUses, SmStep
  <2>4. Lanes'
    BY <1>0, <2>1, <2>3 DEF Lanes, InFlight, KeepsDmas, Kinds, Alive
  <2> QED BY <2>3, <2>4 DEF TxInv
<1> QED BY <1>1, <1>2, <1>3, <1>4 DEF Tick

\* A completion event runs in a system that is not drained; a draining card may
\* become drained.
LEMMA CompletionFacts ==
    ASSUME NEW k \in Kinds, Complete(k),
           checkDrain(events \ {k}) \/ UNCHANGED ds
    PROVE  /\ k \in events /\ events' = events \ {k} /\ Alive
           /\ UNCHANGED <<dd, clean, dmas, sys>> /\ Running' = Running
BY DEF Complete, checkDrain, Running, host, fifo

\* The completions of the packet's DMAs.
LEMMA PacketDone ==
    ASSUME TxInv, HeaderComplete \/ PktPartial \/ PktComplete
    PROVE  Good
<1> USE DEF Good
<1>0. RingState(d, landed, dd, clean) /\ d \in DescState /\ Lanes
  BY Numbers DEF TxInv
<1>m. 3 \in Masks
  BY TxAssumption
<1>1. PICK k \in {"hdr", "pkt"} :
        /\ k \in events /\ events' = events \ {k} /\ Alive
        /\ UNCHANGED <<landed, dd, clean, dmas, sys>> /\ Running' = Running
        /\ pktWaiting' = FALSE
  BY CompletionFacts DEF HeaderComplete, PktPartial, PktComplete, Kinds
<1>2. d.unused # <<>>
  BY <1>0, <1>1 DEF Lanes, InFlight
<1>3. PICK c \in {d, useFront(d)} : d' \in {c, writeback(c, 0), writeback(c, 3)}
  <2>1. CASE HeaderComplete
    BY <2>1 DEF HeaderComplete
  <2>2. CASE PktPartial
    BY <2>2 DEF PktPartial
  <2>3. CASE PktComplete
    <3>1. PICK done \in BOOLEAN : d' = wbAfterPkt(IF done THEN useFront(d) ELSE d)
      BY <2>3 DEF PktComplete
    <3>2. \A c : wbAfterPkt(c) \in {c, writeback(c, 0), writeback(c, 3)}
      BY DEF wbAfterPkt
    <3> QED BY <3>1, <3>2
  <2> QED BY <2>1, <2>2, <2>3
<1>4. RingState(d', landed', dd', clean') /\ [Ring!Next]_(Ring!vars) /\ KeepsDmas(d, d')
  <2>1. CASE d' \in {c, writeback(c, 0)}
    BY <1>1, <1>2, <1>3, <2>1, SmStep
  <2>2. CASE d' = writeback(c, 3)
    <3>1. writeback(c, 3) \in {c} \cup {writeback(c, m) : m \in Masks}
      BY <1>m
    <3> QED BY <1>1, <1>2, <1>3, <2>2, <3>1, SmStep
  <2> QED BY <1>3, <2>1, <2>2
<1>5. Lanes'
  BY <1>0, <1>1, <1>4 DEF Lanes, InFlight, KeepsDmas, Kinds, Alive
<1> QED BY <1>4, <1>5 DEF TxInv
\* The completions of writebacks and fetches.
LEMMA CacheDone ==
    ASSUME TxInv, WbComplete \/ FetchComplete
    PROVE  Good
<1> USE SameFunctions DEF Good
<1>0. RingState(d, landed, dd, clean) /\ d \in DescState /\ Lanes
  BY Numbers DEF TxInv
<1>1. CASE WbComplete
  <2>1. /\ "wb" \in events /\ events' = events \ {"wb"} /\ Alive
        /\ UNCHANGED <<dd, clean, dmas, sys, pktWaiting>> /\ Running' = Running
        /\ landed' = 0 /\ d' = wbComplete(d, ~txTick /\ Running)
    BY <1>1, CompletionFacts DEF WbComplete, Kinds, cache, fetchAfterWb
  <2>2. d.wbEv = "dma" /\ landed = d.wbOut
    BY <1>0, <2>1 DEF Lanes, InFlight
  <2>3. (~txTick) \in BOOLEAN /\ (~txTick /\ Running) \in BOOLEAN
    OBVIOUS
  <2>4. RingState(d', landed', dd', clean')
    BY <1>0, <2>1, <2>2, <2>3, CompleteState
  <2>5. Ring!WbComplete
    BY <2>1, <2>2, <2>3 DEF Ring!WbComplete
  <2>6. d'.wbEv # "dma" /\ (d'.fetchEv = "dma" <=> d.fetchEv = "dma") /\ d'.unused = d.unused
    BY <1>0, <2>1, <2>2, <2>3, WbCompleteKeeps
  <2>7. Lanes'
    BY <1>0, <2>1, <2>6 DEF Lanes, InFlight, Kinds, Alive
  <2> QED BY <2>4, <2>5, <2>7 DEF TxInv, Ring!Next
<1>2. CASE FetchComplete
  <2>1. /\ "fetch" \in events /\ events' = events \ {"fetch"} /\ Alive
        /\ UNCHANGED <<landed, dd, clean, dmas, sys, pktWaiting>> /\ Running' = Running
        /\ d' = fetchComplete(d)
    BY <1>2, CompletionFacts DEF FetchComplete, Kinds, cache
  <2>2. d.fetchEv = "dma"
    BY <1>0, <2>1 DEF Lanes, InFlight
  <2>3. RingState(d', landed', dd', clean')
    BY <1>0, <2>1, FetchedState
  <2>4. Ring!FetchComplete
    BY <2>1, <2>2 DEF Ring!FetchComplete
  <2>5. d'.wbEv = d.wbEv /\ d'.wbOut = d.wbOut /\ d'.fetchEv = "none"
    BY <1>0, <2>1 DEF fetchComplete, DescState
  <2>6. d.unused # <<>> => d'.unused # <<>>
    BY <1>0, <2>1, FetchedUnused
  <2>7. Lanes'
    BY <1>0, <2>1, <2>5, <2>6 DEF Lanes, InFlight, Kinds, Alive
  <2> QED BY <2>3, <2>4, <2>7 DEF TxInv, Ring!Next
<1> QED BY <1>1, <1>2

\* DMAs are issued, reach memory, and are answered.
LEMMA DmaStep ==
    ASSUME TxInv,
           Writeback1 \/ FetchDescriptors1 \/ WbLand \/ (\E k \in dmas : DmaResp(k))
    PROVE  Good
<1> USE SameFunctions DEF Good
<1>0. RingState(d, landed, dd, clean) /\ d \in DescState /\ Lanes
  BY Numbers DEF TxInv
<1>1. CASE Writeback1
  <2>1. /\ d.wbEv = "delay" /\ Running /\ Running' = Running /\ Alive
        /\ d' = [d EXCEPT !.wbEv = "dma"] /\ dmas' = dmas \cup {"wb"}
        /\ UNCHANGED <<landed, dd, clean, events, sys, pktWaiting>>
    BY <1>1 DEF Writeback1, Running, drain, cache
  <2>2. RingState(d', landed', dd', clean')
    BY <1>0, <2>1, IssueState
  <2>3. Ring!Writeback1
    BY <2>1 DEF Ring!Writeback1
  <2>4. d'.wbEv = "dma" /\ d'.fetchEv = d.fetchEv /\ d'.unused = d.unused
    BY <1>0, <2>1 DEF DescState
  <2>5. Lanes'
    BY <1>0, <2>1, <2>4 DEF Lanes, InFlight, Kinds, Alive
  <2> QED BY <2>2, <2>3, <2>5 DEF TxInv, Ring!Next
<1>2. CASE FetchDescriptors1
  <2>1. /\ d.fetchEv = "delay" /\ Running /\ Running' = Running /\ Alive
        /\ d' = [d EXCEPT !.fetchEv = "dma"] /\ dmas' = dmas \cup {"fetch"}
        /\ UNCHANGED <<landed, dd, clean, events, sys, pktWaiting>>
    BY <1>2 DEF FetchDescriptors1, Running, drain, cache
  <2>2. RingState(d', landed', dd', clean')
    BY <1>0, <2>1, IssueState
  <2>3. Ring!FetchDescriptors1
    BY <2>1 DEF Ring!FetchDescriptors1
  <2>4. d'.fetchEv = "dma" /\ d'.wbEv = d.wbEv /\ d'.wbOut = d.wbOut /\ d'.unused = d.unused
    BY <1>0, <2>1 DEF DescState
  <2>5. Lanes'
    BY <1>0, <2>1, <2>4 DEF Lanes, InFlight, Kinds, Alive
  <2> QED BY <2>2, <2>3, <2>5 DEF TxInv, Ring!Next
<1>3. CASE WbLand
  <2>1. /\ "wb" \in dmas /\ landed < d.wbOut /\ Running' = Running
        /\ dd' = [dd EXCEPT ![d.head + landed] = TRUE] /\ landed' = landed + 1
        /\ UNCHANGED <<d, clean, dmas, events, sys, pktWaiting>>
    BY <1>3 DEF WbLand, Running, drain, cache
  <2>2. d.wbEv = "dma" /\ "wb" \notin events
    BY <1>0, <2>1 DEF Lanes, InFlight, Kinds
  <2>3. RingState(d', landed', dd', clean')
    BY <1>0, <2>1, <2>2, LandState
  <2>4. Ring!WbLand
    BY <2>1, <2>2 DEF Ring!WbLand
  <2>5. Lanes'
    BY <1>0, <2>1, <2>2 DEF Lanes, InFlight
  <2> QED BY <2>3, <2>4, <2>5 DEF TxInv, Ring!Next
<1>4. ASSUME NEW k \in dmas, DmaResp(k) PROVE Good
  <2>1. /\ k \in Kinds /\ dmas' = dmas \ {k} /\ events' = events \cup {k} /\ Alive
        /\ (k = "wb" => landed = d.wbOut)
        /\ UNCHANGED <<d, landed, dd, clean, ds, sys, pktWaiting>>
    BY <1>0, <1>4 DEF DmaResp, Lanes, ring, cache
  <2>2. InFlight' = InFlight
    BY <1>4, <2>1 DEF InFlight
  <2>3. Lanes'
    BY <1>0, <2>1, <2>2 DEF Lanes, Alive
  <2> QED BY <1>0, <2>1, <2>3 DEF TxInv, Ring!vars, Running
<1> QED BY <1>1, <1>2, <1>3, <1>4

\* The link, the timers and the driver.
LEMMA OutsideStep ==
    ASSUME TxInv,
           \/ EthTxDone \/ DriverReap
           \/ \E t \in timers : TimerExpires(t)
           \/ \E job \in Jobs : WriteTDT(job)
           \/ \E en \in TctlWrites : WriteTCTL(en)
    PROVE  Good
<1> USE SameFunctions DEF Good
<1>0. RingState(d, landed, dd, clean) /\ d \in DescState /\ Lanes
  BY Numbers DEF TxInv
<1>1. CASE EthTxDone \/ (\E en \in TctlWrites : WriteTCTL(en))
  <2>1. UNCHANGED <<d, landed, dd, clean, ds, dmas, events, pktWaiting, sys>>
    BY <1>1 DEF EthTxDone, WriteTCTL, oldtctl, ring, cache, drain
  <2>2. Lanes'
    BY <1>0, <2>1 DEF Lanes, InFlight
  <2> QED BY <1>0, <2>1, <2>2 DEF TxInv, Ring!vars, Running
<1>2. CASE DriverReap
  <2>1. /\ dd[clean] /\ dd' = [dd EXCEPT ![clean] = FALSE] /\ clean' = Wrap(clean + 1)
        /\ UNCHANGED <<d, landed, ds, dmas, events, pktWaiting, sys>>
    BY <1>2 DEF DriverReap, cache, drain
  <2>2. RingState(d', landed', dd', clean')
    BY <1>0, <2>1, ReapState
  <2>3. Ring!DriverReap
    BY <2>1 DEF Ring!DriverReap, Running
  <2>4. Lanes'
    BY <1>0, <2>1 DEF Lanes, InFlight
  <2> QED BY <2>2, <2>3, <2>4 DEF TxInv, Ring!Next
<1>3. ASSUME NEW t \in timers, TimerExpires(t) PROVE Good
  <2>1. d' = writeback(d, 0) /\ Running' = Running
        /\ UNCHANGED <<landed, dd, clean, dmas, events, pktWaiting, sys>>
    BY <1>3 DEF TimerExpires, Running, cache, drain
  <2>2. RingState(d', landed', dd', clean') /\ [Ring!Next]_(Ring!vars)
        /\ KeepsDmas(d, d') /\ d'.unused = d.unused
    BY <2>1, SmStep
  <2> QED BY <1>0, <2>1, <2>2, QuietLanes DEF TxInv, Lanes
<1>4. ASSUME NEW job \in Jobs, WriteTDT(job) PROVE Good
  <2> DEFINE k == Len(job)
             c == [d EXCEPT !.tail = Wrap(d.tail + k)]
  <2>1. k \in Nat /\ k \in 1..(RingLen - 1)
    BY JobAssumption, RingAssumption, LenProperties
  <2>2. Dist(clean, d.tail) + k < RingLen /\ Running' = Running
        /\ d' = (IF Running THEN fetchDescriptors(c) ELSE c)
        /\ UNCHANGED <<landed, dd, clean, dmas, events, pktWaiting, sys>>
    BY <1>4 DEF WriteTDT, Running, cache, drain
  <2> HIDE DEF k
  <2>3. RingState(d', landed', dd', clean') /\ RingState(c, landed, dd, clean)
    BY <1>0, <2>1, <2>2, PostState
  <2>4. Ring!WriteTail(k)
    BY <2>2 DEF Ring!WriteTail
  <2>5. KeepsDmas(d, c) /\ c.unused = d.unused
    BY <1>0 DEF KeepsDmas, DescState
  <2> HIDE DEF c
  <2>6. KeepsDmas(c, fetchDescriptors(c)) /\ fetchDescriptors(c).unused = c.unused
    BY <2>3, CallsKeepDmas, KeepUnused, Numbers
  <2>7. KeepsDmas(d, d') /\ d'.unused = d.unused
    BY <2>2, <2>5, <2>6 DEF KeepsDmas
  <2>8. Lanes'
    BY <1>0, <2>2, <2>7, QuietLanes DEF Lanes
  <2> QED BY <2>1, <2>3, <2>4, <2>8 DEF TxInv, Ring!Next
<1> QED BY <1>1, <1>2, <1>3, <1>4

\* Draining, resuming and restoring.
LEMMA DrainStep ==
    ASSUME TxInv, TryDrain \/ Resume \/ Restore
    PROVE  Good
<1> USE DEF Good
<1>0. RingState(d, landed, dd, clean) /\ d \in DescState /\ Lanes
  BY Numbers DEF TxInv
<1>1. ASSUME UNCHANGED <<d, landed, dd, clean>> PROVE [Ring!Next]_(Ring!vars)
  <2>1. CASE Running' = Running
    BY <1>1, <2>1 DEF Ring!vars
  <2>2. CASE Running' # Running
    <3>1. Running' = ~Running
      BY <2>2 DEF Running
    <3>2. Ring!DrainToggle
      BY <1>1, <3>1 DEF Ring!DrainToggle
    <3> QED BY <3>2 DEF Ring!Next
  <2> QED BY <2>1, <2>2
<1>2. CASE TryDrain
  <2>1. UNCHANGED <<d, landed, dd, clean, dmas, events, pktWaiting>>
        /\ (AtomicMem \/ "hdr" \notin events)
    BY <1>2, TxAssumption DEF TryDrain, ring, cache
  <2>2. sys' = "Drained" => dmas = {} /\ ~hasOutstandingEvents(events)
    BY <1>2 DEF TryDrain
  <2>3. sys' = "Drained" =>
            dmas = {} /\ events \subseteq {"hdr"} /\ (AtomicMem \/ events = {})
    BY <1>0, <2>1, <2>2 DEF hasOutstandingEvents, Lanes, Kinds
  <2>4. Lanes'
    BY <1>0, <2>1, <2>3 DEF Lanes, InFlight
  <2> QED BY <1>0, <1>1, <2>1, <2>4 DEF TxInv
<1>3. CASE Resume \/ Restore
  <2>1. /\ sys = "Drained" /\ sys' = "Running" /\ d' \in {d, restored(d)}
        /\ UNCHANGED <<landed, dd, clean, pktWaiting>>
        /\ dmas' \in {dmas, {}} /\ events' \in {events, {}}
    BY <1>3 DEF Resume, Restore, Resumed, cache
  <2>2. /\ dmas = {} /\ events \subseteq {"hdr"} /\ (AtomicMem \/ events = {})
        /\ d.wbEv # "dma" /\ d.fetchEv # "dma"
    BY <1>0, <2>1 DEF Lanes, InFlight
  <2>3. restored(d) = d
    BY <1>0, <2>2 DEF restored, DescState
  <2>4. UNCHANGED <<d, landed, dd, clean, dmas, pktWaiting>>
    BY <2>1, <2>2, <2>3
  <2>5. CASE events' = events
    <3>1. Lanes'
      BY <1>0, <2>1, <2>4, <2>5 DEF Lanes, InFlight
    <3> QED BY <1>0, <1>1, <2>4, <3>1 DEF TxInv
  <2>6. CASE events' = {}
    <3>1. Lanes'
      BY <1>0, <2>1, <2>2, <2>4, <2>6 DEF Lanes, InFlight
    <3> QED BY <1>0, <1>1, <2>4, <3>1 DEF TxInv
  <2> QED BY <2>1, <2>5, <2>6
<1> QED BY <1>2, <1>3

\* Each step keeps the invariant, and maps to a step of the ring or a stutter.
LEMMA StepTx == TxInv /\ [Next]_vars => Good
<1> SUFFICES ASSUME TxInv, [Next]_vars PROVE Good
  OBVIOUS
<1>1. CASE UNCHANGED vars
  <2>1. UNCHANGED <<d, landed, dd, clean, ds, dmas, events, pktWaiting, sys>>
    BY <1>1 DEF vars, ring, cache, drain
  <2> QED BY <2>1 DEF Good, TxInv, Lanes, InFlight, Ring!vars, Running
<1> QED
  BY <1>1, TickStep, PacketDone, CacheDone, DmaStep, OutsideStep, DrainStep
     DEF Next, Completion

----------------------------------------------------------------------------
(* The theorems.                                                           *)

\* The transmit path of the card, for all jobs, rings, caches and thresholds and
\* any number of drains and restores, uses the descriptor cache only as DescRing
\* allows: txStateMachine(), headerComplete(), pktComplete(), the timers, the
\* register writes, drain(), drainResume() and unserialize().
THEOREM TxImplementsRing == Spec => ImplementsRing
<1>1. Spec => []TxInv
  BY InitTx, StepTx, PTL DEF Spec, Good
<1> QED BY <1>1, InitTx, StepTx, PTL DEF Spec, ImplementsRing, Ring!Spec, Good

\* In timing mode, when the simulator has drained, no DMA and no completion event
\* of the card is under way, although drain() does not look at headerEvent: what
\* serialize() leaves out does not exist.  In atomic mode this is false.
THEOREM CheckpointAlwaysComplete == ~AtomicMem => (Spec => []CheckpointComplete)
<1> SUFFICES ASSUME ~AtomicMem PROVE Spec => []CheckpointComplete
  OBVIOUS
<1>1. TxInv => CheckpointComplete
  BY DEF TxInv, Lanes, CheckpointComplete, InFlight
<1>2. Spec => []TxInv
  BY InitTx, StepTx, PTL DEF Spec, Good
<1> QED BY <1>1, <1>2, PTL
=============================================================================
