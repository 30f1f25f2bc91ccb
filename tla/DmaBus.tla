------------------------------- MODULE DmaBus -------------------------------
(***************************************************************************)
(* The way of a DMA: the DMA ports of the devices, the I/O bus             *)
(* (NoncoherentXBar) with its request layer towards the I/O cache and one  *)
(* response layer per device, and the side of the cache that faces the     *)
(* bus.  Below the cache memory answers in any order.                      *)
(*                                                                         *)
(* A call through several objects is one step, as in the simulator: a DMA  *)
(* port that sends a packet goes through the layer into the cache, and a   *)
(* layer that calls a port back ends in that port's next attempt.          *)
(***************************************************************************)
EXTENDS DmaPort, CachePort, XBarLayer, FiniteSets, FiniteSetsExt, Functions

CONSTANTS
    Ports,          \* the devices on the bus
    Dmas,           \* [addr, size] of the DMAs that devices start
    MaxBytes        \* bound: bytes of the DMAs that are started

ASSUME BusAssumption ==
    /\ NoPort \notin Ports /\ MaxBytes \in Nat
    /\ \A m \in Dmas : /\ m.addr \in Nat /\ m.size \in Nat \ {0}
                        /\ \A a \in m.addr..(m.addr + m.size - 1) : a \div LineSize \in Lines

VARIABLES
    dma,            \* the DMA ports
    launched,       \* bytes of the DMAs started
    reqLayer,       \* the layer towards the cache; its sources are the DMA ports
    cache,
    respLayer,      \* the layer towards each device; the cache is its only source
    wire            \* responses in the queues of the bus towards each device

vars == <<dma, launched, reqLayer, cache, respLayer, wire>>
below == <<respLayer, wire>>

Init ==
    /\ dma = [p \in Ports |-> IdlePort] /\ launched = 0
    /\ reqLayer = IdleLayer /\ cache = IdleCache
    /\ respLayer = [p \in Ports |-> IdleLayer] /\ wire = [p \in Ports |-> <<>>]

----------------------------------------------------------------------------
(* Requests.                                                               *)

\* Port p, in state d, offers its next packet to layer l and, through
\* NoncoherentXBar::recvTimingReq(), to cache c.  The bus notes in routeTo where
\* the response has to go: here a packet carries its port.
trySendTimingReq(p, d, l, c) ==
    LET pkt == packetToSend(p, d)
        b == pkt.addr \div LineSize
    IN \E hit \in BOOLEAN :
         /\ hit => c.mshr[b].targets = <<>>
         /\ dma' = [dma EXCEPT ![p] = IF ~occupied(l) /\ takes(c) THEN sent(d) ELSE failed(p, d)]
         /\ reqLayer' = retried(offer(l, p, takes(c)))
         /\ cache' = IF occupied(l) THEN c ELSE recvTimingReq(c, b, pkt, hit)

\* sendDma() of port p, in state d.
sendDma(p, d) ==
    IF sendsAtOnce(d) THEN trySendTimingReq(p, d, reqLayer, cache)
    ELSE dma' = [dma EXCEPT ![p] = d] /\ UNCHANGED <<reqLayer, cache>>

\* A device starts a DMA, which is known by the number of bytes asked for so far.
Launch(p) ==
    /\ \E m \in Dmas :
         /\ launched + m.size <= MaxBytes
         /\ launched' = launched + m.size
         /\ sendDma(p, queueDma(dma[p], launched + m.size, m.addr, m.size))
    /\ UNCHANGED below

\* sendEvent of a DMA port.
SendDma(p) ==
    /\ dma[p].sendEvent
    /\ sendDma(p, [dma[p] EXCEPT !.sendEvent = FALSE])
    /\ UNCHANGED <<launched, below>>

\* The layer is l and free: it calls back the first port that waits, if any.
CallBack(l, c) ==
    IF callsBack(l)
    THEN trySendTimingReq(retryingPort(l), dma[retryingPort(l)], retryWaiting(l), c)
    ELSE reqLayer' = l /\ cache' = c /\ UNCHANGED dma

\* releaseEvent of the request layer.
ReleaseReq ==
    /\ reqLayer.state = "BUSY"
    /\ CallBack(releaseLayer(reqLayer), cache)
    /\ UNCHANGED <<launched, below>>

\* sendRetryEvent of the cache.
SendRetry ==
    /\ cache.sendRetryEvent
    /\ CallBack(recvRetry(reqLayer), processSendRetry(cache))
    /\ UNCHANGED <<launched, below>>

\* Memory answers the miss on line b.
Fill(b) ==
    /\ cache.mshr[b].targets # <<>>
    /\ \E n \in 1..Len(cache.mshr[b].targets), evicts \in BOOLEAN :
         /\ evicts => ~cache.mshr[b].filled
         /\ cache' = recvTimingResp(cache, b, n, evicts)
    /\ UNCHANGED <<dma, launched, reqLayer, below>>

\* A dirty line leaves the write buffer.
Writeback ==
    /\ cache.writes > 0
    /\ cache' = writebackSent(cache)
    /\ UNCHANGED <<dma, launched, reqLayer, below>>

----------------------------------------------------------------------------
(* Responses.                                                              *)

\* PacketQueue::sendDeferredPacket() of cache c, and recvTimingResp() of the bus.  A
\* packet that is refused is put back at the front.
sendDeferredPacket(c, layers) ==
    \E i \in 1..Len(c.queue) :
        LET pkt == c.queue[i]
            p == pkt.port
            rest == SubSeq(c.queue, 1, i - 1) \o SubSeq(c.queue, i + 1, Len(c.queue))
            refused == occupied(layers[p])
        IN /\ mayBeFront(cache, i)
           /\ cache' = [c EXCEPT !.waitingOnRetry = refused,
                                 !.queue = IF refused THEN <<pkt>> \o rest ELSE rest]
           /\ wire' = IF refused THEN wire ELSE [wire EXCEPT ![p] = Append(wire[p], pkt)]
           /\ respLayer' = [q \in Ports |->
                 IF q = p THEN offer(layers[q], "cache", TRUE) ELSE retried(layers[q])]

\* The queue's sendEvent.
SendResp ==
    /\ cache.queue # <<>> /\ ~cache.waitingOnRetry
    /\ sendDeferredPacket(cache, respLayer)
    /\ UNCHANGED <<dma, launched, reqLayer>>

\* releaseEvent of the response layer of p; the cache's queue is called back.
ReleaseResp(p) ==
    /\ respLayer[p].state = "BUSY"
    /\ LET l == releaseLayer(respLayer[p])
       IN IF callsBack(l)
          THEN sendDeferredPacket([cache EXCEPT !.waitingOnRetry = FALSE],
                                  [respLayer EXCEPT ![p] = retryWaiting(l)])
          ELSE respLayer' = [respLayer EXCEPT ![p] = l] /\ UNCHANGED <<cache, wire>>
    /\ UNCHANGED <<dma, launched, reqLayer>>

\* The bus hands p a response, which is never refused: DmaPort::recvTimingResp().
Deliver(p) ==
    /\ wire[p] # <<>>
    /\ wire' = [wire EXCEPT ![p] = Tail(wire[p])]
    /\ dma' = [dma EXCEPT ![p] = handleResp(dma[p], Head(wire[p]))]
    /\ UNCHANGED <<launched, reqLayer, cache, respLayer>>

Step ==
    \/ \E p \in Ports : SendDma(p) \/ ReleaseResp(p) \/ Deliver(p)
    \/ \E b \in Lines : Fill(b)
    \/ ReleaseReq \/ SendRetry \/ Writeback \/ SendResp

Next == Step \/ \E p \in Ports : Launch(p)

\* The simulator goes on while there is an event to run or memory has to answer.
Fairness == WF_vars(Step)

Spec == Init /\ [][Next]_vars
FairSpec == Spec /\ Fairness

----------------------------------------------------------------------------
(* Properties.                                                             *)

waits(p) == {i \in 1..Len(reqLayer.waitingForLayer) : reqLayer.waitingForLayer[i] = p}

\* The asserts of the DMA port, the layers, the cache's port and its queue hold: a
\* port waits at most once in a layer (xbar.cc:196) and a retry always finds who
\* failed (xbar.cc:311) with something to send (dma_device.cc:190); sendEvent and
\* sendRetryEvent are not scheduled twice; a cache that unblocks was blocked
\* (base.cc:170), for the resource that is exhausted; a queue that is called back
\* waits (packet_queue.cc:69); no DMA gets more bytes than it has, and pendingCount
\* does not go below 0.
BusAsserts ==
    /\ \A p \in Ports : Cardinality(waits(p)) <= 1
    /\ cache.sendRetryEvent => reqLayer.waitingForPeer # NoPort /\ cache.causes = {}
    /\ \A p \in Ports : dma[p].sendEvent =>
          dma[p].inRetry = <<>> /\ dma[p].transmitList # <<>>
    /\ \A p \in Ports : dma[p].inRetry # <<>> => dma[p].transmitList # <<>>
    /\ "NoMSHRs" \in cache.causes <=> mshrsFull(cache)
    /\ "NoWBBuffers" \in cache.causes <=> writesFull(cache)
    /\ "NoTargets" \in cache.causes <=> cache.noTarget # NoLine
    /\ \A p \in Ports : respLayer[p].waitingForPeer = NoPort
    /\ \A p \in Ports : respLayer[p].waitingForLayer # <<>> =>
          cache.waitingOnRetry /\ cache.queue # <<>> /\ Head(cache.queue).port = p
    /\ \A p \in Ports :
          /\ dma[p].pendingCount >= 0
          /\ \A i \in DOMAIN dma[p].reqs : dma[p].reqs[i].numBytes < dma[p].reqs[i].totBytes

\* Who is turned away is called back: a port with a packet to retry waits for the
\* layer or for the cache; ports wait only for a layer that will be released or for
\* the cache; the cache owes a retry exactly to the port that waits for it, and is
\* blocked or has scheduled it; a cache that is blocked has what will unblock it;
\* a DMA port with something to send has an event or a packet to retry; the cache's
\* response queue waits only for a layer that is busy.
RetryOwed ==
    /\ \A p \in Ports : dma[p].inRetry # <<>> <=> p = reqLayer.waitingForPeer \/ waits(p) # {}
    /\ reqLayer.waitingForLayer # <<>> => reqLayer.state = "BUSY" \/ reqLayer.waitingForPeer # NoPort
    /\ reqLayer.waitingForPeer # NoPort <=> cache.mustSendRetry
    /\ cache.mustSendRetry => cache.causes # {} \/ cache.sendRetryEvent
    /\ cache.causes # {} => cache.writes > 0 \/ \E b \in Lines : cache.mshr[b].targets # <<>>
    /\ \A p \in Ports : dma[p].transmitList # <<>> => dma[p].sendEvent \/ dma[p].inRetry # <<>>
    /\ cache.waitingOnRetry =>
          \E p \in Ports : respLayer[p].state = "BUSY" /\ respLayer[p].waitingForLayer # <<>>

\* The packets of the DMAs of p between the request layer and the port.
inFlight(p) ==
    LET ofPort(pkt) == pkt.port = p
        missing(b) == SelectSeq(cache.mshr[b].targets, ofPort)
    IN wire[p] \o SelectSeq(cache.queue, ofPort) \o
       FoldSet(LAMBDA b, s : s \o missing(b), <<>>, Lines)

ofDma(p, i) == LET ofReq(pkt) == pkt.req = i IN SelectSeq(inFlight(p), ofReq)

\* A DMA is moved once and whole: the bytes answered, the bytes in flight and the
\* bytes still to be sent are those of the DMA, and none of them is in two of these;
\* so its DmaReqState is deleted when its last packet has come back and not before.
\* No packet crosses a line, and only the one with the first byte is marked as the
\* header that DDIO treats apart.
BytesExact ==
    \A p \in Ports :
      /\ \A x \in Range(inFlight(p) \o dma[p].transmitList) : x.req \in DOMAIN dma[p].reqs
      /\ \A i \in DOMAIN dma[p].reqs :
           LET r == dma[p].reqs[i]
               flying == ofDma(p, i)
               unsent == UNION {t.gen.curAddr..(r.addr + r.totBytes - 1) :
                                   t \in {u \in Range(dma[p].transmitList) : u.req = i}}
           IN /\ r.moved \cup unsent \cup UNION {bytesOf(flying[n]) : n \in 1..Len(flying)}
                    = r.addr..(r.addr + r.totBytes - 1)
              /\ r.numBytes + Cardinality(unsent)
                    + FoldSet(LAMBDA n, s : s + flying[n].size, 0, 1..Len(flying)) = r.totBytes
              /\ \A n \in 1..Len(flying) :
                   LET pkt == flying[n]
                   IN /\ pkt.addr \div LineSize = (pkt.addr + pkt.size - 1) \div LineSize
                      /\ pkt.head <=> pkt.addr = r.addr

\* What the drain() of the DMA ports, the layers, the queues of packets, the MSHRs
\* and the write buffer answer, each from its own state.
allDrained ==
    /\ \A p \in Ports : dma[p].pendingCount = 0 /\ respLayer[p].state = "IDLE" /\ wire[p] = <<>>
    /\ reqLayer.state = "IDLE" /\ cache.queue = <<>> /\ cache.allocated = 0 /\ cache.writes = 0

\* When all of them answer that they are drained, no DMA is anywhere on its way, no
\* port waits to be called back and no event is left, although a layer that waits
\* for the cache calls itself drained.
DrainedIsEmpty ==
    allDrained =>
        /\ \A p \in Ports : /\ DOMAIN dma[p].reqs = {} /\ dma[p].transmitList = <<>>
                            /\ dma[p].inRetry = <<>> /\ ~dma[p].sendEvent
                            /\ inFlight(p) = <<>> /\ respLayer[p].waitingForLayer = <<>>
        /\ reqLayer = IdleLayer /\ cache = IdleCache

\* "Every MSHR may eventually require a writeback, and we do not check the write
\* buffer before committing to an MSHR": its reserve of one entry per MSHR is enough.
WriteBufferFits == cache.writes <= NumWrites + NumMshrs

\* Every DMA that is started completes, however often its packets are refused.
EveryDmaCompletes ==
    \A p \in Ports : dma[p].pendingCount > 0 ~> dma[p].pendingCount = 0
=============================================================================
