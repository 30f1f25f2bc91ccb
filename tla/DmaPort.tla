------------------------------- MODULE DmaPort -------------------------------
(***************************************************************************)
(* The DMA port of a device (DmaPort) in timing mode, and the              *)
(* ChunkGenerator that splits a DMA into packets of at most a cache line.  *)
(*                                                                         *)
(* The port is a record, and its member functions are operators on it.     *)
(* Sending a packet is split in two: packetToSend() is what                *)
(* trySendTimingReq() offers, and sent() or failed() what it does with the *)
(* answer.                                                                 *)
(***************************************************************************)
EXTENDS Integers, Sequences

CONSTANT LineSize       \* cacheLineSize

ASSUME LineAssumption == LineSize \in Nat \ {0}

least(a, b) == IF a < b THEN a ELSE b
roundUp(a) == ((a + LineSize - 1) \div LineSize) * LineSize

----------------------------------------------------------------------------
(* ChunkGenerator.  A chunk ends at the next line or where the DMA ends.   *)

\* Mutant: the first chunk is a whole line, wherever it starts.
chunksUnaligned(start, total) ==
    LET nextAddr == least(start + LineSize, start + total)
    IN [curAddr |-> start, nextAddr |-> nextAddr, curSize |-> nextAddr - start,
        sizeLeft |-> total - (nextAddr - start),
        nextSize |-> least(total - (nextAddr - start), LineSize), isHead |-> TRUE]

chunks(start, total) ==
    LET line == roundUp(start)
        nextAddr == least(IF line = start THEN line + LineSize ELSE line, start + total)
        sizeLeft == total - (nextAddr - start)
    IN [curAddr |-> start, nextAddr |-> nextAddr, curSize |-> nextAddr - start,
        sizeLeft |-> sizeLeft, nextSize |-> least(sizeLeft, LineSize), isHead |-> TRUE]

last(g) == g.sizeLeft = 0

\* next(), when the chunk is not the last.
nextChunk(g) ==
    LET sizeLeft == g.sizeLeft - g.nextSize
    IN [curAddr |-> g.nextAddr, nextAddr |-> g.nextAddr + g.nextSize,
        curSize |-> g.nextSize, sizeLeft |-> sizeLeft,
        nextSize |-> least(sizeLeft, LineSize), isHead |-> FALSE]

----------------------------------------------------------------------------
(* DmaPort.  A DmaReqState is in two parts: its chunk generator, which is  *)
(* in transmitList while there is something to send, and in reqs, by the   *)
(* number of the DMA, what its responses need.  `moved' are the bytes      *)
(* whose packets came back, of which the code only keeps the number.       *)

IdlePort ==
    [transmitList |-> <<>>, inRetry |-> <<>>, sendEvent |-> FALSE,
     pendingCount |-> 0, reqs |-> <<>>]

\* ddioActionAdq() up to sendDma(), which every kind of DMA ends in.
queueDma(d, id, addr, size) ==
    [d EXCEPT !.transmitList = Append(d.transmitList, [req |-> id, gen |-> chunks(addr, size)]),
              !.pendingCount = d.pendingCount + 1,
              !.reqs = [i \in DOMAIN d.reqs \cup {id} |->
                           IF i = id
                           THEN [addr |-> addr, totBytes |-> size, numBytes |-> 0, moved |-> {}]
                           ELSE d.reqs[i]]]

\* Mutant: a new DMA is sent although a packet waits for its retry.
sendsAtOnceAnyway(d) == ~d.sendEvent

\* sendDma() sends now, in the timing mode.
sendsAtOnce(d) == d.inRetry = <<>> /\ ~d.sendEvent

createPacket(p, state) ==
    [req |-> state.req, addr |-> state.gen.curAddr, size |-> state.gen.curSize,
     head |-> state.gen.isHead, port |-> p]

\* trySendTimingReq(): the packet that port p offers; then what it does when the
\* packet is taken, and when it is not.
packetToSend(p, d) ==
    IF d.inRetry # <<>> THEN Head(d.inRetry) ELSE createPacket(p, Head(d.transmitList))

sent(d) ==
    LET state == Head(d.transmitList)
        more == IF last(state.gen) THEN <<>> ELSE <<[state EXCEPT !.gen = nextChunk(state.gen)]>>
        list == more \o Tail(d.transmitList)
    IN [d EXCEPT !.inRetry = <<>>, !.transmitList = list, !.sendEvent = list # <<>>]

failed(p, d) == [d EXCEPT !.inRetry = <<packetToSend(p, d)>>]

bytesOf(pkt) == pkt.addr..(pkt.addr + pkt.size - 1)

\* Mutant: the port counts packets out that it counted in as DMAs.
handleRespEach(d, pkt) ==
    LET r == d.reqs[pkt.req]
        numBytes == r.numBytes + pkt.size
    IN [d EXCEPT !.pendingCount = d.pendingCount - 1,
                 !.reqs = IF numBytes = r.totBytes
                          THEN [i \in DOMAIN d.reqs \ {pkt.req} |-> d.reqs[i]]
                          ELSE [d.reqs EXCEPT ![pkt.req].numBytes = numBytes,
                                              ![pkt.req].moved = r.moved \cup bytesOf(pkt)]]

\* handleResp(): the last response deletes the state and completes the DMA.
handleResp(d, pkt) ==
    LET r == d.reqs[pkt.req]
        numBytes == r.numBytes + pkt.size
    IN IF numBytes = r.totBytes
       THEN [d EXCEPT !.pendingCount = d.pendingCount - 1,
                      !.reqs = [i \in DOMAIN d.reqs \ {pkt.req} |-> d.reqs[i]]]
       ELSE [d EXCEPT !.reqs[pkt.req].numBytes = numBytes,
                      !.reqs[pkt.req].moved = r.moved \cup bytesOf(pkt)]
=============================================================================
