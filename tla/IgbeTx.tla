------------------------------- MODULE IgbeTx -------------------------------
(***************************************************************************)
(* The transmit path of the IGbE card, with draining and checkpoints.      *)
(*                                                                         *)
(* The driver posts jobs: a packet in one or more buffers, or a TCP        *)
(* message that the card cuts into segments (TSO).  The transmit state     *)
(* machine (txStateMachine, TxDescCache) reads the buffers by DMA into     *)
(* txPacket, moves finished packets to txFifo, and txWire() sends them.    *)
(* Meanwhile the simulator may drain the card, checkpoint and restore it.  *)
(*                                                                         *)
(* A byte is <<job id, offset in the job's message>>, so a byte that is    *)
(* lost, repeated, reordered or taken from another job shows.  Interrupts  *)
(* are masked, completion write-back (TDWBAL) is off, and the receive side *)
(* of the card is idle.                                                    *)
(***************************************************************************)
EXTENDS DescCache, FiniteSets

CONSTANTS
    Jobs,        \* what the driver sends: sequences of descriptors
    FifoSize,    \* tx_fifo_size
    NumIds,      \* jobs are numbered modulo this
    Wthresh,     \* TXDCTL.WTHRESH, with descriptor granularity
    Timers,      \* which of TIDV and TADV are set, a subset of {"tidv", "tadv"}
    TctlWrites,  \* values of TCTL.EN the driver writes while it runs
    AtomicMem,   \* the memory system is in atomic mode, otherwise in timing mode
    MaxDrains    \* bound: how often the simulator drains

\* A context descriptor sets up segmentation and has no data; a data descriptor
\* has `len' bytes, which start at offset `at' of the message.  Segmentation is
\* asked for (tse) by a legacy context or by an advanced data descriptor, with
\* the number of payload bytes in `total'.
DescType ==
    [ctx : BOOLEAN, tse : BOOLEAN, hdr : Nat, mss : Nat, total : Nat,
     len : Nat, at : Nat, eop : BOOLEAN]

\* A job is at most one context, then data; the headers lie in its first buffer.
ASSUME JobAssumption ==
    \A job \in Jobs :
        /\ job \in Seq(DescType) /\ 0 < Len(job) /\ Len(job) < RingLen
        /\ \A i \in 1..Len(job) : job[i].ctx <=> i = 1 /\ Len(job) > 1 /\ job[i].len = 0
        /\ \A i \in 1..Len(job) : job[i].eop <=> i = Len(job)

ASSUME TxAssumption ==
    /\ FifoSize \in Nat /\ NumIds \in Nat \ {0} /\ Wthresh \in Nat
    /\ Timers \subseteq {"tidv", "tadv"} /\ TctlWrites \subseteq BOOLEAN
    /\ AtomicMem \in BOOLEAN /\ MaxDrains \in Nat /\ 3 \in Masks

VARIABLES
    d, landed, dd, clean,       \* the descriptor ring; dd: returned to memory
    mem,                        \* what the driver wrote to each slot
    work, sent, nextId,         \* jobs not wholly sent, packets sent of the first
    txPacket, txFifo, fifoSize, reserved,
    tctlEn, txTick, txFifoTick, tickEv,
    pktDone, pktWaiting, pktMultiDesc, tso,
    dmas, events,               \* DMAs at the port, completion events scheduled
    timers,                     \* which of tidvEvent, tadvEvent are scheduled
    busy,                       \* the link is sending
    sys, ds, ps, drains         \* drain state: DrainManager, card, DMA port

ring == <<d, landed, dd, clean>>
host == <<mem, work, nextId>>
fifo == <<txFifo, fifoSize, reserved>>
clock == <<txTick, txFifoTick, tickEv>>
cache == <<pktDone, pktWaiting, pktMultiDesc, tso>>
drain == <<sys, ds, ps, drains>>
vars == <<ring, host, sent, txPacket, fifo, tctlEn, clock, cache, dmas, events,
          timers, busy, drain>>

NoPacket == [data |-> <<>>, seq |-> 0, nr |-> 0, last |-> FALSE]
NoTso ==
    [use |-> FALSE, hdr |-> 0, mss |-> 0, total |-> 0, used |-> 0, prevSeq |-> 0,
     loaded |-> FALSE, header |-> 0, hasHdr |-> FALSE, descUsed |-> 0,
     copy |-> 0, pkts |-> 0]

\* A slot the driver has not filled.
Blank ==
    [id |-> 0, end |-> 0,
     desc |-> [ctx |-> FALSE, tse |-> FALSE, hdr |-> 0, mss |-> 0, total |-> 0,
               len |-> 0, at |-> 0, eop |-> FALSE]]

bytes(id, from, n) == [i \in 1..n |-> <<id, from + i - 1>>]

Init ==
    /\ d = EmptyDesc /\ landed = 0 /\ dd = [s \in Slots |-> FALSE] /\ clean = 0
    /\ mem = [s \in Slots |-> Blank]
    /\ work = <<>> /\ sent = 0 /\ nextId = 0
    /\ txPacket = NoPacket /\ txFifo = <<>> /\ fifoSize = 0 /\ reserved = 0
    /\ tctlEn = TRUE /\ txTick = FALSE /\ txFifoTick = FALSE /\ tickEv = FALSE
    /\ pktDone = FALSE /\ pktWaiting = FALSE /\ pktMultiDesc = FALSE /\ tso = NoTso
    /\ dmas = {} /\ events = {} /\ timers = {} /\ busy = FALSE
    /\ sys = "Running" /\ ds = "Running" /\ ps = "Running" /\ drains = 0

Alive == sys # "Drained"
Running == ds = "Running"

----------------------------------------------------------------------------
(* tick(): the state machine, then the wire.                               *)

Ticking == Alive /\ tickEv /\ txTick

\* txWire(), run when `go'; the tick event is scheduled again if txTick stays.
\* A link that is sending refuses the packet.
Wire(queue, size, go, stay) ==
    /\ IF go /\ queue # <<>> /\ ~busy
       THEN /\ txFifo' = Tail(queue) /\ fifoSize' = size - Len(Head(queue).data)
            /\ busy' = TRUE
            /\ IF Head(queue).last THEN work' = Tail(work) /\ sent' = 0
                                   ELSE sent' = sent + 1 /\ UNCHANGED work
       ELSE txFifo' = queue /\ fifoSize' = size /\ UNCHANGED <<busy, work, sent>>
    /\ txFifoTick' = FALSE /\ txTick' = stay /\ tickEv' = stay

\* txStateMachine() finds a finished packet; packetAvailable() clears pktDone.
packetReady == pktDone /\ ~pktMultiDesc /\ txPacket.data # <<>>

TickDisabled ==
    /\ Ticking /\ ~tctlEn
    /\ Wire(txFifo, fifoSize, txFifoTick, FALSE)
    /\ UNCHANGED <<ring, mem, nextId, txPacket, reserved, tctlEn, cache, dmas, events,
                   timers, drain>>

\* Mutant: the reservation is kept.
pushReservedKeep == reserved

\* PacketFifo::push() ends the reservation.
pushReserved == 0

TickPush ==
    /\ Ticking /\ tctlEn /\ packetReady
    /\ Wire(Append(txFifo, txPacket), fifoSize + Len(txPacket.data), TRUE, TRUE)
    /\ reserved' = pushReserved /\ txPacket' = NoPacket /\ pktDone' = FALSE
    /\ d' = writeback(d, 3)
    /\ UNCHANGED <<landed, dd, clean, mem, nextId, tctlEn, pktWaiting, pktMultiDesc, tso,
                   dmas, events, timers, drain>>

\* The other ways through consume pktDone, and run the wire when it was asked for.
Scan(stay) ==
    /\ Ticking /\ tctlEn /\ ~packetReady
    /\ pktDone' = FALSE
    /\ Wire(txFifo, fifoSize, txFifoTick, stay)
    /\ UNCHANGED <<landed, dd, clean, mem, nextId, tctlEn, pktMultiDesc, events, timers,
                   drain>>

TickWaiting ==
    /\ pktWaiting
    /\ Scan(FALSE)
    /\ UNCHANGED <<d, txPacket, reserved, pktWaiting, tso, dmas>>

noDescs(c) == fetchDescriptors(writeback(c, 0))

TickNoDescs ==
    /\ ~pktWaiting /\ descLeft(d) = 0
    /\ Scan(FALSE)
    /\ d' = noDescs(d)
    /\ UNCHANGED <<txPacket, reserved, pktWaiting, tso, dmas>>

TickFetch ==
    /\ ~pktWaiting /\ descLeft(d) # 0 /\ d.unused = <<>>
    /\ Scan(FALSE)
    /\ d' = fetchDescriptors(d)
    /\ UNCHANGED <<txPacket, reserved, pktWaiting, tso, dmas>>

\* processContextDesc(): the context in front is used up and sets the
\* segmentation variables, and a data descriptor may ask for segmentation.
front(c) == mem[Head(c.unused)]

\* Mutant: the header loaded for the message before counts as loaded.
startTsoLoaded(t, total) ==
    [t EXCEPT !.use = TRUE, !.total = total, !.used = 0, !.prevSeq = 0,
              !.hasHdr = FALSE, !.descUsed = 0, !.pkts = 0]

startTso(t, total) ==
    [t EXCEPT !.use = TRUE, !.total = total, !.used = 0, !.prevSeq = 0,
              !.loaded = FALSE, !.hasHdr = FALSE, !.descUsed = 0, !.pkts = 0]

onContext == ~tso.use /\ front(d).desc.ctx

contextDesc == IF onContext THEN useFront(d) ELSE d

contextTso ==
    LET desc == front(d).desc
        t == [tso EXCEPT !.hdr = desc.hdr, !.mss = desc.mss]
        set == IF ~onContext THEN tso
               ELSE IF desc.tse THEN startTso([t EXCEPT !.copy = 0], desc.total) ELSE t
        c == contextDesc
    IN IF c.unused # <<>> /\ ~set.use /\ front(c).desc.tse
       THEN startTso(set, front(c).desc.total) ELSE set

wantsHeader == contextDesc.unused # <<>> /\ contextTso.use /\ ~contextTso.loaded

\* getPacketSize(): bytes of the next DMA, and of the FIFO it needs.
copyBytes(t, desc) ==
    IF ~t.use THEN desc.len
    ELSE SmallerOf(IF t.hasHdr THEN t.mss + t.hdr - Len(txPacket.data) ELSE t.mss,
                   desc.len - t.descUsed)

headerBytes(t) == IF t.use /\ ~t.hasHdr THEN t.hdr ELSE 0

packetSize == copyBytes(contextTso, front(contextDesc).desc) + headerBytes(contextTso)

sizedTso ==
    IF contextTso.use
    THEN [contextTso EXCEPT !.copy = copyBytes(contextTso, front(contextDesc).desc)]
    ELSE contextTso

avail == FifoSize - fifoSize - reserved

Ready == ~pktWaiting /\ descLeft(d) # 0 /\ d.unused # <<>>

TickHeader ==
    /\ Ready /\ wantsHeader
    /\ Scan(FALSE)
    /\ d' = contextDesc /\ tso' = contextTso
    /\ pktWaiting' = TRUE /\ dmas' = dmas \cup {"hdr"}
    /\ UNCHANGED <<txPacket, reserved>>

\* getPacketSize() is 0: there was a context and nothing behind it yet.
TickNoData ==
    /\ Ready /\ ~wantsHeader /\ contextDesc.unused = <<>>
    /\ Scan(TRUE)
    /\ d' = writeback(contextDesc, 0) /\ tso' = contextTso
    /\ UNCHANGED <<txPacket, reserved, pktWaiting, dmas>>

\* Reserve, and getPacketData(): the header is copied, the DMA of the rest starts.
TickGetData ==
    /\ Ready /\ ~wantsHeader /\ contextDesc.unused # <<>>
    /\ avail > packetSize
    /\ Scan(TRUE)
    /\ LET t == sizedTso
       IN /\ txPacket' = [txPacket EXCEPT
                            !.data = txPacket.data \o bytes(t.header, 0, headerBytes(t))]
          /\ tso' = IF t.use
                    THEN [t EXCEPT !.hasHdr = TRUE, !.descUsed = t.descUsed + t.copy]
                    ELSE t
    /\ reserved' = reserved + packetSize
    /\ d' = contextDesc
    /\ pktWaiting' = TRUE /\ dmas' = dmas \cup {"pkt"}

TickFifoFull ==
    /\ Ready /\ ~wantsHeader /\ contextDesc.unused # <<>>
    /\ avail <= packetSize
    /\ Scan(FALSE)
    /\ d' = contextDesc /\ tso' = sizedTso
    /\ UNCHANGED <<txPacket, reserved, pktWaiting, dmas>>

\* A tick for the wire alone.
TickWire ==
    /\ Alive /\ tickEv /\ ~txTick
    /\ Wire(txFifo, fifoSize, txFifoTick, FALSE)
    /\ UNCHANGED <<ring, mem, nextId, txPacket, reserved, tctlEn, cache, dmas, events,
                   timers, drain>>

----------------------------------------------------------------------------
(* Completions.                                                            *)

\* enableSm(), called before checkDrain(): tick again from the next cycle, unless
\* the card is draining; then checkDrain() stops both machines.
enableSm ==
    /\ txTick' = (ds # "Draining")
    /\ tickEv' = (tickEv \/ Running)
    /\ txFifoTick' = (txFifoTick /\ ds # "Draining")

\* Mutant: only the packet's own DMA is looked for.
hasOutstandingPkt(evs) == "pkt" \in evs

\* hasOutstandingEvents() of the transmit cache: headerEvent is not asked.
hasOutstandingEvents(evs) == evs \cap {"pkt", "wb", "fetch"} # {}

\* Mutant: the end of the drain is not signalled.
checkDrainNever(evs) == UNCHANGED ds

\* checkDrain(), when the events in `evs' are left.
checkDrain(evs) ==
    ds' = IF ds = "Draining" /\ ~hasOutstandingEvents(evs) THEN "Drained" ELSE ds

\* A completion event runs.
Complete(k) ==
    /\ Alive /\ k \in events
    /\ events' = events \ {k}
    /\ UNCHANGED <<dd, clean, host, sent, fifo, tctlEn, dmas, busy, sys, ps, drains>>

\* headerComplete(): a buffer that holds the headers alone is used up.
HeaderComplete ==
    /\ Complete("hdr")
    /\ pktWaiting' = FALSE
    /\ LET alone == front(d).desc.len = tso.hdr
       IN /\ d' = IF alone THEN useFront(d) ELSE d
          /\ tso' = [tso EXCEPT !.descUsed = IF alone THEN 0 ELSE tso.hdr,
                                !.loaded = TRUE, !.header = front(d).id]
    /\ enableSm /\ checkDrain(events \ {"hdr"})
    /\ UNCHANGED <<landed, txPacket, pktDone, pktMultiDesc, timers>>

\* What the packet holds when its DMA is done, and how much of the message is used.
dataRead ==
    LET from == front(d).desc.at + (IF tso.use THEN tso.descUsed - tso.copy ELSE 0)
        n == IF tso.use THEN tso.copy ELSE front(d).desc.len
    IN txPacket.data \o bytes(front(d).id, from, n)
usedLen == IF tso.use THEN tso.used + tso.copy ELSE tso.used

\* Mutant: a message ends only with a full segment.
packetPartialFull ==
    IF tso.use THEN Len(dataRead) < tso.mss + tso.hdr ELSE ~front(d).desc.eop

\* Is there more to come before the packet can be sent?
packetPartial ==
    IF tso.use THEN Len(dataRead) < tso.mss + tso.hdr /\ tso.total # usedLen
    ELSE ~front(d).desc.eop

PktPartial ==
    /\ Complete("pkt") /\ packetPartial
    /\ d' = useFront(d)
    /\ txPacket' = [txPacket EXCEPT !.data = dataRead]
    /\ tso' = [tso EXCEPT !.used = usedLen, !.descUsed = 0]
    /\ pktDone' = TRUE /\ pktWaiting' = FALSE /\ pktMultiDesc' = TRUE
    /\ enableSm /\ checkDrain(events \ {"pkt"})
    /\ UNCHANGED <<landed, timers>>

\* The writeback that pktComplete() asks for.
wbAfterPkt(c) ==
    IF Wthresh = 0 THEN writeback(c, 0)
    ELSE IF Wthresh <= Len(c.used) THEN writeback(c, 3) ELSE c

\* The sequence number and id of a segment, and whether it keeps FIN and PSH.
sealed ==
    IF tso.use
    THEN [data |-> dataRead, seq |-> tso.prevSeq, nr |-> tso.pkts,
          last |-> usedLen = tso.total]
    ELSE [data |-> dataRead, seq |-> 0, nr |-> 0, last |-> TRUE]

segmented ==
    [tso EXCEPT !.used = usedLen, !.prevSeq = usedLen, !.pkts = tso.pkts + 1,
                !.use = usedLen # tso.total]

PktComplete ==
    /\ Complete("pkt") /\ ~packetPartial
    /\ txPacket' = sealed
    /\ LET done == ~tso.use \/ front(d).desc.len = tso.descUsed
           t == IF tso.use THEN segmented ELSE tso
       IN /\ d' = wbAfterPkt(IF done THEN useFront(d) ELSE d)
          /\ tso' = [t EXCEPT !.descUsed = IF done THEN 0 ELSE t.descUsed,
                              !.hasHdr = FALSE]
    /\ timers' = IF "tidv" \in Timers THEN Timers ELSE timers
    /\ pktDone' = TRUE /\ pktWaiting' = FALSE /\ pktMultiDesc' = FALSE
    /\ enableSm /\ checkDrain(events \ {"pkt"})
    /\ UNCHANGED landed

\* RxDescCache and TxDescCache: fetch after a writeback only if nothing ticks.
fetchAfterWb == ~txTick /\ Running

\* wbComplete() tells a draining card only when no further writeback follows.
WbComplete ==
    /\ Complete("wb")
    /\ d' = wbComplete(d, fetchAfterWb)
    /\ landed' = 0
    /\ IF d'.wbOut = 0
       THEN /\ checkDrain(events \ {"wb"})
            /\ txTick' = (txTick /\ ds # "Draining")
            /\ txFifoTick' = (txFifoTick /\ ds # "Draining")
       ELSE UNCHANGED <<ds, txTick, txFifoTick>>
    /\ UNCHANGED <<txPacket, tickEv, cache, timers>>

FetchComplete ==
    /\ Complete("fetch")
    /\ d' = fetchComplete(d)
    /\ enableSm /\ checkDrain(events \ {"fetch"})
    /\ UNCHANGED <<landed, txPacket, cache, timers>>

\* The delay events issue their DMAs; while draining they only re-arm themselves.
Writeback1 ==
    /\ Alive /\ d.wbEv = "delay" /\ Running
    /\ d' = [d EXCEPT !.wbEv = "dma"] /\ dmas' = dmas \cup {"wb"}
    /\ UNCHANGED <<landed, dd, clean, host, sent, txPacket, fifo, tctlEn, clock, cache,
                   events, timers, busy, drain>>

FetchDescriptors1 ==
    /\ Alive /\ d.fetchEv = "delay" /\ Running
    /\ d' = [d EXCEPT !.fetchEv = "dma"] /\ dmas' = dmas \cup {"fetch"}
    /\ UNCHANGED <<landed, dd, clean, host, sent, txPacket, fifo, tctlEn, clock, cache,
                   events, timers, busy, drain>>

\* The memory system writes the descriptors, one at a time.
WbLand ==
    /\ Alive /\ "wb" \in dmas /\ landed < d.wbOut
    /\ dd' = [dd EXCEPT ![d.head + landed] = TRUE]
    /\ landed' = landed + 1
    /\ UNCHANGED <<d, clean, host, sent, txPacket, fifo, tctlEn, clock, cache, dmas,
                   events, timers, busy, drain>>

\* DmaPort::handleResp(): the last response schedules the completion event, and
\* a port with nothing pending has drained.
DmaResp(k) ==
    /\ Alive /\ k \in dmas
    /\ k = "wb" => landed = d.wbOut
    /\ dmas' = dmas \ {k} /\ events' = events \cup {k}
    /\ ps' = IF ps = "Draining" /\ dmas = {k} THEN "Drained" ELSE ps
    /\ UNCHANGED <<ring, host, sent, txPacket, fifo, tctlEn, clock, cache, timers, busy,
                   sys, ds, drains>>

\* Mutant: the state machine is not woken when there is room again.
wakeTxNever == txTick

\* ethTxDone() restarts both machines.
wakeTx == txTick \/ (descLeft(d) # 0 /\ ds # "Draining")

EthTxDone ==
    /\ Alive /\ busy
    /\ busy' = FALSE
    /\ txFifoTick' = (ds # "Draining") /\ txTick' = wakeTx
    /\ tickEv' = (tickEv \/ Running)
    /\ UNCHANGED <<ring, host, sent, txPacket, fifo, tctlEn, cache, dmas, events, timers,
                   drain>>

\* tidvProcess() and tadvProcess().
TimerExpires(t) ==
    /\ Alive /\ t \in timers
    /\ timers' = timers \ {t}
    /\ d' = writeback(d, 0)
    /\ UNCHANGED <<landed, dd, clean, host, sent, txPacket, fifo, tctlEn, clock, cache,
                   dmas, events, busy, drain>>

----------------------------------------------------------------------------
(* The driver.                                                             *)

\* Write the descriptors of a job and move TDT past them.
WriteTDT(job) ==
    LET k == Len(job)
        c == [d EXCEPT !.tail = Wrap(d.tail + k)]
        nth(s) == Dist(d.tail, s) + 1
    IN /\ Alive /\ Dist(clean, d.tail) + k < RingLen
       /\ mem' = [s \in Slots |->
                    IF nth(s) <= k
                    THEN [id |-> nextId, end |-> Wrap(d.tail + k - 1), desc |-> job[nth(s)]]
                    ELSE mem[s]]
       /\ work' = Append(work, [id |-> nextId, job |-> job])
       /\ nextId' = (nextId + 1) % NumIds
       /\ d' = IF Running THEN fetchDescriptors(c) ELSE c
       /\ UNCHANGED <<landed, dd, clean, sent, txPacket, fifo, tctlEn, clock, cache, dmas,
                      events, timers, busy, drain>>

\* Only the last descriptor of a job asks for its status (RS); the driver
\* reaps the slots of the job once that one has been returned.
DriverReap ==
    /\ Alive /\ dd[clean] /\ dd[mem[clean].end]
    /\ dd' = [dd EXCEPT ![clean] = FALSE]
    /\ clean' = Wrap(clean + 1)
    /\ mem' = [mem EXCEPT ![clean] = Blank]
    /\ UNCHANGED <<d, landed, work, nextId, sent, txPacket, fifo, tctlEn, clock, cache, dmas,
                   events, timers, busy, drain>>

\* Mutant: the register is compared with its value before the write.
oldtctlBefore(en) == tctlEn

\* "oldtctl" is read after regs.tctl was assigned.
oldtctl(en) == en

\* Enabling transmission starts the state machine; reset() of the descriptor
\* cache would follow if the register had been seen to change.
WriteTCTL(en) ==
    /\ Alive /\ tctlEn' = en
    /\ txTick' = (txTick \/ en)
    /\ tickEv' = (tickEv \/ (Running /\ (txTick \/ en \/ txFifoTick)))
    /\ d' = IF en /\ ~oldtctl(en) THEN reset(d) ELSE d
    /\ UNCHANGED <<landed, dd, clean, host, sent, txPacket, fifo, txFifoTick, cache,
                   dmas, events, timers, busy, drain>>

----------------------------------------------------------------------------
(* Draining, resuming, and restoring a checkpoint.                         *)

\* DrainManager::tryDrain() asks every object, first when the simulator wants
\* to drain and then each time all objects have signalled.  The exit from the
\* simulation loop comes after the events of its tick.  In timing mode a header
\* event has no delay, so it is never left; in atomic mode it has the latency of
\* the access, and a DMA itself takes no time.
TryDrain ==
    /\ \/ sys = "Running" /\ drains < MaxDrains /\ drains' = drains + 1
       \/ sys = "Draining" /\ "Draining" \notin {ds, ps} /\ UNCHANGED drains
    /\ IF AtomicMem THEN dmas = {} ELSE "hdr" \notin events
    /\ ds' = IF hasOutstandingEvents(events) THEN "Draining" ELSE "Drained"
    /\ ps' = IF dmas # {} THEN "Draining" ELSE "Drained"
    /\ sys' = IF "Draining" \in {ds', ps'} THEN "Draining" ELSE "Drained"
    /\ txTick' = FALSE /\ txFifoTick' = FALSE /\ tickEv' = FALSE
    /\ UNCHANGED <<ring, host, sent, txPacket, fifo, tctlEn, cache, dmas, events, timers,
                   busy>>

\* Mutant: the state machines are not started again.
resumeTickNone == FALSE

\* drainResume().
resumeTick == TRUE

Resumed ==
    /\ sys = "Drained"
    /\ sys' = "Running" /\ ds' = "Running" /\ ps' = "Running"
    /\ txTick' = resumeTick /\ txFifoTick' = resumeTick /\ tickEv' = resumeTick
    /\ UNCHANGED <<landed, dd, clean, host, sent, txPacket, fifo, tctlEn, cache, timers,
                   busy, drains>>

Resume == Resumed /\ UNCHANGED <<d, dmas, events>>

\* Mutant: the fetched descriptors are not in the checkpoint.
restoredUsedOnly(c) == [c EXCEPT !.unused = <<>>]

\* DescCache::unserialize() schedules the delay events again; DMAs and their
\* completion events are not part of a checkpoint.
restored(c) ==
    [c EXCEPT !.wbEv = IF c.wbEv = "dma" THEN "none" ELSE c.wbEv,
              !.fetchEv = IF c.fetchEv = "dma" THEN "none" ELSE c.fetchEv]

Restore == Resumed /\ d' = restored(d) /\ dmas' = {} /\ events' = {}

----------------------------------------------------------------------------

Tick ==
    \/ TickDisabled \/ TickPush \/ TickWaiting \/ TickNoDescs \/ TickFetch
    \/ TickHeader \/ TickNoData \/ TickGetData \/ TickFifoFull \/ TickWire

Completion == HeaderComplete \/ PktPartial \/ PktComplete \/ WbComplete \/ FetchComplete

Next ==
    \/ Tick
    \/ Completion
    \/ Writeback1 \/ FetchDescriptors1 \/ WbLand
    \/ \E k \in dmas : DmaResp(k)
    \/ EthTxDone
    \/ \E t \in timers : TimerExpires(t)
    \/ \E job \in Jobs : WriteTDT(job)
    \/ DriverReap
    \/ \E en \in TctlWrites : WriteTCTL(en)
    \/ TryDrain
    \/ Resume
    \/ Restore

Spec == Init /\ [][Next]_vars

\* Scheduled events run, the memory system answers, the link sends.  The steps of
\* a packet's DMAs, of a writeback and of a fetch come one after the other.
PacketStep ==
    DmaResp("hdr") \/ DmaResp("pkt") \/ HeaderComplete \/ PktPartial \/ PktComplete
WritebackStep == Writeback1 \/ WbLand \/ DmaResp("wb") \/ WbComplete
FetchStep == FetchDescriptors1 \/ DmaResp("fetch") \/ FetchComplete

EventFairness ==
    /\ WF_vars(Tick) /\ WF_vars(EthTxDone)
    /\ WF_vars(PacketStep) /\ WF_vars(WritebackStep) /\ WF_vars(FetchStep)
    /\ \A t \in Timers : WF_vars(TimerExpires(t))

\* A drain that has begun is carried on, and the simulation goes on after it.
DrainFairness ==
    /\ WF_vars(sys = "Draining" /\ TryDrain)
    /\ WF_vars(Resume \/ Restore)

FairSpec == Spec /\ EventFairness /\ DrainFairness

----------------------------------------------------------------------------
(* Properties.                                                             *)

\* Every event of the transmit path, of a drain or of a restore is a step of the
\* descriptor ring or leaves it alone: what is proved of DescRing holds here too.
Ring == INSTANCE DescRing WITH running <- Running
ImplementsRing == Ring!Spec

\* What is under way at the DMA port or between a response and its event.
InFlight == dmas \cup events

\* The asserts of headerComplete(), getPacketData() and pktComplete(): a DMA for
\* the packet has its descriptor in front, only one is under way, and a packet
\* that needs a further descriptor has read all of this one.
TxAsserts ==
    /\ InFlight \cap {"hdr", "pkt"} # {} => d.unused # <<>> /\ ~front(d).desc.ctx
    /\ Cardinality(InFlight \cap {"hdr", "pkt"}) = (IF pktWaiting THEN 1 ELSE 0)
    /\ "hdr" \in InFlight => tso.use /\ front(d).desc.len >= tso.hdr
    /\ "pkt" \in InFlight /\ tso.use =>
          /\ tso.loaded /\ tso.descUsed <= front(d).desc.len
          /\ packetPartial => tso.descUsed = front(d).desc.len

\* The card never sleeps through work.  While it runs, a finished packet, a
\* cached descriptor or a posted one keeps it ticking, or something that will
\* wake it is under way; so does a packet in the FIFO.
NoLostWakeup ==
    Running /\ Alive =>
        /\ txFifo # <<>> => busy \/ (tickEv /\ txFifoTick)
        /\ tctlEn /\ (pktDone \/ d.unused # <<>>) =>
              (tickEv /\ txTick) \/ pktWaiting \/ busy \/ txFifo # <<>>
        /\ tctlEn /\ descLeft(d) > 0 =>
              (tickEv /\ txTick) \/ pktWaiting \/ busy \/ txFifo # <<>>
                 \/ d.curFetching > 0 \/ d.wbOut > 0

\* A checkpoint does not hold the card's DMAs nor their completion events, so a
\* drained system must have none: nothing waits for an event that is lost.
CheckpointComplete ==
    sys = "Drained" => /\ InFlight = {} /\ ~pktWaiting
                       /\ "dma" \notin {d.wbEv, d.fetchEv}

\* A card that still drains has something to wait for.  The one exception is a
\* writeback that wbComplete() started while draining.
DrainWaitsForEvents ==
    ds = "Draining" => hasOutstandingEvents(events) \/ (d.wbEv = "delay" /\ "wb" \notin InFlight)

\* Unless the simulator stays in a drain, every posted job is wholly sent, however
\* often it is drained, checkpointed and restored on the way.
EveryJobSent ==
    []<>Running => \A i \in 0..(NumIds - 1) :
        (work # <<>> /\ Head(work).id = i) ~> (work = <<>> \/ Head(work).id # i)

----------------------------------------------------------------------------
(* A property the code states and does not have.                           *)

\* "If any object enters the Draining state, simulation continues until it all
\* objects have entered the Drained state": a drain that begins, ends.
DrainEnds == sys = "Draining" ~> sys = "Drained"
=============================================================================
