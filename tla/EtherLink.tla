----------------------------- MODULE EtherLink -----------------------------
(***************************************************************************)
(* One direction of an Ethernet link (EtherLink::Link): a packet occupies  *)
(* the link while it is transmitted, then spends LinkDelay in a queue.     *)
(*                                                                         *)
(* The link is a record, and its member functions are operators on it; the *)
(* modules that use it say who sends and who receives.  "Assume that the   *)
(* delay is non-zero and constant": a link without delay is left out.      *)
(***************************************************************************)
EXTENDS Integers, Sequences

CONSTANTS
    TicksPerByte,   \* speed
    LinkDelay,      \* delay: 200us unless configured
    DelayVar        \* delay_var: the most that transmission may be prolonged

ASSUME LinkAssumption == {TicksPerByte, DelayVar} \subseteq Nat /\ LinkDelay \in Nat \ {0}

NotScheduled == -1

\* The packet being transmitted, doneEvent, the queue and txQueueEvent.
IdleLink ==
    [packet |-> <<>>, doneAt |-> NotScheduled, txQueue |-> <<>>, queueAt |-> NotScheduled]

busy(l) == l.packet # <<>>

\* Mutant: doneEvent is not scheduled.
transmitUndone(l, pkt, tick, jitter) == [l EXCEPT !.packet = <<pkt>>]

\* transmit(), when the link is not busy.  simLength, not length, takes time.
transmit(l, pkt, tick, jitter) ==
    [l EXCEPT !.packet = <<pkt>>,
              !.doneAt = tick + pkt.simLength * TicksPerByte + 1 + jitter]

\* Mutant: the queue's event is put off by every packet.
txDoneLater(l, tick) ==
    [l EXCEPT !.packet = <<>>, !.doneAt = NotScheduled,
              !.txQueue = Append(l.txQueue, [due |-> tick + LinkDelay, pkt |-> Head(l.packet)]),
              !.queueAt = tick + LinkDelay]

txDone(l, tick) ==
    LET queue == Append(l.txQueue, [due |-> tick + LinkDelay, pkt |-> Head(l.packet)])
    IN [l EXCEPT !.packet = <<>>, !.doneAt = NotScheduled, !.txQueue = queue,
                 !.queueAt = IF l.queueAt = NotScheduled THEN Head(queue).due ELSE l.queueAt]

\* The packet that processTxQueue() hands on, and the link without it.
arriving(l) == Head(l.txQueue).pkt

\* Mutant: the newest packet is taken off.
processTxQueueLast(l) ==
    LET queue == SubSeq(l.txQueue, 1, Len(l.txQueue) - 1)
    IN [l EXCEPT !.txQueue = queue,
                 !.queueAt = IF queue = <<>> THEN NotScheduled ELSE Head(queue).due]

processTxQueue(l) ==
    LET queue == Tail(l.txQueue)
    IN [l EXCEPT !.txQueue = queue,
                 !.queueAt = IF queue = <<>> THEN NotScheduled ELSE Head(queue).due]

\* Mutant: an old checkpoint, without the queue.
restoredNoQueue(l) == [l EXCEPT !.txQueue = <<>>, !.queueAt = NotScheduled]

\* unserialize() of what serialize() wrote: the queue's event is scheduled anew.
restored(l) ==
    [l EXCEPT !.queueAt = IF l.txQueue = <<>> THEN NotScheduled ELSE Head(l.txQueue).due]

----------------------------------------------------------------------------

\* The packets on the link, the next to arrive first.
onLink(l) == [i \in 1..Len(l.txQueue) |-> l.txQueue[i].pkt] \o l.packet

\* The asserts of txDone() and processTxQueue(), "assert(next.first > curTick())"
\* and "assert(cur.first == curTick())": packets leave the queue one per tick, each
\* at its own; and each event is scheduled exactly while there is something to do.
queueInStep(l, tick) ==
    /\ l.packet = <<>> <=> l.doneAt = NotScheduled
    /\ l.doneAt # NotScheduled => l.doneAt >= tick
    /\ l.queueAt = IF l.txQueue = <<>> THEN NotScheduled ELSE Head(l.txQueue).due
    /\ \A i \in 1..Len(l.txQueue) : l.txQueue[i].due \in tick..(tick + LinkDelay)
    /\ \A i, j \in 1..Len(l.txQueue) : i < j => l.txQueue[i].due < l.txQueue[j].due
=============================================================================
