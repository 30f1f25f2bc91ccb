------------------------------- MODULE NetPath -------------------------------
(***************************************************************************)
(* The path of a packet in an experiment, as FSConfig.py builds it: from   *)
(* the load generator over an Ethernet link to the card, and from the card *)
(* back over the other direction of the link.                              *)
(*                                                                         *)
(* Of the card and the guest behind it, this module has what the generator *)
(* sees: packets are echoed in order, each after one of ServeTimes, or are *)
(* dropped.  Time is the simulator's tick and passes when nothing is due.  *)
(***************************************************************************)
EXTENDS LoadGen, EtherLink

CONSTANTS
    PacketLen,      \* simLength of an echoed packet
    ServeTimes,     \* ticks the card and the guest take for a packet
    Drops,          \* may the card drop a packet?
    MaxRestores,    \* bound: checkpoints taken and restored
    MaxTick         \* bound on the simulated time

ASSUME PathAssumption ==
    /\ ServeTimes \subseteq Nat /\ PacketLen \in Nat /\ Drops \in BOOLEAN
    /\ MaxRestores \in Nat /\ MaxTick \in Nat

VARIABLES
    toCard, toGen,      \* the two directions of the link
    card,               \* packets in the card or the guest, and when they are done
    lost,               \* packets lost since the generator reset its counts
    carried,            \* packets on their way when it did
    restores

path == <<toCard, toGen, card>>
vars == <<now, generator, path, lost, carried, restores>>

Init ==
    /\ GenInit
    /\ toCard = IdleLink /\ toGen = IdleLink /\ card = <<>>
    /\ lost = 0 /\ carried = 0 /\ restores = 0

\* The packets on their way, the next to come back first.
onTheWay ==
    onLink(toGen) \o [i \in 1..Len(card) |-> card[i].pkt] \o onLink(toCard)

----------------------------------------------------------------------------
(* The events.                                                             *)

\* sendPacket(), and transmit() of the link: a busy link refuses the packet.
SendPacket ==
    /\ sendPacket
    /\ IF busy(toCard)
       THEN lost' = lost + 1 /\ UNCHANGED toCard
       ELSE /\ \E jitter \in 0..DelayVar :
                  toCard' = transmit(toCard, buildPacket, now, jitter)
            /\ UNCHANGED lost
    /\ UNCHANGED <<toGen, card, carried, restores>>

CheckLoss ==
    /\ checkLoss
    /\ lost' = 0 /\ carried' = Len(onTheWay)
    /\ UNCHANGED <<path, restores>>

ToCardDone ==
    /\ toCard.doneAt = now
    /\ toCard' = txDone(toCard, now)
    /\ UNCHANGED <<now, generator, toGen, card, lost, carried, restores>>

\* A packet reaches the card, which drops it or has it served.
CardReceives ==
    /\ toCard.queueAt = now
    /\ toCard' = processTxQueue(toCard)
    /\ \/ Drops /\ lost' = lost + 1 /\ UNCHANGED card
       \/ /\ \E s \in ServeTimes :
                card' = Append(card, [pkt |-> arriving(toCard), ready |-> now + s])
          /\ UNCHANGED lost
    /\ UNCHANGED <<now, generator, toGen, carried, restores>>

\* The card sends when the link is free; its packets have a simLength.
CardReady == card # <<>> /\ Head(card).ready <= now /\ ~busy(toGen)

CardSends ==
    /\ CardReady
    /\ \E jitter \in 0..DelayVar :
          toGen' = transmit(toGen, [Head(card).pkt EXCEPT !.simLength = PacketLen], now, jitter)
    /\ card' = Tail(card)
    /\ UNCHANGED <<now, generator, toCard, lost, carried, restores>>

ToGenDone ==
    /\ toGen.doneAt = now
    /\ toGen' = txDone(toGen, now)
    /\ UNCHANGED <<now, generator, toCard, card, lost, carried, restores>>

ProcessRxPkt ==
    /\ toGen.queueAt = now
    /\ toGen' = processTxQueue(toGen)
    /\ processRxPkt
    /\ UNCHANGED <<toCard, card, lost, carried, restores>>

NothingDue ==
    /\ now \notin {sendAt, checkAt, toCard.doneAt, toCard.queueAt, toGen.doneAt, toGen.queueAt}
    /\ ~CardReady

Advance ==
    /\ now < MaxTick /\ NothingDue
    /\ now' = now + 1
    /\ UNCHANGED <<generator, path, lost, carried, restores>>

\* The simulation ends with a checkpoint and is restored from it.
Restore ==
    /\ restores < MaxRestores /\ NothingDue
    /\ GenRestore
    /\ toCard' = restored(toCard) /\ toGen' = restored(toGen)
    /\ lost' = 0 /\ carried' = Len(onTheWay)
    /\ restores' = restores + 1
    /\ UNCHANGED card

Step ==
    \/ SendPacket \/ CheckLoss
    \/ ToCardDone \/ CardReceives \/ CardSends \/ ToGenDone \/ ProcessRxPkt
    \/ Advance

\* The simulation goes on until its end.
Ended == now = MaxTick /\ UNCHANGED vars

Next == Step \/ Restore \/ Ended

Spec == Init /\ [][Next]_vars
FairSpec == Spec /\ WF_vars(Step)

----------------------------------------------------------------------------
(* Properties.                                                             *)

\* At most one packet follows StopTick, even when a check was due across it, and
\* across a restore.
AtMostOneLateSend == lateSends <= 1

\* The asserts of both directions of the link hold, whatever the jitter, and after
\* a restore that comes in the middle of a transmission.
LinkInStep == queueInStep(toCard, now) /\ queueInStep(toGen, now)

\* Packets come back in the order in which they were sent: nothing on the way
\* overtakes.
PathInOrder ==
    \A i, j \in 1..Len(onTheWay) : i < j => onTheWay[i].sent < onTheWay[j].sent

\* The counts that checkLoss() compares differ by the packets lost and the packets
\* on their way, and by nothing else: none is counted twice or forgotten, on either
\* link, in the card or over a checkpoint.
CountsExact == lastTxCount + carried = lastRxCount + lost + Len(onTheWay)


\* After StopTick the generator falls silent for good, and every packet comes back
\* or is lost.
EventuallySilent == <>[](sendAt = None /\ checkAt = None /\ onTheWay = <<>>)
=============================================================================
