------------------------------- MODULE LoadGen -------------------------------
(***************************************************************************)
(* The load generator (LoadGenerator): it sends packets at a rate, counts  *)
(* the ones that come back, and in Increment mode raises or lowers the     *)
(* rate after every CheckLossInterval packets.  The module NetPath has the *)
(* links and the card it talks to.                                         *)
(***************************************************************************)
EXTENDS Integers

CONSTANTS
    Modes,              \* configured modes: "Static", "Increment", "Burst"
    BootTicks,          \* when the simulation starts
    StartTick, StopTick,
    PacketRate,         \* the configured packets per second
    IncrementInterval,  \* packets per second added or taken by checkLoss()
    CheckLossInterval,  \* packets of one round (5000)
    LossLimit,          \* missing packets of a round that count as loss (10)
    LossWait,           \* ticks before a round is judged, and after a loss (100000000)
    TicksPerSecond,     \* 1e12
    BurstWidth, BurstGap,
    RateLimit           \* 2^32: packetRate is unsigned

ASSUME LoadGenAssumption ==
    /\ Modes \subseteq {"Static", "Increment", "Burst"}
    /\ {StartTick, StopTick, IncrementInterval, LossLimit, LossWait, BurstWidth,
        BurstGap} \cup BootTicks \subseteq Nat
    /\ {CheckLossInterval, TicksPerSecond, RateLimit} \subseteq Nat \ {0}
    /\ PacketRate \in 1..(RateLimit - 1)

VARIABLES
    loadgenMode,
    now,                \* curTick()
    sendAt, checkAt,    \* when sendPacketEvent and checkLossEvent are due
    packetRate, lastTxCount, lastRxCount, burstStartTick,
    lateSends           \* packets sent after StopTick

generator ==
    <<loadgenMode, sendAt, checkAt, packetRate, lastTxCount, lastRxCount, burstStartTick,
      lateSends>>

None == -1      \* no such tick: the event is not scheduled

\* frequency(): the ticks from one packet to the next.
frequency(rate) == TicksPerSecond \div rate

\* startup(): when the first packet is due.
startup(tick) ==
    IF tick > StopTick THEN None ELSE IF tick > StartTick THEN tick + 1 ELSE StartTick + 1

\* The constructor, and startup().
GenInit ==
    /\ loadgenMode \in Modes
    /\ now \in BootTicks
    /\ sendAt = startup(now) /\ checkAt = None
    /\ packetRate = PacketRate /\ lastTxCount = 0 /\ lastRxCount = 0
    /\ burstStartTick = 0
    /\ lateSends = 0

\* The generator has no serialize(): in a restored simulation it starts afresh.
GenRestore ==
    /\ sendAt' = startup(now) /\ checkAt' = None
    /\ packetRate' = PacketRate /\ lastTxCount' = 0 /\ lastRxCount' = 0
    /\ burstStartTick' = 0
    /\ UNCHANGED <<loadgenMode, now, lateSends>>

----------------------------------------------------------------------------
(* The events.                                                             *)

\* Mutant: the generator does not look at StopTick.
stoppedNever == FALSE

stopped == now >= StopTick

\* What sendPacket() schedules next, by mode: a round of Increment ends with a
\* check, a burst with a gap.
roundEnds == loadgenMode = "Increment" /\ lastTxCount' = CheckLossInterval
burstEnds == loadgenMode = "Burst" /\ now - burstStartTick > BurstWidth

scheduleNext ==
    IF stopped
    THEN sendAt' = None /\ UNCHANGED <<checkAt, burstStartTick>>
    ELSE IF roundEnds
    THEN sendAt' = None /\ checkAt' = now + LossWait /\ UNCHANGED burstStartTick
    ELSE IF burstEnds
    THEN /\ burstStartTick' = now + BurstGap
         /\ sendAt' = burstStartTick'
         /\ UNCHANGED checkAt
    ELSE sendAt' = now + frequency(packetRate) /\ UNCHANGED <<checkAt, burstStartTick>>

\* The packet carries the tick it was sent at.  buildPacket() sets its length, and
\* nothing sets its simLength.
buildPacket == [sent |-> now, simLength |-> 0]

\* The packet is counted as sent whether or not the link takes it.
sendPacket ==
    /\ sendAt = now
    /\ lastTxCount' = lastTxCount + 1
    /\ scheduleNext
    /\ lateSends' = IF now > StopTick THEN lateSends + 1 ELSE lateSends
    /\ UNCHANGED <<loadgenMode, now, packetRate, lastRxCount>>


\* The counts are unsigned: with more packets received than sent the difference
\* is a huge number.
noLoss == lastTxCount - lastRxCount \in 0..(LossLimit - 1)

raisedRate == (packetRate + IncrementInterval) % RateLimit
loweredRate ==
    IF packetRate >= IncrementInterval THEN packetRate - IncrementInterval ELSE packetRate

\* When the next round starts: after a loss, with an extra delay.
resumeAt(lossSeen) ==
    now + frequency(packetRate') + (IF lossSeen THEN LossWait ELSE 0)

checkLoss ==
    /\ checkAt = now
    /\ packetRate' = IF noLoss THEN raisedRate ELSE loweredRate
    /\ sendAt' = resumeAt(~noLoss)
    /\ checkAt' = None
    /\ lastTxCount' = 0 /\ lastRxCount' = 0
    /\ UNCHANGED <<loadgenMode, now, burstStartTick, lateSends>>

processRxPkt ==
    /\ lastRxCount' = lastRxCount + 1
    /\ UNCHANGED <<loadgenMode, now, sendAt, checkAt, packetRate, lastTxCount,
                   burstStartTick, lateSends>>
=============================================================================
