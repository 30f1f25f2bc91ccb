------------------------------- MODULE DropFsm -------------------------------
(***************************************************************************)
(* How the IGbE cards of a system count the packets they drop: ethRxPkt()  *)
(* and updateDropFSM(), which blames each drop on the DMA engine, on the   *)
(* core or on the transmit ring.                                           *)
(*                                                                         *)
(* The state of the machine, currState, is a variable of the source file   *)
(* and not of the card: every card of the system shares it.  The rest of a *)
(* card is reduced to what ethRxPkt() reads: the bytes in rxFifo, how many *)
(* descriptors each ring has left, and whether a packet of the transmit    *)
(* path is waiting.                                                        *)
(***************************************************************************)
EXTENDS Naturals, FiniteSets

CONSTANTS
    Nics,           \* the cards of the system
    Lens,           \* packet lengths that arrive
    FifoSize,       \* rx_fifo_size
    RxRingLen, TxRingLen,
    TxFullAt,       \* the number of descriptors that counts as a full transmit ring
    MaxArrivals     \* bound on the packets that reach one card

ASSUME DropAssumption ==
    /\ FifoSize \in Nat /\ Lens \subseteq Nat \ {0} /\ MaxArrivals \in Nat
    /\ RxRingLen \in Nat \ {0} /\ TxRingLen \in Nat \ {0} /\ TxFullAt \in Nat

VARIABLES
    currState,      \* the flags of the last arrival at any card
    rctlEn,         \* RCTL.EN
    fifoBytes,      \* PacketFifo::_size
    rxLeft, txLeft, \* descLeft() of the two descriptor caches
    pktWaiting,     \* TxDescCache::packetWaiting()
    rxPackets, rxdisabledDrops, rxFifoFullCount,    \* statistics of a card
    drops,          \* dmaDrops, coreDrops and txDrops, by cause
    accepted,       \* packets pushed into rxFifo
    emptyArrivals   \* packets that found the receive ring without a descriptor

card == <<rctlEn, fifoBytes, rxLeft, txLeft, pktWaiting>>
stats == <<rxPackets, rxdisabledDrops, rxFifoFullCount, drops, accepted, emptyArrivals>>
vars == <<currState, card, stats>>

Causes == {"dma", "core", "tx"}

\* "A" to "H" of the source are the eight values of the flags, in binary order.
FsmState == [rxFifoFull : BOOLEAN, rxRingFull : BOOLEAN, txRingFull : BOOLEAN]
StateA == [rxFifoFull |-> FALSE, rxRingFull |-> FALSE, txRingFull |-> FALSE]
StateC == [rxFifoFull |-> FALSE, rxRingFull |-> TRUE, txRingFull |-> FALSE]
StateD == [rxFifoFull |-> FALSE, rxRingFull |-> TRUE, txRingFull |-> TRUE]

Init ==
    /\ currState = StateA
    /\ rctlEn = [n \in Nics |-> TRUE] /\ fifoBytes = [n \in Nics |-> 0]
    /\ rxLeft = [n \in Nics |-> 0] /\ txLeft = [n \in Nics |-> 0]
    /\ pktWaiting = [n \in Nics |-> FALSE]
    /\ rxPackets = [n \in Nics |-> 0] /\ rxdisabledDrops = [n \in Nics |-> 0]
    /\ rxFifoFullCount = [n \in Nics |-> 0] /\ accepted = [n \in Nics |-> 0]
    /\ drops = [n \in Nics |-> [c \in Causes |-> 0]]
    /\ emptyArrivals = [n \in Nics |-> 0]

Plus1(f, n) == [f EXCEPT ![n] = f[n] + 1]

\* Mutant: the core is blamed after a drop on an empty ring as well ("G" and "H").
blameSticky(old, new) ==
    IF ~new.rxRingFull /\ ~old.rxRingFull THEN "dma"
    ELSE IF new.rxRingFull /\ new.txRingFull /\ old # StateC THEN "tx"
    ELSE "core"

\* Which counter the transition from one state to a state with rxFifoFull adds to.
blame(old, new) ==
    IF ~new.rxRingFull /\ old \notin {StateC, StateD} THEN "dma"
    ELSE IF new.rxRingFull /\ new.txRingFull /\ old # StateC THEN "tx"
    ELSE "core"

\* Mutant: the drop that leaves the state as it was is not counted.
countDropOnce(n, new) ==
    drops' = IF new.rxFifoFull /\ new # currState
             THEN [drops EXCEPT ![n][blame(currState, new)] = drops[n][blame(currState, new)] + 1]
             ELSE drops

countDrop(n, new) ==
    drops' = IF new.rxFifoFull
             THEN [drops EXCEPT ![n][blame(currState, new)] = drops[n][blame(currState, new)] + 1]
             ELSE drops

updateDropFSM(n, new) == countDrop(n, new) /\ currState' = new

pushFits(n, len) == FifoSize - fifoBytes[n] >= len

\* ethRxPkt(): a card that is disabled drops the packet and says nothing to the
\* state machine; otherwise the flags are read and the packet is pushed.
EthRxDisabled(n) ==
    /\ ~rctlEn[n] /\ rxPackets[n] < MaxArrivals
    /\ rxPackets' = Plus1(rxPackets, n)
    /\ rxdisabledDrops' = Plus1(rxdisabledDrops, n)
    /\ UNCHANGED <<currState, card, rxFifoFullCount, drops, accepted, emptyArrivals>>

EthRxPkt(n, len) ==
    /\ rctlEn[n] /\ rxPackets[n] < MaxArrivals
    /\ rxPackets' = Plus1(rxPackets, n)
    /\ updateDropFSM(n, [rxFifoFull |-> ~pushFits(n, len),
                         rxRingFull |-> rxLeft[n] = 0,
                         txRingFull |-> ~pktWaiting[n] /\ txLeft[n] = TxFullAt])
    /\ emptyArrivals' = IF rxLeft[n] = 0 THEN Plus1(emptyArrivals, n) ELSE emptyArrivals
    /\ IF pushFits(n, len)
       THEN /\ fifoBytes' = [fifoBytes EXCEPT ![n] = fifoBytes[n] + len]
            /\ accepted' = Plus1(accepted, n)
            /\ UNCHANGED rxFifoFullCount
       ELSE /\ rxFifoFullCount' = Plus1(rxFifoFullCount, n)
            /\ UNCHANGED <<fifoBytes, accepted>>
    /\ UNCHANGED <<rctlEn, rxLeft, txLeft, pktWaiting, rxdisabledDrops>>

\* The rest of the card and the driver, as far as ethRxPkt() can see them: a
\* packet leaves the FIFO when the last of it is being written to a buffer, and
\* a descriptor is used when that DMA has ended; buffers and packets are posted,
\* transmit descriptors are used, the receiver is switched.
PopPacket(n, len) ==
    /\ rxLeft[n] > 0 /\ fifoBytes[n] >= len
    /\ fifoBytes' = [fifoBytes EXCEPT ![n] = fifoBytes[n] - len]
    /\ UNCHANGED <<currState, rctlEn, rxLeft, txLeft, pktWaiting, stats>>

UseRx(n) ==
    /\ rxLeft[n] > 0
    /\ rxLeft' = [rxLeft EXCEPT ![n] = rxLeft[n] - 1]
    /\ UNCHANGED <<currState, rctlEn, fifoBytes, txLeft, pktWaiting, stats>>

PostRx(n) ==
    /\ rxLeft[n] < RxRingLen - 1
    /\ rxLeft' = Plus1(rxLeft, n)
    /\ UNCHANGED <<currState, rctlEn, fifoBytes, txLeft, pktWaiting, stats>>

\* descLeft() is less than the ring has descriptors, by theorem
\* DescLeftAlwaysExact of DescRingProofs.
PostTx(n) ==
    /\ txLeft[n] < TxRingLen - 1
    /\ txLeft' = Plus1(txLeft, n)
    /\ UNCHANGED <<currState, rctlEn, fifoBytes, rxLeft, pktWaiting, stats>>

StartTx(n) ==
    /\ ~pktWaiting[n] /\ txLeft[n] > 0
    /\ pktWaiting' = [pktWaiting EXCEPT ![n] = TRUE]
    /\ UNCHANGED <<currState, rctlEn, fifoBytes, rxLeft, txLeft, stats>>

\* The packet's DMA ends.  With segmentation the descriptor may have more to send.
EndTx(n) ==
    /\ pktWaiting[n]
    /\ pktWaiting' = [pktWaiting EXCEPT ![n] = FALSE]
    /\ \E used \in 0..1 : txLeft' = [txLeft EXCEPT ![n] = txLeft[n] - used]
    /\ UNCHANGED <<currState, rctlEn, fifoBytes, rxLeft, stats>>

\* processContextDesc(): a descriptor without a packet.
UseContext(n) ==
    /\ ~pktWaiting[n] /\ txLeft[n] > 0
    /\ txLeft' = [txLeft EXCEPT ![n] = txLeft[n] - 1]
    /\ UNCHANGED <<currState, rctlEn, fifoBytes, rxLeft, pktWaiting, stats>>

WriteRCTL(n) ==
    /\ rctlEn' = [rctlEn EXCEPT ![n] = ~rctlEn[n]]
    /\ UNCHANGED <<currState, fifoBytes, rxLeft, txLeft, pktWaiting, stats>>

Next ==
    \E n \in Nics :
        \/ EthRxDisabled(n)
        \/ \E len \in Lens : EthRxPkt(n, len) \/ PopPacket(n, len)
        \/ UseRx(n) \/ PostRx(n) \/ PostTx(n) \/ StartTx(n) \/ EndTx(n) \/ UseContext(n)
        \/ WriteRCTL(n)

Spec == Init /\ [][Next]_vars

----------------------------------------------------------------------------
(* Properties.                                                             *)

\* Type invariant.
TypeOK ==
    /\ currState \in FsmState
    /\ rctlEn \in [Nics -> BOOLEAN] /\ pktWaiting \in [Nics -> BOOLEAN]
    /\ fifoBytes \in [Nics -> 0..FifoSize]
    /\ rxLeft \in [Nics -> 0..(RxRingLen - 1)] /\ txLeft \in [Nics -> 0..(TxRingLen - 1)]
    /\ rxPackets \in [Nics -> Nat] /\ rxdisabledDrops \in [Nics -> Nat]
    /\ rxFifoFullCount \in [Nics -> Nat] /\ accepted \in [Nics -> Nat]
    /\ drops \in [Nics -> [Causes -> Nat]] /\ emptyArrivals \in [Nics -> Nat]

\* Every packet that reached a card is accounted for once: it was accepted, or
\* dropped while the receiver was off, or dropped by a full FIFO and then blamed
\* on exactly one of the three causes, whatever the other cards did to the state
\* machine in between.
DropsAccounted ==
    \A n \in Nics :
        /\ rxPackets[n] = accepted[n] + rxdisabledDrops[n] + rxFifoFullCount[n]
        /\ rxFifoFullCount[n] = drops[n]["dma"] + drops[n]["core"] + drops[n]["tx"]

\* A drop blamed on the core, or on the transmit ring, has a packet of its own
\* that found the receive ring of this card empty: updateDropFSM() blames one
\* drop too late (from "C" and "D") only when that arrival itself was no drop.
CoreDropsBounded ==
    \A n \in Nics : drops[n]["core"] + drops[n]["tx"] <= emptyArrivals[n]
=============================================================================
