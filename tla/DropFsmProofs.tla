---------------------------- MODULE DropFsmProofs ----------------------------
(***************************************************************************)
(* The drop counters of DropFsm, for every number of cards, every ring,    *)
(* FIFO and packet size: each drop is counted once, and with one card the  *)
(* drops blamed on the core are bounded by the packets that found the      *)
(* receive ring empty.                                                     *)
(***************************************************************************)
EXTENDS DropFsm, TLAPS

\* A waiting transmit packet has a descriptor: TypeOK is not inductive without.
WaitingHasDesc == \A n \in Nics : pktWaiting[n] => txLeft[n] > 0

CountInv == TypeOK /\ WaitingHasDesc /\ DropsAccounted

\* The bound that the steps preserve: in states "C" and "D" the last packet
\* found the ring empty and has not been charged yet.
Uncharged == IF currState \in {StateC, StateD} THEN 1 ELSE 0
ChargeInv ==
    \A n \in Nics : drops[n]["core"] + drops[n]["tx"] + Uncharged <= emptyArrivals[n]

LEMMA StateFacts ==
    /\ StateA \in FsmState /\ StateC \in FsmState /\ StateD \in FsmState
    /\ StateA \notin {StateC, StateD}
    /\ \A s \in FsmState :
          s \in {StateC, StateD} <=> ~s.rxFifoFull /\ s.rxRingFull
<1>1. StateC = [rxFifoFull |-> FALSE, rxRingFull |-> TRUE, txRingFull |-> FALSE]
  BY DEF StateC
<1>2. StateD = [rxFifoFull |-> FALSE, rxRingFull |-> TRUE, txRingFull |-> TRUE]
  BY DEF StateD
<1>3. StateA \in FsmState /\ StateC \in FsmState /\ StateD \in FsmState
  BY <1>1, <1>2 DEF FsmState, StateA
<1>4. StateA \notin {StateC, StateD}
  <2>1. StateA.rxRingFull = FALSE /\ StateC.rxRingFull = TRUE /\ StateD.rxRingFull = TRUE
    BY <1>1, <1>2 DEF StateA
  <2> QED BY <2>1
<1>5. ASSUME NEW s \in FsmState
      PROVE  s \in {StateC, StateD} <=> ~s.rxFifoFull /\ s.rxRingFull
  <2>1. s = [rxFifoFull |-> s.rxFifoFull, rxRingFull |-> s.rxRingFull,
             txRingFull |-> s.txRingFull]
        /\ s.rxFifoFull \in BOOLEAN /\ s.rxRingFull \in BOOLEAN /\ s.txRingFull \in BOOLEAN
    BY DEF FsmState
  <2>2. s \in {StateC, StateD} => ~s.rxFifoFull /\ s.rxRingFull
    BY <1>1, <1>2
  <2>3. ASSUME ~s.rxFifoFull, s.rxRingFull PROVE s \in {StateC, StateD}
    <3>1. s.rxFifoFull = FALSE /\ s.rxRingFull = TRUE
      BY <2>1, <2>3
    <3>2. s.txRingFull = TRUE \/ s.txRingFull = FALSE
      BY <2>1
    <3> QED BY <1>1, <1>2, <2>1, <3>1, <3>2
  <2> QED BY <2>2, <2>3
<1> QED BY <1>3, <1>4, <1>5

LEMMA InitCount == Init => CountInv
BY StateFacts, DropAssumption DEF Init, CountInv, TypeOK, WaitingHasDesc, DropsAccounted, Causes

\* One arrival in front of the state machine, over plain numbers.
LEMMA StepCount == CountInv /\ [Next]_vars => CountInv'
<1> SUFFICES ASSUME CountInv, [Next]_vars PROVE CountInv'
  OBVIOUS
<1> USE DropAssumption
<1>1. ASSUME NEW n \in Nics, EthRxDisabled(n) PROVE CountInv'
  BY <1>1 DEF EthRxDisabled, CountInv, TypeOK, WaitingHasDesc, DropsAccounted, Plus1, card
<1>2. ASSUME NEW n \in Nics, NEW len \in Lens, EthRxPkt(n, len) PROVE CountInv'
  <2> DEFINE new == [rxFifoFull |-> ~pushFits(n, len), rxRingFull |-> rxLeft[n] = 0,
                     txRingFull |-> ~pktWaiting[n] /\ txLeft[n] = TxFullAt]
             b == blame(currState, new)
  <2>1. new \in FsmState /\ b \in Causes /\ new.rxFifoFull = ~pushFits(n, len)
    BY DEF FsmState, blame, Causes
  <2>2. countDrop(n, new) /\ currState' = new
    BY <1>2 DEF EthRxPkt, updateDropFSM
  <2>3. drops' = IF pushFits(n, len) THEN drops
                 ELSE [drops EXCEPT ![n][b] = drops[n][b] + 1]
    BY <2>1, <2>2 DEF countDrop
  <2> HIDE DEF new, b
  <2>4. drops' \in [Nics -> [Causes -> Nat]]
    BY <2>1, <2>3 DEF CountInv, TypeOK
  <2>5. TypeOK'
    <3>1. fifoBytes' \in [Nics -> 0..FifoSize] /\ accepted' \in [Nics -> Nat]
          /\ rxFifoFullCount' \in [Nics -> Nat]
      <4>1. len \in Nat /\ fifoBytes[n] \in 0..FifoSize
        BY DEF CountInv, TypeOK
      <4>2. CASE pushFits(n, len)
        <5>1. fifoBytes[n] + len \in 0..FifoSize
          BY <4>1, <4>2 DEF pushFits
        <5>2. fifoBytes' = [fifoBytes EXCEPT ![n] = fifoBytes[n] + len]
              /\ accepted' = [accepted EXCEPT ![n] = accepted[n] + 1]
              /\ rxFifoFullCount' = rxFifoFullCount
          BY <1>2, <4>2 DEF EthRxPkt, Plus1
        <5> QED BY <5>1, <5>2 DEF CountInv, TypeOK
      <4>3. CASE ~pushFits(n, len)
        <5>1. rxFifoFullCount' = [rxFifoFullCount EXCEPT ![n] = rxFifoFullCount[n] + 1]
              /\ UNCHANGED <<fifoBytes, accepted>>
          BY <1>2, <4>3 DEF EthRxPkt, Plus1
        <5> QED BY <5>1 DEF CountInv, TypeOK
      <4> QED BY <4>2, <4>3
    <3>2. emptyArrivals' \in [Nics -> Nat] /\ rxPackets' \in [Nics -> Nat]
      <4>1. CASE rxLeft[n] = 0
        BY <1>2, <4>1 DEF EthRxPkt, Plus1, CountInv, TypeOK
      <4>2. CASE rxLeft[n] # 0
        BY <1>2, <4>2 DEF EthRxPkt, Plus1, CountInv, TypeOK
      <4> QED BY <4>1, <4>2
    <3>3. UNCHANGED <<rctlEn, rxLeft, txLeft, pktWaiting, rxdisabledDrops>>
      BY <1>2 DEF EthRxPkt
    <3> QED BY <2>1, <2>2, <2>4, <3>1, <3>2, <3>3 DEF CountInv, TypeOK
  <2>6. DropsAccounted'
    <3>1. CASE pushFits(n, len)
      BY <1>2, <2>3, <3>1 DEF EthRxPkt, Plus1, CountInv, TypeOK, DropsAccounted
    <3>2. CASE ~pushFits(n, len)
      <4>1. drops'[n]["dma"] + drops'[n]["core"] + drops'[n]["tx"]
              = drops[n]["dma"] + drops[n]["core"] + drops[n]["tx"] + 1
        BY <2>1, <2>3, <3>2 DEF CountInv, TypeOK, Causes
      <4>2. \A m \in Nics : m # n => drops'[m] = drops[m]
        BY <2>3 DEF CountInv, TypeOK
      <4>3. rxFifoFullCount' = [rxFifoFullCount EXCEPT ![n] = rxFifoFullCount[n] + 1]
            /\ rxPackets' = [rxPackets EXCEPT ![n] = rxPackets[n] + 1]
            /\ UNCHANGED <<accepted, rxdisabledDrops>>
        BY <1>2, <3>2 DEF EthRxPkt, Plus1
      <4>4. ASSUME NEW m \in Nics
            PROVE  /\ rxPackets'[m] = accepted'[m] + rxdisabledDrops'[m] + rxFifoFullCount'[m]
                   /\ rxFifoFullCount'[m] = drops'[m]["dma"] + drops'[m]["core"] + drops'[m]["tx"]
        <5>1. CASE m = n
          BY <4>1, <4>3, <5>1 DEF CountInv, TypeOK, DropsAccounted, Causes
        <5>2. CASE m # n
          BY <4>2, <4>3, <5>2 DEF CountInv, TypeOK, DropsAccounted
        <5> QED BY <5>1, <5>2
      <4> QED BY <4>4 DEF DropsAccounted
    <3> QED BY <3>1, <3>2
  <2>7. WaitingHasDesc'
    BY <1>2 DEF EthRxPkt, CountInv, WaitingHasDesc
  <2> QED BY <2>5, <2>6, <2>7 DEF CountInv
<1>3. ASSUME NEW n \in Nics, NEW len \in Lens, PopPacket(n, len) PROVE CountInv'
  BY <1>3 DEF PopPacket, CountInv, TypeOK, WaitingHasDesc, DropsAccounted, stats
<1>3a. ASSUME NEW n \in Nics, UseRx(n) PROVE CountInv'
  BY <1>3a DEF UseRx, CountInv, TypeOK, WaitingHasDesc, DropsAccounted, stats
<1>4. ASSUME NEW n \in Nics, PostRx(n) PROVE CountInv'
  BY <1>4 DEF PostRx, Plus1, CountInv, TypeOK, WaitingHasDesc, DropsAccounted, stats
<1>4a. ASSUME NEW n \in Nics, PostTx(n) PROVE CountInv'
  <2>1. txLeft' = [txLeft EXCEPT ![n] = txLeft[n] + 1] /\ txLeft[n] < TxRingLen - 1
        /\ UNCHANGED <<currState, rctlEn, fifoBytes, rxLeft, pktWaiting, stats>>
    BY <1>4a DEF PostTx, Plus1
  <2>2. txLeft' \in [Nics -> 0..(TxRingLen - 1)] /\ \A m \in Nics : txLeft'[m] >= txLeft[m]
    BY <2>1 DEF CountInv, TypeOK
  <2>3. WaitingHasDesc'
    BY <2>1, <2>2 DEF CountInv, TypeOK, WaitingHasDesc
  <2>4. TypeOK' /\ DropsAccounted'
    BY <2>1, <2>2 DEF CountInv, TypeOK, DropsAccounted, stats
  <2> QED BY <2>3, <2>4 DEF CountInv
<1>5. ASSUME NEW n \in Nics, StartTx(n) PROVE CountInv'
  BY <1>5 DEF StartTx, CountInv, TypeOK, WaitingHasDesc, DropsAccounted, stats
<1>5a. ASSUME NEW n \in Nics, EndTx(n) PROVE CountInv'
  <2>1. PICK used \in 0..1 : txLeft' = [txLeft EXCEPT ![n] = txLeft[n] - used]
    BY <1>5a DEF EndTx
  <2>2. txLeft[n] > 0 /\ pktWaiting' = [pktWaiting EXCEPT ![n] = FALSE]
        /\ UNCHANGED <<currState, rctlEn, fifoBytes, rxLeft, stats>>
    BY <1>5a DEF EndTx, CountInv, WaitingHasDesc
  <2>3. txLeft' \in [Nics -> 0..(TxRingLen - 1)] /\ pktWaiting' \in [Nics -> BOOLEAN]
    BY <2>1, <2>2 DEF CountInv, TypeOK
  <2>4. WaitingHasDesc'
    BY <2>1, <2>2 DEF CountInv, TypeOK, WaitingHasDesc
  <2>5. TypeOK' /\ DropsAccounted'
    BY <2>2, <2>3 DEF CountInv, TypeOK, DropsAccounted, stats
  <2> QED BY <2>4, <2>5 DEF CountInv
<1>5b. ASSUME NEW n \in Nics, UseContext(n) PROVE CountInv'
  <2>1. /\ ~pktWaiting[n] /\ txLeft[n] > 0
        /\ txLeft' = [txLeft EXCEPT ![n] = txLeft[n] - 1]
        /\ UNCHANGED <<currState, rctlEn, fifoBytes, rxLeft, pktWaiting, stats>>
    BY <1>5b DEF UseContext
  <2>2. txLeft' \in [Nics -> 0..(TxRingLen - 1)]
    BY <2>1 DEF CountInv, TypeOK
  <2>3. WaitingHasDesc'
    BY <2>1 DEF CountInv, TypeOK, WaitingHasDesc
  <2>4. TypeOK' /\ DropsAccounted'
    BY <2>1, <2>2 DEF CountInv, TypeOK, DropsAccounted, stats
  <2> QED BY <2>3, <2>4 DEF CountInv
<1>6. ASSUME NEW n \in Nics, WriteRCTL(n) PROVE CountInv'
  BY <1>6 DEF WriteRCTL, CountInv, TypeOK, WaitingHasDesc, DropsAccounted, stats
<1>7. CASE UNCHANGED vars
  BY <1>7 DEF vars, card, stats, CountInv, TypeOK, WaitingHasDesc, DropsAccounted
<1> QED BY <1>1, <1>2, <1>3, <1>3a, <1>4, <1>4a, <1>5, <1>5a, <1>5b, <1>6, <1>7 DEF Next

\* Every packet that reaches ethRxPkt() is accepted or counted as dropped, for
\* one cause, on any number of cards that share the state machine.
THEOREM DropsAlwaysAccounted == Spec => []DropsAccounted
<1>1. CountInv => DropsAccounted
  BY DEF CountInv
<1> QED BY InitCount, StepCount, <1>1, PTL DEF Spec

LEMMA StepCharge ==
    ASSUME NEW n, Nics = {n}, CountInv, ChargeInv, [Next]_vars
    PROVE  ChargeInv'
<1> USE DropAssumption
<1>0. drops \in [Nics -> [Causes -> Nat]] /\ emptyArrivals \in [Nics -> Nat]
      /\ currState \in FsmState /\ n \in Nics
  BY DEF CountInv, TypeOK
<1>s. ASSUME UNCHANGED <<currState, drops, emptyArrivals>> PROVE ChargeInv'
  BY <1>s DEF ChargeInv, Uncharged
<1>1. ASSUME NEW len \in Lens, EthRxPkt(n, len) PROVE ChargeInv'
  <2> DEFINE new == [rxFifoFull |-> ~pushFits(n, len), rxRingFull |-> rxLeft[n] = 0,
                     txRingFull |-> ~pktWaiting[n] /\ txLeft[n] = TxFullAt]
             b == blame(currState, new)
  <2>1. new \in FsmState /\ b \in Causes /\ new.rxFifoFull = ~pushFits(n, len)
        /\ new.rxRingFull = (rxLeft[n] = 0)
    BY DEF FsmState, blame, Causes
  <2>2. countDrop(n, new) /\ currState' = new
    BY <1>1 DEF EthRxPkt, updateDropFSM
  <2>3. drops' = IF new.rxFifoFull THEN [drops EXCEPT ![n][b] = drops[n][b] + 1] ELSE drops
    BY <2>2 DEF countDrop
  <2>4. emptyArrivals'[n] = emptyArrivals[n] + (IF new.rxRingFull THEN 1 ELSE 0)
    <3>1. CASE rxLeft[n] = 0
      BY <1>0, <1>1, <2>1, <3>1 DEF EthRxPkt, Plus1
    <3>2. CASE rxLeft[n] # 0
      <4>1. emptyArrivals' = emptyArrivals
        BY <1>1, <3>2 DEF EthRxPkt
      <4>2. ~new.rxRingFull
        BY <2>1, <3>2
      <4> QED BY <1>0, <4>1, <4>2
    <3> QED BY <3>1, <3>2
  <2>5. b # "dma" => new.rxRingFull \/ currState \in {StateC, StateD}
    BY DEF blame
  <2> HIDE DEF new, b
  <2>6. drops'[n]["core"] + drops'[n]["tx"]
          = drops[n]["core"] + drops[n]["tx"]
            + (IF new.rxFifoFull /\ b # "dma" THEN 1 ELSE 0)
    BY <1>0, <2>1, <2>3 DEF Causes
  <2>7. new \in {StateC, StateD} <=> ~new.rxFifoFull /\ new.rxRingFull
    BY <2>1, StateFacts
  <2>8. drops[n]["core"] + drops[n]["tx"] + Uncharged <= emptyArrivals[n]
        /\ drops[n]["core"] + drops[n]["tx"] \in Nat /\ emptyArrivals[n] \in Nat
    BY <1>0 DEF ChargeInv, Causes
  <2>9. Uncharged' = (IF ~new.rxFifoFull /\ new.rxRingFull THEN 1 ELSE 0)
    BY <2>2, <2>7 DEF Uncharged
  <2>10. drops'[n]["core"] + drops'[n]["tx"] + Uncharged' <= emptyArrivals'[n]
    BY <2>4, <2>5, <2>6, <2>8, <2>9 DEF Uncharged
  <2> QED BY <2>10 DEF ChargeInv
<1>2. ASSUME NEW len \in Lens, PopPacket(n, len) PROVE ChargeInv'
  BY <1>2, <1>s DEF PopPacket, stats
<1>3. CASE EthRxDisabled(n)
  BY <1>3, <1>s DEF EthRxDisabled
<1>4. CASE UseRx(n) \/ PostRx(n) \/ PostTx(n) \/ StartTx(n) \/ EndTx(n) \/ UseContext(n)
         \/ WriteRCTL(n)
  BY <1>4, <1>s DEF UseRx, PostRx, PostTx, StartTx, EndTx, UseContext, WriteRCTL, stats
<1>5. CASE UNCHANGED vars
  BY <1>5, <1>s DEF vars, stats
<1> QED BY <1>1, <1>2, <1>3, <1>4, <1>5 DEF Next

\* With one card the drops updateDropFSM() blames on the core or on the transmit
\* ring never outnumber the packets that found the receive ring empty.
THEOREM CoreDropsAlwaysBounded ==
    ASSUME NEW CONSTANT n, Nics = {n}
    PROVE  Spec => []CoreDropsBounded
<1>1. Init => ChargeInv
  BY StateFacts DEF Init, ChargeInv, Uncharged, Causes
<1>2. CountInv /\ ChargeInv /\ [Next]_vars => ChargeInv'
  BY StepCharge
<1>3. CountInv /\ ChargeInv => CoreDropsBounded
  BY DEF CountInv, TypeOK, ChargeInv, Uncharged, CoreDropsBounded, Causes
<1> QED BY InitCount, StepCount, <1>1, <1>2, <1>3, PTL DEF Spec
=============================================================================
