------------------------------- MODULE IgbeInt -------------------------------
(***************************************************************************)
(* The interrupts of the IGbE card: the cause, mask and throttle           *)
(* registers, postInterrupt(), cpuPostInt(), chkInterrupt() and the events *)
(* that delay an interrupt.                                                *)
(*                                                                         *)
(* Time is counted in units of ITR.  `since' is the time since the last    *)
(* interrupt, up to the largest interval; `inter' is the time left until   *)
(* interEvent, which runs before time goes on.  The delays of the four     *)
(* moderation timers are left open: a timer may expire at any time.        *)
(***************************************************************************)
EXTENDS Naturals

CONSTANTS
    Causes,         \* interrupt causes in use: bits of ICR
    RxTimers,       \* which of RDTR and RADV are set, a subset of {"rdtr", "radv"}
    TxTimers,       \* which of TIDV and TADV are set, a subset of {"tidv", "tadv"}
    Iame,           \* CTRL_EXT.IAME
    Itrs, MaxItr,   \* values the driver writes to ITR, and the largest
    Writes          \* values written to ICR, IMS, IMC and IAM: sets of causes

ASSUME IntAssumption ==
    /\ {"RXT0", "TXDW", "RXO"} \subseteq Causes
    /\ RxTimers \subseteq {"rdtr", "radv"} /\ TxTimers \subseteq {"tidv", "tadv"}
    /\ Iame \in BOOLEAN /\ MaxItr \in Nat /\ Itrs \subseteq 0..MaxItr
    /\ Writes \subseteq SUBSET Causes

\* No event scheduled: further away than any.
None == MaxItr + 1

VARIABLES
    r,          \* the card: registers, interrupt line, events
    owed        \* causes that occurred and that the driver has not seen

vars == <<r, owed>>

Init ==
    /\ r = [icr |-> {}, imr |-> {}, iam |-> {}, itr |-> 0, intAssert |-> FALSE,
            inter |-> None, timers |-> {}, since |-> 0, disable |-> FALSE,
            missed |-> FALSE, hasty |-> FALSE, minItr |-> 0]
    /\ owed = {}

Pending(c) == c.icr \cap c.imr

----------------------------------------------------------------------------
(* The member functions.                                                   *)

\* Mutant: the causes of the receive timers that are cancelled are forgotten.
timerCausesTxOnly(c) == IF c.timers \cap {"tidv", "tadv"} # {} THEN {"TXDW"} ELSE {}

\* cpuPostInt() cancels the moderation timers and reports their causes now.
timerCauses(c) ==
    (IF c.timers \cap {"rdtr", "radv"} # {} THEN {"RXT0"} ELSE {})
        \cup (IF c.timers \cap {"tidv", "tadv"} # {} THEN {"TXDW"} ELSE {})

\* `missed' notes an interrupt that COMMAND.interruptDisable suppressed, `hasty'
\* one that came sooner after the one before than the least ITR in between
\* allows; `now' is set for an overrun.
cpuPostInt(c, now) ==
    IF Pending(c) = {} THEN c
    ELSE IF c.disable THEN [c EXCEPT !.missed = TRUE]
    ELSE [c EXCEPT !.inter = None, !.timers = {},
                   !.icr = c.icr \cup timerCauses(c),
                   !.intAssert = TRUE, !.since = 0, !.missed = FALSE,
                   !.hasty = IF ~now /\ c.since < c.minItr THEN TRUE ELSE c.hasty,
                   !.minItr = c.itr]

\* Mutant: one unit early.
throttleWaitShort(c) == (c.itr - c.since) - 1

\* The time left until lastInterrupt + itr.
throttleWait(c) == c.itr - c.since

postInterrupt(c, t, now) ==
    LET set == [c EXCEPT !.icr = c.icr \cup t]
    IN IF t \cap c.icr # {} /\ ~now THEN c
       ELSE IF now \/ c.since >= c.itr THEN cpuPostInt([set EXCEPT !.inter = None], now)
       ELSE IF c.inter = None THEN [set EXCEPT !.inter = throttleWait(c)]
       ELSE set

\* Mutant: the line stays asserted when the last cause goes.
clearedKeep(c) == [c EXCEPT !.inter = None, !.missed = FALSE]

\* chkInterrupt() without a pending cause: cpuClearInt().
cleared(c) == [c EXCEPT !.inter = None, !.intAssert = FALSE, !.missed = FALSE]

\* Mutants: a throttled interrupt is not scheduled; it is put off each time.
delayedNever(c) == c
delayedAgain(c) == [c EXCEPT !.inter = c.itr]

\* chkInterrupt() with a pending cause and a throttle.
delayed(c) == IF c.inter = None THEN [c EXCEPT !.inter = c.itr] ELSE c

chkInterrupt(c) ==
    IF Pending(c) = {} THEN cleared(c)
    ELSE IF c.itr = 0 THEN cpuPostInt(c, FALSE)
    ELSE delayed(c)

----------------------------------------------------------------------------
(* The card.                                                               *)

Step(c, seen, new) == r' = c /\ owed' = (owed \ seen) \cup new

\* pktComplete() of the receive side: the timers are set, or RXT0 is posted.
RxPacket ==
    LET armed == [r EXCEPT !.timers = r.timers \cup RxTimers]
    IN Step(IF RxTimers = {} THEN postInterrupt(r, {"RXT0"}, FALSE) ELSE armed,
            {}, {"RXT0"})

\* pktComplete() of the transmit side, for a descriptor with IDE; TADV counts
\* only if TIDV is set.
TxPacket ==
    /\ "tidv" \in TxTimers
    /\ Step([r EXCEPT !.timers = r.timers \cup TxTimers], {}, {"TXDW"})

\* The posts that are not delayed: actionAfterWb() (TXDW), TXQE, TXDLOW, SRPD, a
\* write of ICS.
Post(t) == Step(postInterrupt(r, {t}, FALSE), {}, {t})

\* ethRxPkt() with a full FIFO.
Overrun == Step(postInterrupt(r, {"RXO"}, TRUE), {}, {"RXO"})

TimerCause(t) == IF t \in {"rdtr", "radv"} THEN "RXT0" ELSE "TXDW"

\* rdtrProcess(), radvProcess(), tidvProcess(), tadvProcess().
TimerExpires(t) ==
    /\ t \in r.timers
    /\ Step(postInterrupt([r EXCEPT !.timers = r.timers \ {t}], {TimerCause(t)}, FALSE),
            {}, {})

\* delayIntEvent().
InterEvent ==
    /\ r.inter = 0
    /\ Step(cpuPostInt([r EXCEPT !.inter = None], FALSE), {}, {})

Advance ==
    /\ r.inter # 0
    /\ r' = [r EXCEPT !.since = IF r.since < MaxItr THEN r.since + 1 ELSE MaxItr,
                      !.inter = IF r.inter = None THEN None ELSE r.inter - 1]
    /\ UNCHANGED owed

----------------------------------------------------------------------------
(* The driver.                                                             *)

masked(c) == IF Iame THEN [c EXCEPT !.imr = c.imr \ c.iam] ELSE c

readClears(c) == c.intAssert \/ c.imr = {}

ReadICR ==
    LET c == IF readClears(r) THEN [r EXCEPT !.icr = {}] ELSE r
    IN Step(chkInterrupt(IF r.intAssert THEN masked(c) ELSE c), r.icr, {})

WriteICR(v) ==
    LET c == masked(r)
    IN Step(chkInterrupt([c EXCEPT !.icr = c.icr \ v]), v, {})

WriteITR(v) ==
    Step([r EXCEPT !.itr = v, !.minItr = IF v < r.minItr THEN v ELSE r.minItr], {}, {})

WriteIMS(v) == Step(chkInterrupt([r EXCEPT !.imr = r.imr \cup v]), {}, {})
WriteIMC(v) == Step(chkInterrupt([r EXCEPT !.imr = r.imr \ v]), {}, {})
WriteIAM(v) == Step([r EXCEPT !.iam = v], {}, {})

\* writeConfig() of the PCI command register: nothing else is done.
WriteCommand(b) == Step([r EXCEPT !.disable = b], {}, {})

Next ==
    \/ RxPacket \/ TxPacket \/ Overrun
    \/ \E t \in Causes : Post(t)
    \/ \E t \in r.timers : TimerExpires(t)
    \/ InterEvent \/ Advance
    \/ ReadICR
    \/ \E v \in Writes : WriteICR(v) \/ WriteIMS(v) \/ WriteIMC(v) \/ WriteIAM(v)
    \/ \E v \in Itrs : WriteITR(v)
    \/ \E b \in BOOLEAN : WriteCommand(b)

Spec == Init /\ [][Next]_vars

\* Simulated time goes on, and interEvent runs when it is due.
FairSpec == Spec /\ WF_vars(Advance) /\ WF_vars(InterEvent)

----------------------------------------------------------------------------
(* Properties.                                                             *)

\* Type invariant: interEvent is never further away than the longest interval.
TypeOK ==
    /\ r.icr \subseteq Causes /\ r.imr \subseteq Causes /\ r.iam \subseteq Causes
    /\ r.itr \in 0..MaxItr /\ r.since \in 0..MaxItr /\ r.minItr \in 0..MaxItr
    /\ r.inter \in 0..None
    /\ r.timers \subseteq RxTimers \cup TxTimers
    /\ {r.intAssert, r.disable, r.missed, r.hasty} \subseteq BOOLEAN
    /\ owed \subseteq Causes

\* A cause that is not masked has the line asserted or interEvent on its way,
\* however masks, throttle, acknowledgements and timers interleave.  The one
\* exception is an interrupt that interruptDisable suppressed: nothing posts it
\* again when the bit is cleared.
NoLostInterrupt == Pending(r) # {} => r.intAssert \/ r.inter # None \/ r.missed

\* The line is never left asserted without a cause: the driver can always make
\* it go away by acknowledging or masking what it reads.
LineHasCause == r.intAssert => Pending(r) # {}

\* What happened is reported: a cause the driver has not seen is in ICR, or one
\* of its timers runs, although cpuPostInt() cancels the timers of every cause
\* whenever it posts any.
NoLostCause ==
    \A t \in owed : t \in r.icr \/ \E m \in r.timers : TimerCause(m) = t

\* Interrupts keep the distance of ITR, "minimum inter-interrupt interval", except
\* for overruns; a new value of ITR counts from when it is written.
Throttled == ~r.hasty

\* A cause that stays unmasked is delivered, whatever the driver writes and
\* whatever other causes arrive.
Delivered == Pending(r) # {} ~> (r.intAssert \/ Pending(r) = {} \/ r.missed)
=============================================================================
