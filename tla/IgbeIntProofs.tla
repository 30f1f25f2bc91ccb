---------------------------- MODULE IgbeIntProofs ----------------------------
(***************************************************************************)
(* No interrupt and no cause is lost, the line is never stuck and the      *)
(* throttle is kept, for all causes, masks, timers and intervals.          *)
(***************************************************************************)
EXTENDS IgbeInt, TLAPS

Regs ==
    [icr : SUBSET Causes, imr : SUBSET Causes, iam : SUBSET Causes, itr : 0..MaxItr,
     intAssert : BOOLEAN, inter : 0..None, timers : SUBSET (RxTimers \cup TxTimers),
     since : 0..MaxItr, disable : BOOLEAN, missed : BOOLEAN, hasty : BOOLEAN,
     minItr : 0..MaxItr]

\* What every function keeps.  An interrupt that waits does so until the least
\* interval has passed: without this, Throttled is not inductive.
Safe(c) ==
    /\ c \in Regs /\ ~c.hasty /\ c.minItr <= c.itr
    /\ c.inter # None => c.since + c.inter >= c.minItr

Heard(c) == Pending(c) # {} => c.intAssert \/ c.inter # None \/ c.missed
Line(c) == c.intAssert => Pending(c) # {}
Reported(c, t) == t \in c.icr \/ \E m \in c.timers : TimerCause(m) = t

IntInv ==
    /\ Safe(r) /\ Heard(r) /\ Line(r)
    /\ owed \subseteq Causes /\ \A t \in owed : Reported(r, t)

\* What a function must show of its result.
Good(c, p) == Safe(p) /\ Heard(p) /\ Line(p) /\ \A t : Reported(c, t) => Reported(p, t)

LEMMA NoneFacts ==
    /\ None \in Nat /\ None \in 0..None /\ 0 \in 0..MaxItr
    /\ \A i \in 0..MaxItr : i \in Nat /\ i \in 0..None /\ i # None
BY IntAssumption DEF None

LEMMA CancelledReported ==
    ASSUME NEW c \in Regs
    PROVE  /\ timerCauses(c) \subseteq Causes
           /\ \A t : Reported(c, t) => t \in c.icr \cup timerCauses(c)
<1>1. c.timers \subseteq {"rdtr", "radv", "tidv", "tadv"}
  BY IntAssumption DEF Regs
<1> QED BY <1>1, IntAssumption DEF timerCauses, Reported, TimerCause

\* cpuPostInt(), called when the throttle allows it.
LEMMA PostNow ==
    ASSUME NEW c, NEW now \in BOOLEAN, Safe(c), Line(c), ~now => c.minItr <= c.since,
           NEW p, p = cpuPostInt(c, now)
    PROVE  Good(c, p)
<1>0. c \in Regs
  BY DEF Safe
<1>1. CASE Pending(c) = {}
  BY <1>1 DEF cpuPostInt, Good, Heard
<1>2. CASE Pending(c) # {} /\ c.disable
  <2>1. p = [c EXCEPT !.missed = TRUE]
    BY <1>2 DEF cpuPostInt
  <2>2. /\ p \in Regs /\ p.missed = TRUE /\ p.icr = c.icr /\ p.imr = c.imr /\ p.timers = c.timers
        /\ p.intAssert = c.intAssert /\ p.inter = c.inter /\ p.since = c.since
        /\ p.minItr = c.minItr /\ p.itr = c.itr /\ p.hasty = c.hasty
    BY <1>0, <2>1 DEF Regs
  <2> QED BY <2>2 DEF Good, Safe, Heard, Line, Pending, Reported
<1>3. CASE Pending(c) # {} /\ ~c.disable
  <2>1. p = [c EXCEPT !.inter = None, !.timers = {}, !.icr = c.icr \cup timerCauses(c),
                      !.intAssert = TRUE, !.since = 0, !.missed = FALSE,
                      !.hasty = c.hasty, !.minItr = c.itr]
    <3>1. ~(~now /\ c.since < c.minItr)
      BY <1>0, IntAssumption DEF Regs
    <3> QED BY <1>3, <3>1 DEF cpuPostInt
  <2>2. timerCauses(c) \subseteq Causes
    BY <1>0, CancelledReported
  <2>3. /\ p \in Regs /\ p.icr = c.icr \cup timerCauses(c) /\ p.imr = c.imr /\ p.intAssert = TRUE
        /\ p.inter = None /\ p.minItr = p.itr /\ p.hasty = c.hasty
    <3> DEFINE causes == c.icr \cup timerCauses(c)
    <3>1. causes \subseteq Causes
      BY <1>0, <2>2 DEF Regs
    <3>2. p = [c EXCEPT !.inter = None, !.timers = {}, !.icr = causes, !.intAssert = TRUE,
                        !.since = 0, !.missed = FALSE, !.hasty = c.hasty, !.minItr = c.itr]
      BY <2>1
    <3> HIDE DEF causes
    <3>3. p \in Regs
      <4> DEFINE m == [c EXCEPT !.inter = None, !.timers = {}, !.icr = causes,
                                !.intAssert = TRUE]
      <4>1. None \in 0..None /\ 0 \in 0..MaxItr
        BY NoneFacts
      <4>2. m \in Regs /\ m.itr = c.itr /\ m.hasty = c.hasty
        BY <1>0, <3>1, <4>1 DEF Regs
      <4>3. p = [m EXCEPT !.since = 0, !.missed = FALSE, !.hasty = c.hasty, !.minItr = c.itr]
        BY <1>0, <3>2 DEF Regs
      <4> HIDE DEF m
      <4> QED BY <4>1, <4>2, <4>3 DEF Regs
    <3>4. /\ p.icr = causes /\ p.imr = c.imr /\ p.intAssert = TRUE
          /\ p.inter = None /\ p.minItr = p.itr /\ p.hasty = c.hasty
      BY <1>0, <3>2 DEF Regs
    <3> QED BY <3>3, <3>4 DEF causes
  <2>4. Pending(p) # {}
    BY <1>3, <2>3 DEF Pending
  <2>5. Safe(p)
    BY <2>3, IntAssumption DEF Safe, Regs
  <2>6. \A t : Reported(c, t) => Reported(p, t)
    BY <1>0, <2>3, CancelledReported DEF Reported
  <2> QED BY <2>3, <2>4, <2>5, <2>6 DEF Good, Heard, Line
<1> QED BY <1>1, <1>2, <1>3

LEMMA PostAny ==
    ASSUME NEW c, NEW t \in Causes, NEW now \in BOOLEAN, Safe(c), Heard(c), Line(c),
           NEW p, p = postInterrupt(c, {t}, now)
    PROVE  Good(c, p) /\ Reported(p, t)
<1> DEFINE set == [c EXCEPT !.icr = c.icr \cup {t}]
<1>0. c \in Regs /\ c.itr \in Nat /\ c.since \in Nat /\ c.minItr \in Nat /\ c.inter \in Nat
  BY IntAssumption DEF Safe, Regs, None
<1>1. CASE t \in c.icr /\ ~now
  BY <1>1 DEF postInterrupt, Good, Reported
<1>2. CASE ~(t \in c.icr /\ ~now) /\ (now \/ c.since >= c.itr)
  <2> DEFINE q == [set EXCEPT !.inter = None]
  <2>1. p = cpuPostInt(q, now)
    BY <1>2 DEF postInterrupt
  <2>2. /\ q \in Regs /\ q.icr = c.icr \cup {t} /\ q.imr = c.imr /\ q.timers = c.timers
        /\ q.intAssert = c.intAssert /\ q.inter = None /\ q.since = c.since
        /\ q.minItr = c.minItr /\ q.itr = c.itr /\ q.hasty = c.hasty
    BY <1>0, NoneFacts DEF Regs
  <2> HIDE DEF q
  <2>3. Safe(q) /\ Line(q)
    BY <2>2 DEF Safe, Line, Pending
  <2>4. ~now => q.minItr <= q.since
    BY <1>0, <1>2, <2>2 DEF Safe
  <2>5. Good(q, p)
    BY <2>1, <2>3, <2>4, PostNow
  <2>6. \A u : Reported(c, u) => Reported(q, u)
    BY <2>2 DEF Reported
  <2>7. Reported(q, t)
    BY <2>2 DEF Reported
  <2> QED BY <2>5, <2>6, <2>7 DEF Good
<1>3. CASE ~(t \in c.icr /\ ~now) /\ ~(now \/ c.since >= c.itr) /\ c.inter = None
  <2> DEFINE w == throttleWait(c)
  <2>1. p = [set EXCEPT !.inter = w]
    BY <1>3 DEF postInterrupt
  <2>2. w \in 0..MaxItr /\ c.since + w = c.itr
    <3>1. c.since < c.itr /\ c.itr <= MaxItr
      BY <1>0, <1>3, IntAssumption DEF Regs
    <3> QED BY <1>0, <3>1, IntAssumption DEF throttleWait
  <2>a. c \in Regs /\ w \in 0..None
    BY <1>0, <2>2, NoneFacts
  <2> HIDE DEF w
  <2>3. /\ p \in Regs /\ p.icr = c.icr \cup {t} /\ p.imr = c.imr /\ p.timers = c.timers
        /\ p.intAssert = c.intAssert /\ p.since = c.since /\ p.inter = w
        /\ p.minItr = c.minItr /\ p.itr = c.itr /\ p.hasty = c.hasty
    <3>1. set \in Regs /\ set.icr = c.icr \cup {t} /\ set.imr = c.imr /\ set.timers = c.timers
          /\ set.intAssert = c.intAssert /\ set.since = c.since
          /\ set.minItr = c.minItr /\ set.itr = c.itr /\ set.hasty = c.hasty
      BY <2>a DEF Regs
    <3> HIDE DEF set
    <3> QED BY <2>1, <2>a, <3>1 DEF Regs
  <2>4. p.inter # None /\ p.since + p.inter >= p.minItr
    BY <1>0, <2>2, <2>3, NoneFacts DEF Safe
  <2> QED BY <2>3, <2>4 DEF Good, Safe, Heard, Line, Pending, Reported
<1>4. CASE ~(t \in c.icr /\ ~now) /\ ~(now \/ c.since >= c.itr) /\ c.inter # None
  <2>1. p = set
    BY <1>4 DEF postInterrupt
  <2>2. /\ p \in Regs /\ p.icr = c.icr \cup {t} /\ p.imr = c.imr /\ p.timers = c.timers
        /\ p.intAssert = c.intAssert /\ p.since = c.since /\ p.inter = c.inter
        /\ p.minItr = c.minItr /\ p.itr = c.itr /\ p.hasty = c.hasty
    BY <1>0, <2>1 DEF Regs
  <2> QED BY <1>4, <2>2 DEF Good, Safe, Heard, Line, Pending, Reported
<1> QED BY <1>1, <1>2, <1>3, <1>4

\* chkInterrupt() puts things right, whatever was masked or cleared before.
LEMMA Checked ==
    ASSUME NEW c, Safe(c), NEW p, p = chkInterrupt(c)
    PROVE  Good(c, p)
<1>0. c \in Regs /\ c.itr \in Nat /\ c.since \in Nat /\ c.minItr \in Nat /\ c.inter \in Nat
  BY IntAssumption DEF Safe, Regs, None
<1>1. CASE Pending(c) = {}
  <2>1. p = [c EXCEPT !.inter = None, !.intAssert = FALSE, !.missed = FALSE]
    BY <1>1 DEF chkInterrupt, cleared
  <2>2. /\ p \in Regs /\ p.icr = c.icr /\ p.imr = c.imr /\ p.timers = c.timers
        /\ p.intAssert = FALSE /\ p.inter = None /\ p.minItr = c.minItr /\ p.itr = c.itr
        /\ p.hasty = c.hasty
    BY <1>0, <2>1, NoneFacts DEF Regs
  <2> QED BY <1>1, <2>2 DEF Good, Safe, Heard, Line, Pending, Reported
<1>2. CASE Pending(c) # {} /\ c.itr = 0
  <2>1. p = cpuPostInt(c, FALSE) /\ Line(c)
    BY <1>2 DEF chkInterrupt, Line
  <2>2. c.minItr <= c.since
    BY <1>0, <1>2 DEF Safe
  <2> QED BY <2>1, <2>2, PostNow
<1>3. CASE Pending(c) # {} /\ c.itr # 0 /\ c.inter = None
  <2>1. p = [c EXCEPT !.inter = c.itr]
    BY <1>3 DEF chkInterrupt, delayed
  <2>2. /\ p \in Regs /\ p.icr = c.icr /\ p.imr = c.imr /\ p.timers = c.timers
        /\ p.inter = c.itr /\ p.minItr = c.minItr /\ p.itr = c.itr /\ p.since = c.since
        /\ p.hasty = c.hasty /\ p.inter # None
    BY <1>0, <2>1, IntAssumption DEF Regs, None
  <2>3. Safe(p)
    BY <1>0, <2>2 DEF Safe
  <2> QED BY <1>3, <2>2, <2>3 DEF Good, Heard, Line, Pending, Reported
<1>4. CASE Pending(c) # {} /\ c.itr # 0 /\ c.inter # None
  BY <1>4 DEF chkInterrupt, delayed, Good, Heard, Line
<1> QED BY <1>1, <1>2, <1>3, <1>4

\* A change of other registers, then chkInterrupt() or nothing.
Same(c, p) ==
    /\ p \in Regs /\ p.hasty = c.hasty /\ p.minItr <= p.itr /\ p.minItr <= c.minItr
    /\ p.since = c.since /\ p.inter = c.inter /\ p.timers = c.timers

LEMMA SameSafe == ASSUME NEW c, NEW p, Safe(c), Same(c, p) PROVE Safe(p)
<1>1. c \in Regs /\ p \in Regs
  BY DEF Safe, Same
<1>2. /\ c.minItr \in Nat /\ p.minItr \in Nat /\ c.since \in Nat /\ c.inter \in Nat
  BY <1>1, NoneFacts DEF Regs
<1> QED BY <1>1, <1>2 DEF Safe, Same

\* The card's events.
LEMMA CardStep ==
    ASSUME IntInv,
           \/ RxPacket \/ TxPacket \/ Overrun \/ InterEvent \/ Advance
           \/ \E t \in Causes : Post(t)
           \/ \E t \in r.timers : TimerExpires(t)
    PROVE  IntInv'
<1>0. Safe(r) /\ Heard(r) /\ Line(r) /\ r \in Regs /\ "RXT0" \in Causes /\ "TXDW" \in Causes
      /\ "RXO" \in Causes
  BY IntAssumption DEF IntInv, Safe
<1>g. ASSUME NEW t \in Causes, Good(r, r'), Reported(r', t), owed' = (owed \ {}) \cup {t}
      PROVE  IntInv'
  BY <1>g DEF IntInv, Good
<1>p. ASSUME NEW t \in Causes, NEW now \in BOOLEAN, Step(postInterrupt(r, {t}, now), {}, {t})
      PROVE  IntInv'
  BY <1>0, <1>g, <1>p, PostAny DEF Step
<1>a. ASSUME NEW T, T \subseteq RxTimers \cup TxTimers, NEW t \in Causes,
             \E m \in T : TimerCause(m) = t,
             Step([r EXCEPT !.timers = r.timers \cup T], {}, {t})
      PROVE  IntInv'
  <2>1. r' = [r EXCEPT !.timers = r.timers \cup T] /\ owed' = (owed \ {}) \cup {t}
    BY <1>a DEF Step
  <2>2. /\ r' \in Regs /\ r'.icr = r.icr /\ r'.imr = r.imr /\ r'.timers = r.timers \cup T
        /\ r'.intAssert = r.intAssert /\ r'.since = r.since /\ r'.inter = r.inter
        /\ r'.minItr = r.minItr /\ r'.itr = r.itr /\ r'.hasty = r.hasty /\ r'.missed = r.missed
    BY <1>0, <1>a, <2>1 DEF Regs
  <2>3. Good(r, r')
    BY <1>0, <2>2 DEF Good, Safe, Heard, Line, Pending, Reported
  <2>4. Reported(r', t)
    BY <1>a, <2>2 DEF Reported
  <2> QED BY <1>g, <2>1, <2>3, <2>4
<1>1. CASE RxPacket
  <2>1. CASE RxTimers = {}
    BY <1>0, <1>1, <1>p, <2>1 DEF RxPacket
  <2>2. CASE RxTimers # {}
    <3>1. \E m \in RxTimers : TimerCause(m) = "RXT0"
      BY <2>2, IntAssumption DEF TimerCause
    <3>2. Step([r EXCEPT !.timers = r.timers \cup RxTimers], {}, {"RXT0"})
      BY <1>1, <2>2 DEF RxPacket
    <3> QED BY <1>0, <1>a, <3>1, <3>2
  <2> QED BY <2>1, <2>2
<1>2. CASE TxPacket
  <2>1. \E m \in TxTimers : TimerCause(m) = "TXDW"
    BY <1>2 DEF TxPacket, TimerCause
  <2> QED BY <1>0, <1>2, <1>a, <2>1 DEF TxPacket
<1>3. CASE Overrun
  BY <1>0, <1>3, <1>p DEF Overrun
<1>4. ASSUME NEW t \in Causes, Post(t) PROVE IntInv'
  BY <1>4, <1>p DEF Post
<1>5. ASSUME NEW t \in r.timers, TimerExpires(t) PROVE IntInv'
  <2> DEFINE c == [r EXCEPT !.timers = r.timers \ {t}]
  <2>1. TimerCause(t) \in Causes
    BY <1>0 DEF TimerCause
  <2>2. /\ c \in Regs /\ c.icr = r.icr /\ c.imr = r.imr /\ c.timers = r.timers \ {t}
        /\ c.intAssert = r.intAssert /\ c.since = r.since /\ c.inter = r.inter
        /\ c.minItr = r.minItr /\ c.itr = r.itr /\ c.hasty = r.hasty /\ c.missed = r.missed
    BY <1>0 DEF Regs
  <2>3. r' = postInterrupt(c, {TimerCause(t)}, FALSE) /\ owed' = (owed \ {}) \cup {}
    BY <1>5 DEF TimerExpires, Step
  <2> HIDE DEF c
  <2>4. Safe(c) /\ Heard(c) /\ Line(c)
    BY <1>0, <2>2 DEF Safe, Heard, Line, Pending
  <2>5. Good(c, r') /\ Reported(r', TimerCause(t))
    BY <2>1, <2>3, <2>4, PostAny
  <2>6. \A u : Reported(r, u) => Reported(c, u) \/ u = TimerCause(t)
    BY <2>2 DEF Reported
  <2> QED BY <2>3, <2>5, <2>6 DEF IntInv, Good
<1>6. CASE InterEvent
  <2> DEFINE c == [r EXCEPT !.inter = None]
  <2>1. r' = cpuPostInt(c, FALSE) /\ owed' = (owed \ {}) \cup {} /\ r.inter = 0
    BY <1>6 DEF InterEvent, Step
  <2>2. /\ c \in Regs /\ c.icr = r.icr /\ c.imr = r.imr /\ c.timers = r.timers
        /\ c.intAssert = r.intAssert /\ c.since = r.since /\ c.inter = None
        /\ c.minItr = r.minItr /\ c.itr = r.itr /\ c.hasty = r.hasty /\ c.missed = r.missed
    BY <1>0, NoneFacts DEF Regs
  <2>3. r.minItr <= r.since
    <3>1. r.minItr \in Nat /\ r.since \in Nat /\ r.inter # None
      BY <1>0, <2>1, NoneFacts DEF Regs
    <3> QED BY <1>0, <2>1, <3>1 DEF Safe
  <2> HIDE DEF c
  <2>4. Safe(c) /\ Line(c)
    BY <1>0, <2>2 DEF Safe, Line, Pending
  <2>5. Good(c, r')
    BY <2>1, <2>2, <2>3, <2>4, PostNow
  <2>6. \A u : Reported(r, u) => Reported(c, u)
    BY <2>2 DEF Reported
  <2> QED BY <2>1, <2>5, <2>6 DEF IntInv, Good
<1>7. CASE Advance
  <2> DEFINE s == IF r.since < MaxItr THEN r.since + 1 ELSE MaxItr
             i == IF r.inter = None THEN None ELSE r.inter - 1
  <2>1. r' = [r EXCEPT !.since = s, !.inter = i] /\ owed' = owed /\ r.inter # 0
    BY <1>7 DEF Advance
  <2>2. r.since \in 0..MaxItr /\ r.inter \in 0..None /\ r.minItr \in 0..MaxItr
    BY <1>0 DEF Regs
  <2>3. /\ s \in 0..MaxItr /\ i \in 0..None /\ (i # None <=> r.inter # None)
        /\ (r.inter # None => s + i >= r.minItr)
    BY <1>0, <2>1, <2>2, IntAssumption DEF Safe, None
  <2> HIDE DEF s, i
  <2>4. /\ r' \in Regs /\ r'.icr = r.icr /\ r'.imr = r.imr /\ r'.timers = r.timers
        /\ r'.intAssert = r.intAssert /\ r'.since = s /\ r'.inter = i
        /\ r'.minItr = r.minItr /\ r'.itr = r.itr /\ r'.hasty = r.hasty /\ r'.missed = r.missed
    BY <1>0, <2>1, <2>3 DEF Regs
  <2> QED BY <1>0, <2>1, <2>3, <2>4 DEF IntInv, Safe, Heard, Line, Pending, Reported
<1> QED BY <1>1, <1>2, <1>3, <1>4, <1>5, <1>6, <1>7

\* The driver's registers.
LEMMA DriverStep ==
    ASSUME IntInv,
           \/ ReadICR
           \/ \E v \in Writes : WriteICR(v) \/ WriteIMS(v) \/ WriteIMC(v) \/ WriteIAM(v)
           \/ \E v \in Itrs : WriteITR(v)
           \/ \E b \in BOOLEAN : WriteCommand(b)
    PROVE  IntInv'
<1>0. Safe(r) /\ Heard(r) /\ Line(r) /\ r \in Regs
  BY DEF IntInv, Safe
<1>m. ASSUME NEW c \in Regs
      PROVE  /\ masked(c) \in Regs /\ masked(c).icr = c.icr /\ masked(c).timers = c.timers
             /\ (Same(r, c) => Same(r, masked(c)))
  <2>1. CASE Iame
    <3>1. masked(c) = [c EXCEPT !.imr = c.imr \ c.iam]
      BY <2>1 DEF masked
    <3> QED BY <3>1 DEF Regs, Same
  <2>2. CASE ~Iame
    BY <2>2 DEF masked
  <2> QED BY <2>1, <2>2
\* A register changes, some causes are acknowledged, and interrupts are checked.
<1>c. ASSUME NEW c, Same(r, c), NEW seen, Step(chkInterrupt(c), seen, {}),
             r.icr \ c.icr \subseteq seen
      PROVE  IntInv'
  <2>1. Good(c, r') /\ owed' = (owed \ seen) \cup {}
    BY <1>0, <1>c, SameSafe, Checked DEF Step
  <2>2. \A t \in owed' : Reported(c, t)
    BY <1>c, <2>1 DEF IntInv, Reported, Same
  <2> QED BY <2>1, <2>2 DEF IntInv, Good
\* A register changes that no interrupt depends on.
<1>q. ASSUME Same(r, r'), owed' = (owed \ {}) \cup {}, r'.icr = r.icr, r'.imr = r.imr,
             r'.intAssert = r.intAssert, r'.missed = r.missed
      PROVE  IntInv'
  BY <1>0, <1>q, SameSafe DEF IntInv, Heard, Line, Pending, Reported, Same
<1>s. Same(r, r)
  <2>1. r.minItr \in Nat
    BY <1>0, NoneFacts DEF Regs
  <2> QED BY <1>0, <2>1 DEF Same, Safe
<1>1. CASE ReadICR
  <2> DEFINE c == IF readClears(r) THEN [r EXCEPT !.icr = {}] ELSE r
             e == IF r.intAssert THEN masked(c) ELSE c
  <2>1. Step(chkInterrupt(e), r.icr, {})
    BY <1>1 DEF ReadICR
  <2>2. c \in Regs /\ Same(r, c)
    <3>1. CASE readClears(r)
      BY <1>0, <1>s, <3>1 DEF Regs, Same
    <3>2. CASE ~readClears(r)
      BY <1>0, <1>s, <3>2
    <3> QED BY <3>1, <3>2
  <2> HIDE DEF c
  <2>3. Same(r, e)
    BY <1>m, <2>2
  <2> HIDE DEF e
  <2> QED BY <1>c, <2>1, <2>3
<1>2. ASSUME NEW v \in Writes, WriteICR(v) PROVE IntInv'
  <2> DEFINE c == masked(r)
             e == [c EXCEPT !.icr = c.icr \ v]
  <2>1. Step(chkInterrupt(e), v, {})
    BY <1>2 DEF WriteICR
  <2>2. c \in Regs /\ c.icr = r.icr /\ Same(r, c)
    BY <1>0, <1>m, <1>s
  <2> HIDE DEF c
  <2>3. Same(r, e) /\ e.icr = r.icr \ v
    BY <2>2 DEF Regs, Same
  <2> HIDE DEF e
  <2>4. r.icr \ e.icr \subseteq v
    BY <2>3
  <2> QED BY <1>c, <2>1, <2>3, <2>4
<1>3. ASSUME NEW v \in Writes, WriteIMS(v) \/ WriteIMC(v) PROVE IntInv'
  <2>1. PICK m \in {r.imr \cup v, r.imr \ v} :
            Step(chkInterrupt([r EXCEPT !.imr = m]), {}, {})
    BY <1>3 DEF WriteIMS, WriteIMC
  <2>2. m \subseteq Causes
    BY <1>0, <2>1, IntAssumption DEF Regs
  <2> DEFINE e == [r EXCEPT !.imr = m]
  <2>3. Same(r, e) /\ e.icr = r.icr
    BY <1>0, <1>s, <2>2 DEF Regs, Same
  <2>4. Step(chkInterrupt(e), {}, {})
    BY <2>1
  <2> HIDE DEF e
  <2>5. r.icr \ e.icr \subseteq {}
    BY <2>3
  <2> QED BY <1>c, <2>3, <2>4, <2>5
<1>4. ASSUME NEW v \in Writes, WriteIAM(v) PROVE IntInv'
  <2>1. r' = [r EXCEPT !.iam = v] /\ owed' = (owed \ {}) \cup {} /\ v \in SUBSET Causes
    BY <1>4, IntAssumption DEF WriteIAM, Step
  <2>2. Same(r, r') /\ r'.icr = r.icr /\ r'.imr = r.imr /\ r'.intAssert = r.intAssert
        /\ r'.missed = r.missed
    BY <1>0, <1>s, <2>1 DEF Regs, Same
  <2> QED BY <1>q, <2>1, <2>2
<1>5. ASSUME NEW v \in Itrs, WriteITR(v) PROVE IntInv'
  <2> DEFINE n == IF v < r.minItr THEN v ELSE r.minItr
  <2>1. r' = [r EXCEPT !.itr = v, !.minItr = n] /\ owed' = (owed \ {}) \cup {}
    BY <1>5 DEF WriteITR, Step
  <2>2. v \in 0..MaxItr /\ r.minItr \in 0..MaxItr
    BY <1>0, IntAssumption DEF Regs
  <2>3. n \in 0..MaxItr /\ n <= v /\ n <= r.minItr
    BY <2>2, IntAssumption
  <2> HIDE DEF n
  <2>4. Same(r, r') /\ r'.icr = r.icr /\ r'.imr = r.imr /\ r'.intAssert = r.intAssert
        /\ r'.missed = r.missed
    BY <1>0, <2>1, <2>2, <2>3 DEF Regs, Same
  <2> QED BY <1>q, <2>1, <2>4
<1>6. ASSUME NEW b \in BOOLEAN, WriteCommand(b) PROVE IntInv'
  <2>1. r' = [r EXCEPT !.disable = b] /\ owed' = (owed \ {}) \cup {}
    BY <1>6 DEF WriteCommand, Step
  <2>2. Same(r, r') /\ r'.icr = r.icr /\ r'.imr = r.imr /\ r'.intAssert = r.intAssert
        /\ r'.missed = r.missed
    BY <1>0, <1>s, <2>1 DEF Regs, Same
  <2> QED BY <1>q, <2>1, <2>2
<1> QED BY <1>1, <1>2, <1>3, <1>4, <1>5, <1>6

LEMMA InitInt == Init => IntInv
<1> SUFFICES ASSUME Init PROVE IntInv
  OBVIOUS
<1>1. r \in Regs /\ r.hasty = FALSE /\ r.minItr = 0 /\ r.itr = 0 /\ r.inter = None
      /\ r.icr = {} /\ r.intAssert = FALSE
  BY NoneFacts DEF Init, Regs
<1> QED BY <1>1 DEF Init, IntInv, Safe, Heard, Line, Pending

LEMMA StepInt == IntInv /\ [Next]_vars => IntInv'
<1> SUFFICES ASSUME IntInv, [Next]_vars PROVE IntInv'
  OBVIOUS
<1>1. CASE UNCHANGED vars
  BY <1>1 DEF vars, IntInv, Safe, Heard, Line, Pending, Reported
<1> QED BY <1>1, CardStep, DriverStep DEF Next

----------------------------------------------------------------------------
(* The theorems.                                                           *)

\* Registers, events and causes keep their types: interEvent is never further
\* away than the longest interval.
THEOREM IntTypeCorrect == Spec => []TypeOK
<1>1. IntInv => TypeOK
  BY DEF IntInv, Safe, Regs, TypeOK
<1> QED BY InitInt, StepInt, <1>1, PTL DEF Spec

\* postInterrupt(), cpuPostInt() and chkInterrupt() lose no interrupt that is not
\* masked, except to interruptDisable.
THEOREM InterruptNeverLost == Spec => []NoLostInterrupt
<1>1. IntInv => NoLostInterrupt
  BY DEF IntInv, Heard, NoLostInterrupt
<1> QED BY InitInt, StepInt, <1>1, PTL DEF Spec

\* cpuClearInt() is called whenever the last unmasked cause goes.
THEOREM LineAlwaysHasCause == Spec => []LineHasCause
<1>1. IntInv => LineHasCause
  BY DEF IntInv, Line, LineHasCause
<1> QED BY InitInt, StepInt, <1>1, PTL DEF Spec

\* A timer that cpuPostInt() cancels has its cause reported.
THEOREM CauseNeverLost == Spec => []NoLostCause
<1>1. IntInv => NoLostCause
  BY DEF IntInv, Reported, NoLostCause
<1> QED BY InitInt, StepInt, <1>1, PTL DEF Spec

\* No interrupt but an overrun comes earlier than ITR allows.
THEOREM AlwaysThrottled == Spec => []Throttled
<1>1. IntInv => Throttled
  BY DEF IntInv, Safe, Throttled
<1> QED BY InitInt, StepInt, <1>1, PTL DEF Spec
=============================================================================
