------------------------------ MODULE CachePort ------------------------------
(***************************************************************************)
(* The side of a cache that faces the I/O bus (BaseCache and its           *)
(* CpuSidePort): when it refuses requests and when it calls back, and the  *)
(* queue of its responses.  Lines, their contents and what happens below   *)
(* the cache are left out: whether a request hits, when memory answers,    *)
(* how many of a miss's targets it serves and whether it evicts a dirty    *)
(* line are left open.                                                     *)
(*                                                                         *)
(* The cache is a record, and its member functions are operators on it.    *)
(* CacheResponsePort::blocked is `causes # {}'.  The sendEvent of the      *)
(* response queue is scheduled exactly while the queue is not empty and    *)
(* does not wait for a retry.                                              *)
(***************************************************************************)
EXTENDS Integers, Sequences, FiniteSets

CONSTANTS
    Lines,          \* lines of memory that are used
    NumMshrs,       \* misses outstanding: mshrs
    NumTargets,     \* requests per miss: tgts_per_mshr
    NumWrites,      \* write_buffers
    NoLine          \* no MSHR: the null pointer

ASSUME CacheSizes ==
    /\ {NumMshrs, NumTargets, NumWrites} \subseteq Nat \ {0}
    /\ IsFiniteSet(Lines) /\ NoLine \notin Lines

\* mshr[b] are the requests that wait for line b, and whether b was filled once;
\* `allocated' and `writes' are the entries in use in mshrQueue and writeBuffer.
IdleCache ==
    [mshr |-> [b \in Lines |-> [targets |-> <<>>, filled |-> FALSE]], allocated |-> 0,
     writes |-> 0, causes |-> {}, noTarget |-> NoLine, mustSendRetry |-> FALSE,
     sendRetryEvent |-> FALSE, queue |-> <<>>, waitingOnRetry |-> FALSE]

\* Mutant: the write buffer is full when its reserve is used up.
writesFullReserve(c) == c.writes >= NumWrites + NumMshrs

\* Queue::isFull(): the write buffer keeps a reserve of NumMshrs entries.
mshrsFull(c) == c.allocated >= NumMshrs
writesFull(c) == c.writes >= NumWrites

\* setBlocked() of the cache and, when it was not blocked, of its port: a retry
\* that is under way is cancelled, and owed again.
setBlocked(c, cause) ==
    [c EXCEPT !.causes = c.causes \cup {cause}, !.sendRetryEvent = FALSE,
              !.mustSendRetry = c.mustSendRetry \/ c.sendRetryEvent]

\* Mutant: the port does not call back who was refused.
clearBlockedSilent(c, cause) == [c EXCEPT !.causes = c.causes \ {cause}]

\* clearBlocked() of the cache and, when no cause is left, of its port.
clearBlocked(c, cause) ==
    [c EXCEPT !.causes = c.causes \ {cause},
              !.sendRetryEvent = c.causes \subseteq {cause} /\ c.mustSendRetry]

\* tryTiming() lets a request in.
takes(c) == c.causes = {} /\ ~c.mustSendRetry

\* The response queue is ordered by times, which are left out: any packet may be its
\* front, except that forceOrder keeps packets of one address in order and that what
\* waits for a retry stays first.
schedSendTiming(c, pkts) == [c EXCEPT !.queue = c.queue \o pkts]

mayBeFront(c, i) ==
    /\ c.waitingOnRetry => i = 1
    /\ \A j \in 1..(i - 1) : c.queue[j].addr # c.queue[i].addr

allocateMissBuffer(c, b, pkt) ==
    LET new == [c EXCEPT !.mshr[b].targets = <<pkt>>, !.allocated = c.allocated + 1]
    IN IF mshrsFull(new) THEN setBlocked(new, "NoMSHRs") ELSE new

allocateTarget(c, b, pkt) ==
    LET new == [c EXCEPT !.mshr[b].targets = Append(c.mshr[b].targets, pkt)]
    IN IF Len(new.mshr[b].targets) = NumTargets
       THEN setBlocked([new EXCEPT !.noTarget = b], "NoTargets") ELSE new

allocateWriteBuffer(c) ==
    LET new == [c EXCEPT !.writes = c.writes + 1]
    IN IF writesFull(new) THEN setBlocked(new, "NoWBBuffers") ELSE new

\* CpuSidePort::recvTimingReq(): refused; a hit, which is answered; or a miss.
recvTimingReq(c, b, pkt, hit) ==
    CASE ~takes(c) -> [c EXCEPT !.mustSendRetry = TRUE]
      [] takes(c) /\ hit -> schedSendTiming(c, <<pkt>>)
      [] takes(c) /\ ~hit /\ c.mshr[b].targets # <<>> -> allocateTarget(c, b, pkt)
      [] OTHER -> allocateMissBuffer(c, b, pkt)

processSendRetry(c) == [c EXCEPT !.mustSendRetry = FALSE, !.sendRetryEvent = FALSE]

\* recvTimingResp() for line b: the first n targets are served, and the others make
\* the MSHR ask again; a first fill may evict a line.  A later fill of the same MSHR
\* does not: a line that has an MSHR is not replaced.
clearTargets(c, b) ==
    IF c.noTarget = b THEN clearBlocked([c EXCEPT !.noTarget = NoLine], "NoTargets") ELSE c

serviceMSHRTargets(c, b, n) ==
    LET new == schedSendTiming(c, SubSeq(c.mshr[b].targets, 1, n))
        rest == SubSeq(c.mshr[b].targets, n + 1, Len(c.mshr[b].targets))
    IN [new EXCEPT !.mshr[b] = [targets |-> rest, filled |-> rest # <<>>]]

deallocate(c) ==
    LET new == [c EXCEPT !.allocated = c.allocated - 1]
    IN IF mshrsFull(c) /\ ~mshrsFull(new) THEN clearBlocked(new, "NoMSHRs") ELSE new

recvTimingResp(c, b, n, evicts) ==
    LET served == serviceMSHRTargets(clearTargets(c, b), b, n)
        freed == IF served.mshr[b].targets = <<>> THEN deallocate(served) ELSE served
    IN IF evicts THEN allocateWriteBuffer(freed) ELSE freed

\* A writeback is sent: markInService().
writebackSent(c) ==
    LET new == [c EXCEPT !.writes = c.writes - 1]
    IN IF writesFull(c) /\ ~writesFull(new) THEN clearBlocked(new, "NoWBBuffers") ELSE new
=============================================================================
