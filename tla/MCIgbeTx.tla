------------------------------ MODULE MCIgbeTx ------------------------------
(***************************************************************************)
(* IgbeTx on small instances: the jobs, and what must leave on the wire.   *)
(***************************************************************************)
EXTENDS IgbeTx, SequencesExt

Context(tse, hdr, mss, total) ==
    [ctx |-> TRUE, tse |-> tse, hdr |-> hdr, mss |-> mss, total |-> total,
     len |-> 0, at |-> 0, eop |-> FALSE]
Buffer(at, len, eop) ==
    [ctx |-> FALSE, tse |-> FALSE, hdr |-> 0, mss |-> 0, total |-> 0,
     len |-> len, at |-> at, eop |-> eop]
BufferTso(at, len, total, eop) == [Buffer(at, len, eop) EXCEPT !.tse = TRUE, !.total = total]

\* A packet in one buffer, and in two.
OneBuffer == <<Buffer(0, 1, TRUE)>>
TwoBuffers == <<Buffer(0, 2, FALSE), Buffer(2, 2, TRUE)>>

\* A message in segments of two bytes behind one byte of header: with the header
\* in a buffer of its own; with a segment that starts in one buffer and ends in
\* the next (segmentation asked for by the data); and a single segment.
TsoSplit == <<Context(TRUE, 1, 2, 3), Buffer(0, 1, FALSE), Buffer(1, 3, TRUE)>>
TsoAcross == <<Context(FALSE, 1, 2, 0), BufferTso(0, 4, 5, FALSE), BufferTso(4, 2, 5, TRUE)>>
TsoShort == <<Context(TRUE, 1, 1, 1), Buffer(0, 2, TRUE)>>

MixedJobs == {TwoBuffers, TsoSplit, TsoAcross}
ShortJobs == {OneBuffer, TsoShort}

----------------------------------------------------------------------------
(* The reference: a job's packets, computed from the job as a whole.       *)

MessageLen(job) == Last(job).at + Last(job).len
PayloadLen(job) == LET asks == SelectSeq(job, LAMBDA b : b.tse) IN Head(asks).total
Segmented(job) == \E i \in 1..Len(job) : job[i].tse

Packets(id, job) ==
    IF ~Segmented(job)
    THEN <<[data |-> bytes(id, 0, MessageLen(job)), seq |-> 0, nr |-> 0, last |-> TRUE]>>
    ELSE LET hdr == Head(job).hdr
             mss == Head(job).mss
             total == PayloadLen(job)
             count == (total + mss - 1) \div mss
         IN [n \in 1..count |->
                [data |-> bytes(id, 0, hdr)
                            \o bytes(id, hdr + (n - 1) * mss,
                                     SmallerOf(mss, total - (n - 1) * mss)),
                 seq |-> (n - 1) * mss, nr |-> n - 1, last |-> n = count]]

\* Everything that is still to leave, in order.
ToSend ==
    LET all == FlattenSeq([i \in 1..Len(work) |-> Packets(work[i].id, work[i].job)])
    IN SubSeq(all, sent + 1, Len(all))

\* The bytes, sequence numbers, ids and flags of the packets in the FIFO are the
\* ones of the jobs, in order, whatever buffers they were cut from, and the
\* packet under construction is a part of the one after them.
WireExact ==
    LET n == Len(txFifo)
    IN /\ IsPrefix(txFifo, ToSend)
       /\ txPacket.data # <<>> => Len(ToSend) > n /\ IsPrefix(txPacket.data, ToSend[n + 1].data)
       /\ pktDone /\ ~pktMultiDesc => txPacket = ToSend[n + 1]

\* PacketFifo's accounts: its size is the sum of the lengths of its packets, and
\* the space set aside is exactly what the packet under construction takes, with
\* its headers and the bytes still on their way: push() never fails, and avail(),
\* which is unsigned, never wraps.
ReserveExact ==
    /\ fifoSize = FoldSeq(LAMBDA pkt, sum : Len(pkt.data) + sum, 0, txFifo)
    /\ reserved = Len(IF "pkt" \in InFlight THEN dataRead ELSE txPacket.data)
    /\ fifoSize + reserved <= FifoSize
=============================================================================
