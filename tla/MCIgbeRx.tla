------------------------------ MODULE MCIgbeRx ------------------------------
(***************************************************************************)
(* IgbeRx on small instances, and the one property that needs a fold.      *)
(***************************************************************************)
EXTENDS IgbeRx, SequencesExt

\* PacketFifo::check(): the byte count of the FIFO is the sum of the lengths
\* of its packets, after any sequence of pushes, refused pushes and pops, and stays
\* within the FIFO's size.
FifoCountExact ==
    /\ fifoBytes = FoldSeq(LAMBDA pkt, sum : pkt.len + sum, 0, rxFifo)
    /\ fifoBytes <= FifoSize
=============================================================================
