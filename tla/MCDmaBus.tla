------------------------------ MODULE MCDmaBus ------------------------------
(***************************************************************************)
(* Two devices on the I/O bus, with lines of two bytes: a DMA that begins  *)
(* in the middle of a line and fills the next, and one of that next line.  *)
(***************************************************************************)
EXTENDS DmaBus

BusDmas == {[addr |-> 1, size |-> 3], [addr |-> 2, size |-> 2]}
=============================================================================
