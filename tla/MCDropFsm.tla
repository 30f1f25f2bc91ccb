----------------------------- MODULE MCDropFsm -----------------------------
(***************************************************************************)
(* DropFsm on small instances, and the one property that needs a sum.      *)
(***************************************************************************)
EXTENDS DropFsm, FiniteSetsExt, TLC

\* The cards differ in nothing but their name.
CardSymmetry == Permutations(Nics)

\* Cards that share currState may take each other's blame, but updateDropFSM()
\* invents none: over all cards together, the drops blamed on the core or on the
\* transmit ring never outnumber the packets that found a receive ring empty.
TotalBlameBounded ==
    MapThenSumSet(LAMBDA n : drops[n]["core"] + drops[n]["tx"], Nics)
        <= MapThenSumSet(LAMBDA n : emptyArrivals[n], Nics)
=============================================================================
