------------------------- MODULE MCDistributedSim --------------------------
(* Small instances of DistributedSim for TLC: a pair of ranks joined by    *)
(* two links, and a chain of three ranks.                                  *)
EXTENDS DistributedSim, TLC

CONSTANTS r1, r2, r3, l1, l2

PairEnds == (l1 :> {r1, r2}) @@ (l2 :> {r1, r2})
ChainEnds == (l1 :> {r1, r2}) @@ (l2 :> {r2, r3})
OneAndTwo == (l1 :> 1) @@ (l2 :> 2)
ThreeAndOne == (l1 :> 3) @@ (l2 :> 1)
=============================================================================
