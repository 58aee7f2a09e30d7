--------------------------- MODULE MCMinerRewind ---------------------------
(* Instances of MinerRewind: a short chain and a competitor of its blocks. *)
EXTENDS MinerRewind

CONSTANTS g, a1, a2, b1

FourBlocks == {g, a1, a2, b1}
Competitor == [b \in FourBlocks \ {g} |->
    CASE b = a1 -> g [] b = a2 -> a1 [] b = b1 -> g]
FourAddresses == [b \in FourBlocks |->
    CASE b = g -> 1 [] b = a1 -> 2 [] b = a2 -> 3 [] b = b1 -> 4]
=============================================================================
