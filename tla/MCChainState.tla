---------------------------- MODULE MCChainState ----------------------------
(* Instances of ChainState. *)
EXTENDS ChainState

CONSTANTS g, a1, a2, a3, b1, b2, b3, b4

\* Two branches, the longer one with an invalid end.
SixBlocks == {g, a1, a2, b1, b2, b3}
TwoBranches == [b \in SixBlocks \ {g} |->
    CASE b = a1 -> g [] b = a2 -> a1 [] b = b1 -> g [] b = b2 -> b1 [] b = b3 -> b2]
SixAddresses == [b \in SixBlocks |->
    CASE b = g -> 1 [] b = a1 -> 2 [] b = a2 -> 3 [] b = b1 -> 4 [] b = b2 -> 5
      [] b = b3 -> 6]

\* Two branches, one of which can be pruned before it outgrows the other.
EightBlocks == {g, a1, a2, a3, b1, b2, b3, b4}
LongBranches == [b \in EightBlocks \ {g} |->
    CASE b = a1 -> g [] b = a2 -> a1 [] b = a3 -> a2
      [] b = b1 -> g [] b = b2 -> b1 [] b = b3 -> b2 [] b = b4 -> b3]
EightAddresses == [b \in EightBlocks |->
    CASE b = g -> 1 [] b = a1 -> 2 [] b = a2 -> 3 [] b = a3 -> 4
      [] b = b1 -> 5 [] b = b2 -> 6 [] b = b3 -> 7 [] b = b4 -> 8]

\* Two blocks of the same height
ThreeBlocks == {g, a1, b1}
TwoTips == [b \in {a1, b1} |-> g]
ThreeAddresses == [b \in ThreeBlocks |->
    CASE b = g -> 1 [] b = a1 -> 2 [] b = b1 -> 3]
\* Two short branches
FiveBlocks == {g, a1, a2, b1, b2}
ShortBranches == [b \in FiveBlocks \ {g} |->
    CASE b = a1 -> g [] b = a2 -> a1 [] b = b1 -> g [] b = b2 -> b1]
FiveAddresses == [b \in FiveBlocks |->
    CASE b = g -> 1 [] b = a1 -> 2 [] b = a2 -> 3 [] b = b1 -> 4 [] b = b2 -> 5]
=============================================================================
