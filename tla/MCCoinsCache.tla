--------------------------- MODULE MCCoinsCache ---------------------------
(* Instances of CoinsCache for TLC.                                        *)
EXTENDS CoinsCache

CONSTANTS x, y, u, v, b0, b1

TwoTxs == {x, y}
TwoValues == {u, v}
TwoBlocks == {b0, b1}
=============================================================================
