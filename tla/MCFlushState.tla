---------------------------- MODULE MCFlushState ----------------------------
(* Genesis, two blocks after it and a branch, two blocks in a file. *)
EXTENDS FlushState, TLC

CONSTANTS g, a1, a2, b1
MCBlocks == {g, a1, a2, b1}
MCParent == a1 :> g @@ a2 :> a1 @@ b1 :> g
=============================================================================
