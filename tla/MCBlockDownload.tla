-------------------------- MODULE MCBlockDownload --------------------------
(* A peer that answers, and one that need not and is on a shorter chain. *)
EXTENDS BlockDownload, TLC

CONSTANTS g, a1, a2, a3, a4, good, slow
FourOnTop == {g, a1, a2, a3, a4}
OneChain == a1 :> g @@ a2 :> a1 @@ a3 :> a2 @@ a4 :> a3
SlowBehind == good :> a4 @@ slow :> a2
=============================================================================
