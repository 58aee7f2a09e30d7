-------------------------- MODULE MCMiningThreads --------------------------
(* An instance of MiningThreads: the RPC starts and stops one thread and   *)
(* changes its kind, the end of the program stops it, and somebody asks.   *)
EXTENDS MiningThreads

CONSTANTS m1, zero

OneMiner == {m1}
TwoKinds == {Maximum, zero}
=============================================================================
