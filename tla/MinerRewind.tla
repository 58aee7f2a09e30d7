---------------------------- MODULE MinerRewind ----------------------------
(***************************************************************************)
(* ProcessBlockFound of miner.cpp, composed with ChainState.  When a mined *)
(* block competes with the tip, the miner marks the tip as failed to       *)
(* rewind the chain, has its own block processed and then clears the mark. *)
(* The tip is read before cs_main is taken.                                *)
(***************************************************************************)
EXTENDS ChainState

CONSTANT Miner      \* the thread, one of Threads, that mines

ASSUME MinerAssumption == Miner \in Threads

VARIABLES stage,    \* "mining", "found", "process", "processing", "lost"
          base,     \* the tip on which the block is mined
          mined,    \* the block found last
          lastTip   \* ProcessBlockFound's local variable

minerVars == <<stage, base, mined, lastTip>>
allVars == <<vars, minerVars>>

MinerInit == /\ Init
             /\ stage = "mining" /\ base = Genesis
             /\ mined = None /\ lastTip = None

\* The miner makes another block template.
NewTemplate ==
    /\ stage = "mining" /\ base' = tip
    /\ UNCHANGED <<vars, stage, mined, lastTip>>

\* A block is found; lastTip is read without the lock.
BlockFound(b) ==
    /\ stage = "mining" /\ ~shutdown
    /\ b \notin index /\ pprev[b] = base
    /\ stage' = "found" /\ mined' = b /\ lastTip' = tip
    /\ UNCHANGED <<vars, base>>

\* Is the block a sibling of lastTip?  (Whether the two are near in time is
\* left open.)
IsSibling == lastTip # Genesis /\ pprev[lastTip] = pprev[mined]

\* The block is above the tip.
Extends ==
    /\ stage = "found" /\ pprev[mined] = lastTip
    /\ stage' = "process"
    /\ UNCHANGED <<vars, base, mined, lastTip>>

\* The chain is rewound to connect the block in place of lastTip.
Rewind ==
    /\ stage = "found" /\ pprev[mined] # lastTip /\ IsSibling /\ ~shutdown
    /\ InvalidateBlock(lastTip)
    /\ stage' = IF shutdown' THEN "mining" ELSE "process"
    /\ UNCHANGED <<treeVars, seqVars, unlinked, rekeyed, threadVars,
                   pindexBestHeader, calls, base, mined, lastTip>>

\* The block comes too late; ActivateBestChain follows.
Lose ==
    /\ stage = "found" /\ pprev[mined] # lastTip /\ ~shutdown
    /\ IF Failed(lastTip) THEN ResetBlockFailureFlags(lastTip)
       ELSE UNCHANGED <<failVars, candidates>>
    /\ stage' = "lost"
    /\ pc' = [pc EXCEPT ![Miner] = "activate"]
    /\ UNCHANGED <<treeVars, seqVars, unlinked, rekeyed, pindexHighest,
                   pindexBestHeader, tip, shutdown, calls, base, mined, lastTip>>

\* The block is processed like one of a peer's.
Process ==
    /\ stage = "process" /\ ProcessNewBlock(Miner, mined, TRUE)
    /\ stage' = "processing"
    /\ UNCHANGED <<base, mined, lastTip>>

\* ProcessNewBlock has returned: lastTip is no longer marked as failed, and if
\* the block was not accepted ActivateBestChain follows.
MarkKept == UNCHANGED <<failVars, candidates>>
ClearMark == IF Failed(lastTip) THEN ResetBlockFailureFlags(lastTip)
             ELSE UNCHANGED <<failVars, candidates>>

Finish ==
    /\ stage \in {"processing", "lost"} /\ pc[Miner] = "idle" /\ ~shutdown
    /\ LET accepted == stage = "lost" \/ mined \in data
       IN  /\ stage' = IF accepted THEN "mining" ELSE "lost"
           /\ pc' = [pc EXCEPT ![Miner] = IF accepted THEN @ ELSE "activate"]
    /\ IF stage = "processing" THEN ClearMark
       ELSE UNCHANGED <<failVars, candidates>>
    /\ UNCHANGED <<treeVars, seqVars, unlinked, rekeyed, pindexHighest,
                   pindexBestHeader, tip, shutdown, calls, base, mined, lastTip>>

MinerStep == \/ NewTemplate \/ Extends \/ Rewind \/ Lose \/ Process
             \/ Finish
             \/ \E b \in Blocks \ {Genesis} : BlockFound(b)

NodeStep == /\ \/ Activate(Miner)
               \/ \E t \in Threads \ {Miner} : Deliver(t) \/ Activate(t)
            /\ UNCHANGED minerVars

MinerSpec == MinerInit /\ [][MinerStep \/ NodeStep]_allVars

-----------------------------------------------------------------------------
(* Properties                                                              *)

MinerTypeOK ==
    /\ TypeOK
    /\ stage \in {"mining", "found", "process", "processing", "lost"}
    /\ base \in linked /\ lastTip \in index \cup {None}
    /\ mined \in Blocks \cup {None}

\* When every block is good, ProcessBlockFound leaves no block marked as
\* failed: the mark was just to rewind, also if others activate chains or
\* deliver blocks meanwhile.
NothingStaysMarked ==
    /\ MinerTypeOK
    /\ stage = "mining" => failedValid \cup failedChild = {}

\* The chain is rewound one block back, not more.
OneBlockBack == [][Rewind => Height' >= Height - 1]_allVars

\* A tip that was replaced by the mined block does not come back unless its
\* chain has become higher.
ReplacedStays == [][tip = mined => tip' # lastTip]_allVars
=============================================================================
