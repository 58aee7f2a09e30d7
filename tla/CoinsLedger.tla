---------------------------- MODULE CoinsLedger ----------------------------
(***************************************************************************)
(* What the stack of coin views promises: a map from transactions to their *)
(* unspent outputs, changed block by block.  The changes of a block are    *)
(* applied all together or not at all, and so are those of a flush to      *)
(* disk; a crash goes back to the last flush.  No cache is visible here.   *)
(***************************************************************************)
CONSTANTS Txs,      \* transaction hashes
          Coins,    \* what a view can hold of one: its outputs, or Pruned
          Pruned,   \* no unspent output
          Blocks,   \* hashes of blocks
          Genesis   \* the block of the empty ledger

VARIABLES disk, diskBest,   \* what survives a crash, and for which block
          utxo, best,       \* the state of the active chain's tip
          open, work        \* a block is being applied; its changes so far

vars == <<disk, diskBest, utxo, best, open, work>>

Empty == [t \in Txs |-> Pruned]

Init == /\ disk = Empty /\ utxo = Empty /\ work = Empty
        /\ diskBest = Genesis /\ best = Genesis /\ open = FALSE

Begin == /\ ~open /\ open' = TRUE
         /\ UNCHANGED <<disk, diskBest, utxo, best, work>>

Update == /\ open
          /\ \E t \in Txs, c \in Coins : work' = [work EXCEPT ![t] = c]
          /\ UNCHANGED <<disk, diskBest, utxo, best, open>>

Commit == /\ open /\ open' = FALSE
          /\ utxo' = work /\ best' \in Blocks
          /\ UNCHANGED <<disk, diskBest, work>>

Abandon == /\ open /\ open' = FALSE
           /\ work' = utxo
           /\ UNCHANGED <<disk, diskBest, utxo, best>>

Persist == /\ ~open
           /\ disk' = utxo /\ diskBest' = best
           /\ UNCHANGED <<utxo, best, open, work>>

Crash == /\ utxo' = disk /\ work' = disk /\ best' = diskBest
         /\ open' = FALSE
         /\ UNCHANGED <<disk, diskBest>>

Next == Begin \/ Update \/ Commit \/ Abandon \/ Persist \/ Crash

Spec == Init /\ [][Next]_vars
=============================================================================
