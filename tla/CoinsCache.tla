----------------------------- MODULE CoinsCache -----------------------------
(***************************************************************************)
(* The stack of coin views (coins.h, coins.cpp, txdb.cpp): the database    *)
(* CCoinsViewDB, the cache pcoinsTip on top of it and, while a block is    *)
(* connected or disconnected, a CCoinsViewCache of that block on top.      *)
(*                                                                         *)
(* cs_main is held from the creation of the block's view to its end, so    *)
(* nothing else touches pcoinsTip meanwhile.  A CCoinsModifier lives for   *)
(* one change of one entry, which is one step.  CCoins is abstracted to a  *)
(* value: Pruned when it has no unspent output, a member of Unspent        *)
(* otherwise; empty CCoins objects are equal whatever else they hold.      *)
(***************************************************************************)
EXTENDS Integers

CONSTANTS Txs, Unspent, Pruned, Blocks, Genesis,
          NullHash   \* uint256(): the best block is not known to a view

ASSUME CoinsAssumption == Pruned \notin Unspent
ASSUME BlocksAssumption == Genesis \in Blocks /\ NullHash \notin Blocks

Coins == Unspent \cup {Pruned}

\* A CCoinsCacheEntry, or the absence of one.
Entries == [in : BOOLEAN, coins : Coins, dirty : BOOLEAN, fresh : BOOLEAN]
Absent == [in |-> FALSE, coins |-> Pruned, dirty |-> FALSE, fresh |-> FALSE]
NoEntries == [t \in Txs |-> Absent]

VARIABLES db, dbBest,       \* records of the database, Pruned if there is none
          tip, tipBest,     \* pcoinsTip: cacheCoins, sha256Block
          view, open,       \* the block's view; it exists
          logicError        \* a std::logic_error has been thrown

vars == <<db, dbBest, tip, tipBest, view, open, logicError>>

Init ==
    /\ db = [t \in Txs |-> Pruned] /\ dbBest = Genesis
    /\ tip = NoEntries /\ tipBest = NullHash
    /\ view = NoEntries /\ open = FALSE
    /\ logicError = FALSE

-----------------------------------------------------------------------------
(* CCoinsViewCache, for one transaction: e is the entry of the cache,      *)
(* found and c what base->GetCoins answers.                                *)

\* FetchCoins
FetchCoins(e, found, c) ==
    IF e.in \/ ~found THEN e
    ELSE [in |-> TRUE, coins |-> c, dirty |-> FALSE, fresh |-> c = Pruned]

\* The entry that ModifyCoins hands out.
FreshByDefault(e, found, c) ==
    IF e.in THEN [e EXCEPT !.dirty = TRUE]
    ELSE [in |-> TRUE, coins |-> IF found THEN c ELSE Pruned, dirty |-> TRUE,
          fresh |-> TRUE]
ModifyCoins(e, found, c) ==
    IF e.in THEN [e EXCEPT !.dirty = TRUE]
    ELSE [in |-> TRUE, coins |-> IF found THEN c ELSE Pruned, dirty |-> TRUE,
          fresh |-> ~found \/ c = Pruned]

\* The entry that ModifyNewCoins hands out.
ModifyNewAlwaysFresh(e, coinbase) ==
    [in |-> TRUE, coins |-> Pruned, dirty |-> TRUE, fresh |-> TRUE]
ModifyNewCoins(e, coinbase) ==
    [in |-> TRUE, coins |-> Pruned, dirty |-> TRUE,
     fresh |-> e.fresh \/ (~coinbase /\ ~e.dirty)]

ModifyNewThrows(e, coinbase) == ~coinbase /\ e.coins # Pruned

\* The end of a CCoinsModifier that has set the coins to c.
ModifierEnds(e, c) ==
    IF e.fresh /\ c = Pruned THEN Absent ELSE [e EXCEPT !.coins = c]

\* BatchWrite of the entry child of a cache into the entry e of its parent.
BatchWrite(e, child) ==
    IF ~child.dirty THEN e
    ELSE IF ~e.in
    THEN IF child.fresh /\ child.coins = Pruned THEN e
         ELSE [child EXCEPT !.dirty = TRUE]
    ELSE IF e.fresh /\ child.coins = Pruned THEN Absent
    ELSE [e EXCEPT !.coins = child.coins, !.dirty = TRUE]

BatchWriteThrows(e, child) ==
    child.dirty /\ child.fresh /\ e.in /\ e.coins # Pruned

\* BatchWrite of CCoinsViewDB: a pruned entry is erased.
OnlyWrites(c, child) ==
    IF child.dirty /\ child.coins # Pruned THEN child.coins ELSE c
BatchWriteDB(c, child) == IF child.dirty THEN child.coins ELSE c

\* Uncache
UncacheEntry(e) == IF ~e.dirty /\ ~e.fresh THEN Absent ELSE e

-----------------------------------------------------------------------------
(* Reading through the stack                                               *)

\* pcoinsTip after GetCoins(t); it answers true iff t is in it then.
TipAfterGet(t) ==
    [tip EXCEPT ![t] = FetchCoins(tip[t], db[t] # Pruned, db[t])]

\* base->GetCoins(t) of the block's view is asked only if it has no entry.
TipAfterViewGet(t) == IF view[t].in THEN tip ELSE TipAfterGet(t)

\* What a view answers for t, and the block it stands for.
TipCoins(t) == IF tip[t].in THEN tip[t].coins ELSE db[t]
ViewCoins(t) == IF view[t].in THEN view[t].coins ELSE TipCoins(t)
TipBlock == IF tipBest = NullHash THEN dbBest ELSE tipBest

AccessTip(t) ==
    /\ ~open
    /\ tip' = TipAfterGet(t)
    /\ UNCHANGED <<db, dbBest, tipBest, view, open, logicError>>

\* GetSha256OfBestBlock of pcoinsTip remembers the answer of the database.
AskBestBlock ==
    /\ ~open
    /\ tipBest' = TipBlock
    /\ UNCHANGED <<db, dbBest, tip, view, open, logicError>>

AccessView(t) ==
    /\ open
    /\ tip' = TipAfterViewGet(t)
    /\ view' = [view EXCEPT ![t] =
                  FetchCoins(@, tip'[t].in, tip'[t].coins)]
    /\ UNCHANGED <<db, dbBest, tipBest, open, logicError>>

-----------------------------------------------------------------------------
(* A block: ConnectTip, DisconnectTip, TestBlockValidity                   *)

\* CCoinsViewCache view( pcoinsTip ); ConnectBlock and DisconnectBlock ask it
\* for its best block first.
OpenView ==
    /\ ~open /\ open' = TRUE
    /\ view' = NoEntries
    /\ tipBest' = TipBlock
    /\ UNCHANGED <<db, dbBest, tip, logicError>>

\* ModifyCoins(t), its modification, the end of the modifier.
Modify(t, c) ==
    /\ open
    /\ tip' = TipAfterViewGet(t)
    /\ view' = [view EXCEPT ![t] =
                  ModifierEnds(ModifyCoins(@, tip'[t].in, tip'[t].coins), c)]
    /\ UNCHANGED <<db, dbBest, tipBest, open, logicError>>

\* ModifyNewCoins(t, coinbase)->FromTx.  ConnectBlock has rejected a block
\* with a transaction that overwrites one with unspent outputs (BIP 30);
\* coins.cpp exempts coinbases from that assumption.
ModifyNew(t, coinbase, c) ==
    /\ open
    /\ coinbase \/ ViewCoins(t) = Pruned
    /\ view' = [view EXCEPT ![t] = ModifierEnds(ModifyNewCoins(@, coinbase), c)]
    /\ logicError' = (logicError \/ ModifyNewThrows(view[t], coinbase))
    /\ UNCHANGED <<db, dbBest, tip, tipBest, open>>

\* SetBestBlockBySha256 and Flush of the block's view, and its end.
FlushView(b) ==
    /\ open /\ open' = FALSE
    /\ tip' = [t \in Txs |-> BatchWrite(tip[t], view[t])]
    /\ logicError' = (logicError
                      \/ \E t \in Txs : BatchWriteThrows(tip[t], view[t]))
    /\ tipBest' = b
    /\ view' = NoEntries
    /\ UNCHANGED <<db, dbBest>>

\* The block is invalid, or was only tested: the view goes without a Flush.
DropView ==
    /\ open /\ open' = FALSE
    /\ view' = NoEntries
    /\ UNCHANGED <<db, dbBest, tip, tipBest, logicError>>

-----------------------------------------------------------------------------
(* pcoinsTip                                                               *)

\* pcoinsTip->Flush(): one batch for the coins and for DB_BEST_BLOCK.
FlushTip ==
    /\ ~open
    /\ db' = [t \in Txs |-> BatchWriteDB(db[t], tip[t])]
    /\ dbBest' = TipBlock
    /\ tip' = NoEntries
    /\ UNCHANGED <<tipBest, view, open, logicError>>

\* pcoinsTip->Uncache(t)
Uncache(t) ==
    /\ ~open
    /\ tip' = [tip EXCEPT ![t] = UncacheEntry(@)]
    /\ UNCHANGED <<db, dbBest, tipBest, view, open, logicError>>

\* The process ends and starts again with empty caches.
Crash ==
    /\ tip' = NoEntries /\ tipBest' = NullHash
    /\ view' = NoEntries /\ open' = FALSE
    /\ UNCHANGED <<db, dbBest, logicError>>

-----------------------------------------------------------------------------
Read == (\E t \in Txs : AccessTip(t) \/ AccessView(t)) \/ AskBestBlock

Change == \E t \in Txs, c \in Coins :
             Modify(t, c) \/ \E coinbase \in BOOLEAN : ModifyNew(t, coinbase, c)

Next == \/ Read \/ OpenView \/ Change
        \/ (\E b \in Blocks : FlushView(b)) \/ DropView
        \/ FlushTip \/ (\E t \in Txs : Uncache(t)) \/ Crash

Spec == Init /\ [][Next]_vars

-----------------------------------------------------------------------------
(* Properties                                                              *)

TypeOK ==
    /\ db \in [Txs -> Coins] /\ dbBest \in Blocks
    /\ tip \in [Txs -> Entries] /\ tipBest \in Blocks \cup {NullHash}
    /\ view \in [Txs -> Entries]
    /\ open \in BOOLEAN /\ logicError \in BOOLEAN
    /\ \A t \in Txs : (tip[t].in \/ tip[t] = Absent)
                      /\ (view[t].in \/ view[t] = Absent)

\* What the flags of an entry e over a parent that answers c mean: an entry
\* that is not DIRTY agrees with the parent, and a FRESH one has nothing
\* unspent below it.
FlagsMean(e, c) ==
    e.in => /\ ~e.dirty => e.coins = c
            /\ e.fresh => c = Pruned

\* "DIRTY: potentially different from the version in the parent view",
\* "FRESH: the parent view does not have this entry (or it is pruned)", for
\* both caches and after any sequence of fetches, changes and flushes.
FlagsSound ==
    \A t \in Txs : FlagsMean(tip[t], db[t]) /\ FlagsMean(view[t], TipCoins(t))

\* The two std::logic_error of coins.cpp are never thrown.
NoLogicError == ~logicError

\* The views are a ledger: what they answer is a map that a block changes
\* atomically and that a crash sets back to the last flush, for the block the
\* database names.
Ledger ==
    INSTANCE CoinsLedger WITH
        disk <- db, diskBest <- dbBest,
        utxo <- [t \in Txs |-> TipCoins(t)], best <- TipBlock,
        work <- [t \in Txs |-> ViewCoins(t)]

LedgerSpec == Ledger!Spec
=============================================================================
