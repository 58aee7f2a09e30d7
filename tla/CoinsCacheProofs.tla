-------------------------- MODULE CoinsCacheProofs --------------------------
(***************************************************************************)
(* Proofs about CoinsCache, for any sets of transactions, coins and        *)
(* blocks: the flags of both caches mean what coins.h says, no logic_error *)
(* is thrown, and the stack of views implements CoinsLedger.               *)
(***************************************************************************)
EXTENDS CoinsCache, TLAPS

\* The provers may take a minute; Zenon is the one to try where a leaf names none.
USE ZenonT(60)

\* The inductive invariant.  FlagsSound needs only that there is no entry of a
\* view that does not exist.
IInv == TypeOK /\ FlagsSound /\ NoLogicError /\ (~open => view = NoEntries)

-----------------------------------------------------------------------------
(* Facts about one entry                                                   *)

\* A change through ModifyNewCoins, where only a coinbase may replace coins that
\* are not pruned, keeps the type and the meaning of an entry, and the view
\* answers with the new coins.
LEMMA ModifyNewOK ==
    ASSUME NEW e \in Entries, NEW c \in Coins, NEW d \in Coins,
           NEW coinbase \in BOOLEAN,
           e.in \/ e = Absent, FlagsMean(e, c),
           coinbase \/ (IF e.in THEN e.coins ELSE c) = Pruned
    PROVE  LET f == ModifierEnds(ModifyNewCoins(e, coinbase), d)
           IN  /\ f \in Entries /\ (f.in \/ f = Absent) /\ FlagsMean(f, c)
               /\ (IF f.in THEN f.coins ELSE c) = d
               /\ ~ModifyNewThrows(e, coinbase)
<1> DEFINE g == ModifyNewCoins(e, coinbase)
           f == ModifierEnds(g, d)
<1>1. /\ g \in Entries /\ g.in = TRUE /\ g.dirty = TRUE
      /\ (g.fresh = TRUE) <=> (e.fresh = TRUE \/ (coinbase = FALSE /\ e.dirty = FALSE))
  BY DEF ModifyNewCoins, Entries, Coins
<1>2. g.fresh = TRUE => c = Pruned
  BY SMTT(60), <1>1 DEF FlagsMean, Entries, Absent
<1>3. f \in Entries /\ (f.in \/ f = Absent) /\ FlagsMean(f, c)
  <2> HIDE DEF g
  <2>1. CASE g.fresh = TRUE /\ d = Pruned
    BY <2>1, <1>1 DEF ModifierEnds, FlagsMean, Entries, Absent, Coins
  <2>2. CASE ~(g.fresh = TRUE /\ d = Pruned)
    BY <2>2, <1>1, <1>2 DEF ModifierEnds, FlagsMean, Entries, Absent, Coins
  <2> QED  BY <2>1, <2>2
<1>4. (IF f.in THEN f.coins ELSE c) = d
  <2> HIDE DEF g
  <2> QED  BY <1>1, <1>2 DEF ModifierEnds, Entries, Absent
<1>5. ~ModifyNewThrows(e, coinbase)
  BY SMTT(60) DEF ModifyNewThrows, Absent
<1> QED  BY <1>3, <1>4, <1>5

\* BatchWrite makes the parent answer what the child answered.
LEMMA BatchWriteOK ==
    ASSUME NEW e \in Entries, NEW child \in Entries, NEW c \in Coins,
           e.in \/ e = Absent, child.in \/ child = Absent,
           FlagsMean(e, c), FlagsMean(child, IF e.in THEN e.coins ELSE c)
    PROVE  LET f == BatchWrite(e, child)
           IN  /\ f \in Entries /\ (f.in \/ f = Absent) /\ FlagsMean(f, c)
               /\ (IF f.in THEN f.coins ELSE c) =
                    (IF child.in THEN child.coins
                     ELSE IF e.in THEN e.coins ELSE c)
               /\ ~BatchWriteThrows(e, child)
<1> DEFINE f == BatchWrite(e, child)
<1>1. ~BatchWriteThrows(e, child)
  BY SMTT(60) DEF BatchWriteThrows, FlagsMean, Absent
<1>2. CASE child.dirty = FALSE
  BY <1>1, <1>2 DEF BatchWrite, FlagsMean, Entries, Absent
<1>3. CASE child.dirty = TRUE /\ e.in = FALSE
  <2>1. child.in = TRUE /\ e = Absent
    BY SMTT(60), <1>3 DEF Absent
  <2>2. CASE child.fresh = TRUE /\ child.coins = Pruned
    BY <1>1, <1>3, <2>1, <2>2 DEF BatchWrite, FlagsMean, Entries, Absent
  <2>3. CASE ~(child.fresh = TRUE /\ child.coins = Pruned)
    <3>1. f = [child EXCEPT !.dirty = TRUE]
      BY <1>3, <2>3 DEF BatchWrite, Entries
    <3>2. f \in Entries /\ f.in = TRUE /\ f.dirty = TRUE
          /\ f.fresh = child.fresh /\ f.coins = child.coins
      BY <3>1, <2>1, <1>3 DEF Entries
    <3> QED  BY <1>1, <1>3, <2>1, <3>2 DEF FlagsMean, Entries, Absent
  <2> QED  BY <2>2, <2>3
<1>4. CASE child.dirty = TRUE /\ e.in = TRUE
  <2>1. child.in = TRUE
    BY SMTT(60), <1>4 DEF Absent
  <2>2. CASE e.fresh = TRUE /\ child.coins = Pruned
    <3>1. f = Absent
      BY <1>4, <2>2 DEF BatchWrite
    <3> QED  BY SMTT(60), <1>1, <1>4, <2>1, <2>2, <3>1 DEF FlagsMean, Entries, Absent, Coins
  <2>3. CASE ~(e.fresh = TRUE /\ child.coins = Pruned)
    <3>1. f = [e EXCEPT !.coins = child.coins, !.dirty = TRUE]
      BY <1>4, <2>3 DEF BatchWrite, Entries
    <3>2. f \in Entries /\ f.in = TRUE /\ f.dirty = TRUE
          /\ f.fresh = e.fresh /\ f.coins = child.coins
      BY <3>1, <1>4 DEF Entries
    <3> QED  BY <1>1, <1>4, <2>1, <3>2 DEF FlagsMean, Entries
  <2> QED  BY <2>2, <2>3
<1> QED  BY <1>2, <1>3, <1>4 DEF Entries

-----------------------------------------------------------------------------
(* Facts about the stack                                                   *)

utxoMap == [t \in Txs |-> TipCoins(t)]
workMap == [t \in Txs |-> ViewCoins(t)]

\* A read of pcoinsTip changes neither its answers nor the meaning of flags.
LEMMA TipGet ==
    ASSUME IInv, NEW t \in Txs, tip' = TipAfterGet(t), db' = db
    PROVE  /\ tip' \in [Txs -> Entries]
           /\ \A s \in Txs : /\ tip'[s].in \/ tip'[s] = Absent
                             /\ FlagsMean(tip'[s], db[s])
                             /\ TipCoins(s)' = TipCoins(s)
           /\ IF tip'[t].in THEN tip'[t].coins = TipCoins(t)
              ELSE TipCoins(t) = Pruned
<1> DEFINE f == FetchCoins(tip[t], db[t] # Pruned, db[t])
<1>1. /\ tip[t] \in Entries /\ db[t] \in Coins /\ FlagsMean(tip[t], db[t])
      /\ tip[t].in \/ tip[t] = Absent
  BY DEF IInv, TypeOK, FlagsSound
<1>2. /\ f \in Entries /\ (f.in \/ f = Absent) /\ FlagsMean(f, db[t])
      /\ (IF f.in THEN f.coins ELSE db[t])
            = (IF tip[t].in THEN tip[t].coins ELSE db[t])
      /\ (f.in \/ db[t] = Pruned)
  BY <1>1 DEF FetchCoins, FlagsMean, Entries, Absent, Coins
<1>3. tip' = [tip EXCEPT ![t] = f]
  BY DEF TipAfterGet
<1>4. tip'[t] = f /\ \A s \in Txs : s # t => tip'[s] = tip[s]
  BY <1>3 DEF IInv, TypeOK
<1> HIDE DEF f
<1>5. tip' \in [Txs -> Entries]
  BY <1>2, <1>3 DEF IInv, TypeOK
<1>6. ASSUME NEW s \in Txs
      PROVE  /\ tip'[s].in \/ tip'[s] = Absent
             /\ FlagsMean(tip'[s], db[s])
             /\ TipCoins(s)' = TipCoins(s)
  BY <1>2, <1>4 DEF IInv, TypeOK, FlagsSound, TipCoins
<1>7. IF tip'[t].in THEN tip'[t].coins = TipCoins(t) ELSE TipCoins(t) = Pruned
  BY <1>2, <1>4 DEF TipCoins
<1> QED  BY <1>5, <1>6, <1>7

\* A read of pcoinsTip on behalf of the block's view.
LEMMA ViewGet ==
    ASSUME IInv, NEW t \in Txs, tip' = TipAfterViewGet(t), db' = db
    PROVE  /\ tip' \in [Txs -> Entries]
           /\ \A s \in Txs : /\ tip'[s].in \/ tip'[s] = Absent
                             /\ FlagsMean(tip'[s], db[s])
                             /\ TipCoins(s)' = TipCoins(s)
           /\ view[t].in = FALSE =>
                IF tip'[t].in THEN tip'[t].coins = TipCoins(t)
                ELSE TipCoins(t) = Pruned
<1>1. CASE view[t].in = TRUE
  <2>1. tip' = tip
    BY <1>1 DEF TipAfterViewGet
  <2> QED  BY <1>1, <2>1 DEF IInv, TypeOK, FlagsSound, TipCoins
<1>2. CASE view[t].in = FALSE
  <2>1. tip' = TipAfterGet(t)
    BY <1>2 DEF TipAfterViewGet
  <2> QED  BY <2>1, TipGet
<1> QED  BY <1>1, <1>2 DEF IInv, TypeOK, Entries

\* If one entry of the block's view is replaced by a sound one that answers c,
\* while the answers of pcoinsTip stay, the view's answer for it becomes c.
LEMMA ViewSet ==
    ASSUME IInv, NEW t \in Txs, NEW e \in Entries, NEW c \in Coins,
           open, open' = TRUE, db' = db, dbBest' = dbBest, tipBest' = tipBest,
           logicError' = FALSE,
           tip' \in [Txs -> Entries],
           \A s \in Txs : /\ tip'[s].in \/ tip'[s] = Absent
                          /\ FlagsMean(tip'[s], db[s])
                          /\ TipCoins(s)' = TipCoins(s),
           view' = [view EXCEPT ![t] = e],
           e.in \/ e = Absent, FlagsMean(e, TipCoins(t)),
           (IF e.in THEN e.coins ELSE TipCoins(t)) = c
    PROVE  /\ IInv' /\ utxoMap' = utxoMap /\ TipBlock' = TipBlock
           /\ workMap' = [workMap EXCEPT ![t] = c]
<1>1. view'[t] = e /\ \A s \in Txs : s # t => view'[s] = view[s]
  BY DEF IInv, TypeOK
<1>2. view' \in [Txs -> Entries]
  BY DEF IInv, TypeOK
<1>3. TypeOK'
  BY <1>1, <1>2 DEF IInv, TypeOK
<1>4. FlagsSound'
  <2> SUFFICES ASSUME NEW s \in Txs
               PROVE  FlagsMean(tip'[s], db'[s]) /\ FlagsMean(view'[s], TipCoins(s)')
    BY DEF FlagsSound
  <2> QED  BY <1>1 DEF IInv, FlagsSound
<1>5. \A s \in Txs : ViewCoins(s)' = IF s = t THEN c ELSE ViewCoins(s)
  BY SMTT(60), <1>1 DEF ViewCoins
<1>6. utxoMap' = utxoMap /\ TipBlock' = TipBlock
  BY DEF utxoMap, TipBlock
<1>7. workMap' = [workMap EXCEPT ![t] = c]
  BY <1>5 DEF workMap
<1> QED  BY <1>3, <1>4, <1>6, <1>7 DEF IInv, NoLogicError

-----------------------------------------------------------------------------
(* The steps                                                               *)

\* Each step keeps the invariant and is a step of the ledger or changes
\* nothing in it.
StepOK == IInv' /\ [Ledger!Next]_(Ledger!vars)

\* A step that leaves the database, the answers of both views and open alone.
LEMMA Invisible ==
    ASSUME db' = db, dbBest' = dbBest, open' = open, TipBlock' = TipBlock,
           utxoMap' = utxoMap, workMap' = workMap
    PROVE  UNCHANGED Ledger!vars
  BY DEF Ledger!vars, utxoMap, workMap

LEMMA AccessTipStep ==
    ASSUME IInv, NEW t \in Txs, AccessTip(t) PROVE StepOK
<1>1. /\ db' = db /\ tip' = TipAfterGet(t) /\ UNCHANGED <<dbBest, tipBest, open, logicError>>
      /\ view' = view /\ ~open
  BY DEF AccessTip
<1>2. /\ tip' \in [Txs -> Entries]
      /\ \A s \in Txs : /\ tip'[s].in \/ tip'[s] = Absent
                        /\ FlagsMean(tip'[s], db[s])
                        /\ TipCoins(s)' = TipCoins(s)
  BY <1>1, TipGet
<1>3. IInv'
  BY <1>1, <1>2 DEF IInv, TypeOK, FlagsSound, NoLogicError
<1>4. utxoMap' = utxoMap /\ workMap' = workMap /\ TipBlock' = TipBlock
  BY <1>1, <1>2 DEF utxoMap, workMap, ViewCoins, TipBlock
<1> QED  BY <1>1, <1>3, <1>4, Invisible DEF StepOK

LEMMA AskBestBlockStep ==
    ASSUME IInv, AskBestBlock PROVE StepOK
<1>1. /\ UNCHANGED <<db, dbBest, tip, view, open, logicError>>
      /\ tipBest' = TipBlock
  BY DEF AskBestBlock
<1>2. IInv'
  BY <1>1 DEF IInv, TypeOK, FlagsSound, NoLogicError, TipBlock, TipCoins
<1>3. utxoMap' = utxoMap /\ workMap' = workMap /\ TipBlock' = TipBlock
  BY <1>1 DEF utxoMap, workMap, ViewCoins, TipCoins, TipBlock
<1> QED  BY <1>1, <1>2, <1>3, Invisible DEF StepOK

LEMMA AccessViewStep ==
    ASSUME IInv, NEW t \in Txs, AccessView(t) PROVE StepOK
<1> DEFINE e == FetchCoins(view[t], tip'[t].in, tip'[t].coins)
<1>1. /\ db' = db /\ tip' = TipAfterViewGet(t) /\ view' = [view EXCEPT ![t] = e]
      /\ UNCHANGED <<dbBest, tipBest, open, logicError>> /\ open
  BY DEF AccessView
<1>2. /\ tip' \in [Txs -> Entries]
      /\ \A s \in Txs : /\ tip'[s].in \/ tip'[s] = Absent
                        /\ FlagsMean(tip'[s], db[s])
                        /\ TipCoins(s)' = TipCoins(s)
      /\ view[t].in = FALSE =>
           IF tip'[t].in THEN tip'[t].coins = TipCoins(t) ELSE TipCoins(t) = Pruned
  BY <1>1, ViewGet
<1>3. /\ view[t] \in Entries /\ tip'[t] \in Entries /\ TipCoins(t) \in Coins
      /\ FlagsMean(view[t], TipCoins(t)) /\ (view[t].in \/ view[t] = Absent)
  BY <1>2 DEF IInv, TypeOK, FlagsSound, TipCoins, Entries
<1>4. /\ e \in Entries /\ (e.in \/ e = Absent) /\ FlagsMean(e, TipCoins(t))
      /\ (IF e.in THEN e.coins ELSE TipCoins(t)) = ViewCoins(t)
  BY <1>2, <1>3 DEF FetchCoins, FlagsMean, Entries, Absent, Coins, ViewCoins
<1>5. ViewCoins(t) \in Coins /\ logicError' = FALSE /\ open' = TRUE
  BY <1>1, <1>3 DEF ViewCoins, Entries, IInv, TypeOK, NoLogicError
<1> HIDE DEF e
<1>6. /\ IInv' /\ utxoMap' = utxoMap /\ TipBlock' = TipBlock
      /\ workMap' = [workMap EXCEPT ![t] = ViewCoins(t)]
  BY <1>1, <1>2, <1>4, <1>5, ViewSet
<1>7. workMap' = workMap
  BY <1>6 DEF workMap
<1> QED  BY <1>1, <1>6, <1>7, Invisible DEF StepOK

LEMMA OpenViewStep ==
    ASSUME IInv, OpenView PROVE StepOK
<1>1. /\ UNCHANGED <<db, dbBest, tip, logicError>> /\ ~open /\ open' = TRUE
      /\ tipBest' = TipBlock /\ view' = NoEntries /\ view = NoEntries
  BY DEF OpenView, IInv
<1>2. IInv'
  BY <1>1 DEF IInv, TypeOK, FlagsSound, NoLogicError, TipBlock, TipCoins
<1>3. utxoMap' = utxoMap /\ workMap' = workMap /\ TipBlock' = TipBlock
  BY <1>1 DEF utxoMap, workMap, ViewCoins, TipCoins, TipBlock
<1>4. Ledger!Begin
  BY <1>1, <1>3 DEF Ledger!Begin, utxoMap, workMap
<1> QED  BY <1>2, <1>4 DEF StepOK, Ledger!Next

LEMMA UpdateStep ==
    ASSUME NEW t \in Txs, NEW c \in Coins, open, open' = TRUE, db' = db,
           open \in BOOLEAN,
           dbBest' = dbBest, utxoMap' = utxoMap, TipBlock' = TipBlock,
           workMap' = [workMap EXCEPT ![t] = c]
    PROVE  Ledger!Next
  BY DEF Ledger!Next, Ledger!Update, utxoMap, workMap

LEMMA ModifyStep ==
    ASSUME IInv, NEW t \in Txs, NEW c \in Coins, Modify(t, c) PROVE StepOK
<1> DEFINE e == ModifierEnds(ModifyCoins(view[t], tip'[t].in, tip'[t].coins), c)
<1>1. /\ db' = db /\ tip' = TipAfterViewGet(t) /\ view' = [view EXCEPT ![t] = e]
      /\ UNCHANGED <<dbBest, tipBest, open, logicError>> /\ open
  BY DEF Modify
<1>2. /\ tip' \in [Txs -> Entries]
      /\ \A s \in Txs : /\ tip'[s].in \/ tip'[s] = Absent
                        /\ FlagsMean(tip'[s], db[s])
                        /\ TipCoins(s)' = TipCoins(s)
      /\ view[t].in = FALSE =>
           IF tip'[t].in THEN tip'[t].coins = TipCoins(t) ELSE TipCoins(t) = Pruned
  BY <1>1, ViewGet
<1>3. /\ view[t] \in Entries /\ tip'[t] \in Entries /\ TipCoins(t) \in Coins
      /\ FlagsMean(view[t], TipCoins(t)) /\ (view[t].in \/ view[t] = Absent)
  BY <1>2 DEF IInv, TypeOK, FlagsSound, TipCoins, Entries
<1>4. /\ e \in Entries /\ (e.in \/ e = Absent) /\ FlagsMean(e, TipCoins(t))
      /\ (IF e.in THEN e.coins ELSE TipCoins(t)) = c
  BY <1>2, <1>3
     DEF ModifyCoins, ModifierEnds, FlagsMean, Entries, Absent, Coins
<1>5. logicError' = FALSE /\ open' = TRUE /\ open \in BOOLEAN
  BY <1>1 DEF IInv, TypeOK, NoLogicError
<1> HIDE DEF e
<1>6. /\ IInv' /\ utxoMap' = utxoMap /\ TipBlock' = TipBlock
      /\ workMap' = [workMap EXCEPT ![t] = c]
  BY <1>1, <1>2, <1>4, <1>5, ViewSet
<1> QED  BY <1>1, <1>5, <1>6, UpdateStep DEF StepOK

LEMMA ModifyNewStep ==
    ASSUME IInv, NEW t \in Txs, NEW coinbase \in BOOLEAN, NEW c \in Coins,
           ModifyNew(t, coinbase, c)
    PROVE  StepOK
<1> DEFINE e == ModifierEnds(ModifyNewCoins(view[t], coinbase), c)
<1>1. /\ UNCHANGED <<db, dbBest, tip, tipBest, open>> /\ open
      /\ view' = [view EXCEPT ![t] = e]
      /\ coinbase \/ ViewCoins(t) = Pruned
      /\ logicError' = (logicError \/ ModifyNewThrows(view[t], coinbase))
  BY DEF ModifyNew
<1>2. /\ view[t] \in Entries /\ TipCoins(t) \in Coins
      /\ FlagsMean(view[t], TipCoins(t)) /\ (view[t].in \/ view[t] = Absent)
  BY DEF IInv, TypeOK, FlagsSound, TipCoins, Entries
<1>3. /\ e \in Entries /\ (e.in \/ e = Absent) /\ FlagsMean(e, TipCoins(t))
      /\ (IF e.in THEN e.coins ELSE TipCoins(t)) = c
      /\ ~ModifyNewThrows(view[t], coinbase)
  BY SMTT(60), <1>1, <1>2, ModifyNewOK DEF ViewCoins
<1>4. logicError' = FALSE
  BY <1>1, <1>3 DEF IInv, NoLogicError
<1>5. open' = TRUE /\ open \in BOOLEAN
  BY <1>1 DEF IInv, TypeOK
<1>6. /\ tip' \in [Txs -> Entries]
      /\ \A s \in Txs : /\ tip'[s].in \/ tip'[s] = Absent
                        /\ FlagsMean(tip'[s], db[s])
                        /\ TipCoins(s)' = TipCoins(s)
  BY <1>1 DEF IInv, TypeOK, FlagsSound, TipCoins
<1> HIDE DEF e
<1>7. /\ IInv' /\ utxoMap' = utxoMap /\ TipBlock' = TipBlock
      /\ workMap' = [workMap EXCEPT ![t] = c]
  BY <1>1, <1>3, <1>4, <1>5, <1>6, ViewSet
<1> QED  BY <1>1, <1>5, <1>7, UpdateStep DEF StepOK

LEMMA FlushViewStep ==
    ASSUME IInv, NEW b \in Blocks, FlushView(b) PROVE StepOK
<1>1. /\ UNCHANGED <<db, dbBest>> /\ open /\ open' = FALSE
      /\ tip' = [t \in Txs |-> BatchWrite(tip[t], view[t])]
      /\ tipBest' = b /\ view' = NoEntries
      /\ logicError' = (logicError
                        \/ \E t \in Txs : BatchWriteThrows(tip[t], view[t]))
  BY DEF FlushView
<1>2. ASSUME NEW t \in Txs
      PROVE  /\ tip'[t] \in Entries /\ (tip'[t].in \/ tip'[t] = Absent)
             /\ FlagsMean(tip'[t], db[t]) /\ TipCoins(t)' = ViewCoins(t)
             /\ ~BatchWriteThrows(tip[t], view[t])
  <2>1. /\ tip[t] \in Entries /\ view[t] \in Entries /\ db[t] \in Coins
        /\ tip[t].in \/ tip[t] = Absent
        /\ view[t].in \/ view[t] = Absent
        /\ FlagsMean(tip[t], db[t])
        /\ FlagsMean(view[t], IF tip[t].in THEN tip[t].coins ELSE db[t])
    BY DEF IInv, TypeOK, FlagsSound, TipCoins
  <2>2. tip'[t] = BatchWrite(tip[t], view[t])
    BY <1>1
  <2> QED  BY SMTT(60), <1>1, <2>1, <2>2, BatchWriteOK DEF TipCoins, ViewCoins
<1>3. logicError' = FALSE
  BY <1>1, <1>2 DEF IInv, NoLogicError
<1>4. TypeOK'
  BY <1>1, <1>2, <1>3 DEF IInv, TypeOK, NoEntries, Absent, Entries, Coins
<1>5. FlagsSound'
  BY <1>1, <1>2 DEF FlagsSound, NoEntries, Absent, FlagsMean
<1>6. IInv'
  BY <1>1, <1>3, <1>4, <1>5 DEF IInv, NoLogicError
<1>7. utxoMap' = workMap /\ workMap' = workMap
  BY <1>1, <1>2 DEF utxoMap, workMap, ViewCoins, NoEntries, Absent
<1>8. TipBlock' = b
  BY <1>1, BlocksAssumption DEF TipBlock
<1>9. Ledger!Commit
  BY <1>1, <1>7, <1>8 DEF Ledger!Commit, utxoMap, workMap
<1> QED  BY <1>6, <1>9 DEF StepOK, Ledger!Next

LEMMA DropViewStep ==
    ASSUME IInv, DropView PROVE StepOK
<1>1. /\ UNCHANGED <<db, dbBest, tip, tipBest, logicError>>
      /\ open /\ open' = FALSE /\ view' = NoEntries
  BY DEF DropView
<1>2. IInv'
  BY <1>1 DEF IInv, TypeOK, FlagsSound, FlagsMean, NoLogicError, NoEntries,
              Absent, Entries, Coins, TipCoins
<1>3. utxoMap' = utxoMap /\ workMap' = utxoMap /\ TipBlock' = TipBlock
  BY <1>1 DEF utxoMap, workMap, ViewCoins, TipCoins, TipBlock, NoEntries, Absent
<1>4. Ledger!Abandon
  BY <1>1, <1>3 DEF Ledger!Abandon, utxoMap, workMap
<1> QED  BY <1>2, <1>4 DEF StepOK, Ledger!Next

LEMMA FlushTipStep ==
    ASSUME IInv, FlushTip PROVE StepOK
<1>1. /\ db' = [t \in Txs |-> BatchWriteDB(db[t], tip[t])]
      /\ dbBest' = TipBlock /\ tip' = NoEntries /\ ~open
      /\ UNCHANGED <<tipBest, view, open, logicError>>
      /\ view = NoEntries
  BY DEF FlushTip, IInv
<1>2. ASSUME NEW t \in Txs
      PROVE  db'[t] \in Coins /\ db'[t] = TipCoins(t) /\ TipCoins(t)' = TipCoins(t)
  <2>1. db'[t] = BatchWriteDB(db[t], tip[t]) /\ tip'[t] = Absent
    BY <1>1 DEF NoEntries
  <2>2. /\ tip[t] \in Entries /\ db[t] \in Coins /\ FlagsMean(tip[t], db[t])
        /\ tip[t].in \/ tip[t] = Absent
    BY DEF IInv, TypeOK, FlagsSound
  <2> QED  BY SMTT(60), <2>1, <2>2 DEF BatchWriteDB, FlagsMean, TipCoins, Entries, Absent
<1>3. TypeOK'
  BY <1>1, <1>2 DEF IInv, TypeOK, NoEntries, Absent, Entries, Coins, TipBlock
<1>4. FlagsSound'
  BY <1>1 DEF FlagsSound, FlagsMean, NoEntries, Absent
<1>5. IInv'
  BY <1>1, <1>3, <1>4 DEF IInv, NoLogicError
<1>6. db' = utxoMap /\ utxoMap' = utxoMap
  BY <1>1, <1>2 DEF utxoMap
<1>7. workMap' = workMap
  BY <1>1, <1>2 DEF workMap, ViewCoins, NoEntries, Absent
<1>8. TipBlock' = TipBlock
  BY <1>1 DEF TipBlock
<1>9. Ledger!Persist
  BY <1>1, <1>6, <1>7, <1>8 DEF Ledger!Persist, utxoMap, workMap
<1> QED  BY <1>5, <1>9 DEF StepOK, Ledger!Next

LEMMA UncacheStep ==
    ASSUME IInv, NEW t \in Txs, Uncache(t) PROVE StepOK
<1> DEFINE e == UncacheEntry(tip[t])
<1>1. /\ UNCHANGED <<db, dbBest, tipBest, view, open, logicError>> /\ ~open
      /\ tip' = [tip EXCEPT ![t] = e]
  BY DEF Uncache
<1>2. /\ tip[t] \in Entries /\ db[t] \in Coins /\ FlagsMean(tip[t], db[t])
      /\ tip[t].in \/ tip[t] = Absent
  BY DEF IInv, TypeOK, FlagsSound
<1>3. /\ e \in Entries /\ (e.in \/ e = Absent) /\ FlagsMean(e, db[t])
      /\ (IF e.in THEN e.coins ELSE db[t]) = TipCoins(t)
  BY <1>2 DEF UncacheEntry, FlagsMean, Entries, Absent, Coins, TipCoins
<1>4. tip'[t] = e /\ \A s \in Txs : s # t => tip'[s] = tip[s]
  BY <1>1 DEF IInv, TypeOK
<1> HIDE DEF e
<1>5. tip' \in [Txs -> Entries]
  BY <1>1, <1>3 DEF IInv, TypeOK
<1>6. \A s \in Txs : TipCoins(s)' = TipCoins(s)
  BY SMTT(60), <1>1, <1>3, <1>4 DEF TipCoins
<1>7. TypeOK'
  BY <1>1, <1>3, <1>4, <1>5 DEF IInv, TypeOK
<1>8. FlagsSound'
  BY <1>1, <1>3, <1>4, <1>6 DEF IInv, FlagsSound
<1>9. IInv'
  BY <1>1, <1>7, <1>8 DEF IInv, NoLogicError
<1>10. utxoMap' = utxoMap /\ workMap' = workMap /\ TipBlock' = TipBlock
  BY <1>1, <1>6 DEF utxoMap, workMap, ViewCoins, TipBlock
<1> QED  BY <1>1, <1>9, <1>10, Invisible DEF StepOK

LEMMA CrashStep ==
    ASSUME IInv, Crash PROVE StepOK
<1>1. /\ UNCHANGED <<db, dbBest, logicError>> /\ open' = FALSE
      /\ tip' = NoEntries /\ tipBest' = NullHash /\ view' = NoEntries
  BY DEF Crash
<1>2. IInv'
  BY <1>1 DEF IInv, TypeOK, FlagsSound, FlagsMean, NoLogicError, NoEntries,
              Absent, Entries, Coins
<1>3. TipBlock' = dbBest
  BY <1>1 DEF TipBlock
<1>4. utxoMap' = db /\ workMap' = db
  BY <1>1 DEF utxoMap, workMap, ViewCoins, TipCoins, NoEntries, Absent, IInv, TypeOK
<1>5. Ledger!Crash
  BY <1>1, <1>3, <1>4 DEF Ledger!Crash, utxoMap, workMap
<1> QED  BY <1>2, <1>5 DEF StepOK, Ledger!Next

-----------------------------------------------------------------------------
(* The theorems                                                            *)

LEMMA InitOK == Init => IInv /\ Ledger!Init
<1> SUFFICES ASSUME Init PROVE IInv /\ Ledger!Init
  OBVIOUS
<1>1. IInv
  BY BlocksAssumption
     DEF Init, IInv, TypeOK, FlagsSound, FlagsMean, NoLogicError, NoEntries,
         Absent, Entries, Coins
<1>2. TipBlock = Genesis /\ utxoMap = db /\ workMap = db
  BY DEF Init, TipBlock, utxoMap, workMap, ViewCoins, TipCoins, NoEntries, Absent
<1>3. Ledger!Init
  BY <1>2 DEF Init, Ledger!Init, Ledger!Empty, utxoMap, workMap
<1> QED  BY <1>1, <1>3

LEMMA NextOK == IInv /\ [Next]_vars => StepOK
<1> SUFFICES ASSUME IInv, [Next]_vars PROVE StepOK
  OBVIOUS
<1>1. CASE Read
  BY <1>1, AccessTipStep, AccessViewStep, AskBestBlockStep DEF Read
<1>2. CASE OpenView
  BY <1>2, OpenViewStep
<1>3. CASE Change
  BY <1>3, ModifyStep, ModifyNewStep DEF Change
<1>4. CASE \E b \in Blocks : FlushView(b)
  BY <1>4, FlushViewStep
<1>5. CASE DropView
  BY <1>5, DropViewStep
<1>6. CASE FlushTip
  BY <1>6, FlushTipStep
<1>7. CASE \E t \in Txs : Uncache(t)
  BY <1>7, UncacheStep
<1>8. CASE Crash
  BY <1>8, CrashStep
<1>9. CASE UNCHANGED vars
  <2>1. IInv'
    BY <1>9 DEF vars, IInv, TypeOK, FlagsSound, NoLogicError, TipCoins
  <2>2. utxoMap' = utxoMap /\ workMap' = workMap /\ TipBlock' = TipBlock
    BY <1>9 DEF vars, utxoMap, workMap, ViewCoins, TipCoins, TipBlock
  <2> QED  BY <1>9, <2>1, <2>2, Invisible DEF vars, StepOK
<1> QED
  BY <1>1, <1>2, <1>3, <1>4, <1>5, <1>6, <1>7, <1>8, <1>9 DEF Next

\* The invariant holds in every state: induction from the two lemmas.
THEOREM Invariance == Spec => []IInv
<1>1. Init => IInv
  BY InitOK
<1>2. IInv /\ [Next]_vars => IInv'
  BY NextOK DEF StepOK
<1> QED  BY <1>1, <1>2, PTL DEF Spec

\* In every state the entries have their types, and DIRTY and FRESH mean what
\* coins.h says, in pcoinsTip and in the view of a block.
THEOREM FlagsAlwaysSound == Spec => [](TypeOK /\ FlagsSound)
<1>1. IInv => TypeOK /\ FlagsSound
  BY DEF IInv
<1> QED  BY <1>1, Invariance, PTL

\* Neither ModifyNewCoins nor BatchWrite ever throws its logic_error, as long
\* as the BIP 30 check of ConnectBlock holds.
THEOREM NeverThrows == Spec => []NoLogicError
<1>1. IInv => NoLogicError
  BY DEF IInv
<1> QED  BY <1>1, Invariance, PTL

\* The stack of caches implements the ledger, whatever is fetched, modified,
\* flushed, uncached or lost in a crash.
THEOREM ImplementsLedger == Spec => LedgerSpec
<1>1. Init => Ledger!Init
  BY InitOK
<1>2. IInv /\ [Next]_vars => [Ledger!Next]_(Ledger!vars)
  BY NextOK DEF StepOK
<1> QED  BY <1>1, <1>2, Invariance, PTL DEF Spec, LedgerSpec, Ledger!Spec
=============================================================================
