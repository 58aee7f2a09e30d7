----------------------------- MODULE BlockUndo -----------------------------
(***************************************************************************)
(* The undo data of blocks (undo.h; UpdateCoins, ApplyTxInUndo and         *)
(* DisconnectBlock of validation.cpp; CCoins of coins.h).  Connecting a    *)
(* block spends and creates coins and, the first time, writes undo data;   *)
(* disconnecting it reads the undo data back.  Undo data names the height  *)
(* of the spent coins only with the last output of a transaction.          *)
(*                                                                         *)
(* A CCoins is a record: vout maps the indices of the unspent outputs to   *)
(* the outputs; trailing spent outputs being dropped, vout.size() is 0 iff *)
(* no output is left.                                                      *)
(***************************************************************************)
EXTENDS Integers, Sequences, FiniteSets, Functions, SequencesExt

CONSTANTS Coinbases,    \* transactions without inputs
          Payments,     \* the other transactions
          vin,          \* inputs: a sequence of [hash, n] for each payment
          nOut,         \* number of outputs of each transaction
          Unspendable,  \* outputs [hash, n] with an unspendable script
          MaxStored,    \* bound: blocks with undo data on disk
          MaxPayments   \* payments in a block

Txs == Coinbases \cup Payments

\* The blocks explored: a coinbase followed by distinct payments.
Blocks == {<<c>> \o p : c \in Coinbases,
                        p \in {q \in SeqOf(Payments, MaxPayments) :
                                 IsInjective(q)}}

VARIABLES coins,     \* the view: a CCoins for every transaction
          chain,     \* the active chain, a sequence of blocks
          undoFile,  \* undo data on disk, for the chains connected so far
          fClean     \* the verdict of the last DisconnectBlock

vars == <<coins, chain, undoFile, fClean>>

-----------------------------------------------------------------------------
(* CCoins                                                                  *)

Clear == [fCoinBase |-> FALSE, vout |-> <<>>, nHeight |-> 0]
IsPruned(c) == DOMAIN c.vout = {}
IsAvailable(c, n) == n \in DOMAIN c.vout

\* operator==: empty CCoins objects are always equal.
Same(c, d) == c = d \/ (IsPruned(c) /\ IsPruned(d))

SpendableOutputs(t) ==
    {n \in 0 .. nOut[t] - 1 : [hash |-> t, n |-> n] \notin Unspendable}

FromTx(t, height) ==
    [fCoinBase |-> t \in Coinbases, nHeight |-> height,
     vout |-> [n \in SpendableOutputs(t) |-> [hash |-> t, n |-> n]]]

-----------------------------------------------------------------------------
(* Connecting                                                              *)

\* UpdateCoins for one input: mark the outpoint spent and add undo data.
SpendInput(st, in) ==
    LET c == st.coins[in.hash]
        rest == [c EXCEPT !.vout = Restrict(@, DOMAIN @ \ {in.n})]
        undo == [txout |-> c.vout[in.n],
                 nHeight |-> IF IsPruned(rest) THEN c.nHeight ELSE 0,
                 fCoinBase |-> IsPruned(rest) /\ c.fCoinBase]
    IN  [coins |-> [st.coins EXCEPT ![in.hash] = rest],
         vprevout |-> Append(st.vprevout, undo)]

Inputs(t) == IF t \in Coinbases THEN <<>> ELSE vin[t]

\* UpdateCoins
UpdateCoins(view, t, height) ==
    LET spent == FoldLeft(SpendInput, [coins |-> view, vprevout |-> <<>>],
                          Inputs(t))
    IN  [coins |-> [spent.coins EXCEPT ![t] = FromTx(t, height)],
         vprevout |-> spent.vprevout]

\* ConnectBlock's loop over the transactions.  ok: HaveInputs held for each.
ConnectTx(st, t) ==
    LET HaveInputs == \A i \in DOMAIN Inputs(t) :
                         IsAvailable(st.coins[Inputs(t)[i].hash], Inputs(t)[i].n)
        upd == UpdateCoins(st.coins, t, st.height)
    IN  IF ~st.ok \/ ~HaveInputs THEN [st EXCEPT !.ok = FALSE]
        ELSE [st EXCEPT !.coins = upd.coins,
                        !.vtxundo = Append(@, upd.vprevout)]

ConnectTxs(view, block, height) ==
    FoldLeft(ConnectTx,
             [coins |-> view, vtxundo |-> <<>>, height |-> height, ok |-> TRUE],
             block)

\* BIP 30: no transaction of the block overwrites one with unspent outputs.
NoOverwrite(block) == \A i \in DOMAIN block : IsPruned(coins[block[i]])

\* Undo data is written only if the block has none yet.
WriteUndo(block, undo) ==
    [c \in DOMAIN undoFile \cup {block} |->
        IF c \in DOMAIN undoFile THEN undoFile[c] ELSE undo]

\* The block is connected on top of the chain; the chain names its tip.
Connect(block) ==
    /\ NoOverwrite(block)
    /\ LET done == ConnectTxs(coins, block, Len(chain) + 1)
           name == Append(chain, block)
       IN  /\ done.ok
           /\ Cardinality(DOMAIN undoFile \cup {name}) <= MaxStored
           /\ coins' = done.coins
           /\ chain' = name
           /\ undoFile' = WriteUndo(name, done.vtxundo)
    /\ UNCHANGED fClean

-----------------------------------------------------------------------------
(* Disconnecting                                                           *)

\* ApplyTxInUndo
ApplyTxInUndo(st, in, undo) ==
    LET c == st.coins[in.hash]
        meta == IF undo.nHeight # 0
                THEN [Clear EXCEPT !.fCoinBase = undo.fCoinBase,
                                   !.nHeight = undo.nHeight]
                ELSE c
        clean == /\ IsPruned(c) <=> undo.nHeight # 0
                 /\ ~IsAvailable(meta, in.n)
        vout == [n \in DOMAIN meta.vout \cup {in.n} |->
                    IF n = in.n THEN undo.txout ELSE meta.vout[n]]
    IN  [coins |-> [st.coins EXCEPT ![in.hash] = [meta EXCEPT !.vout = vout]],
         clean |-> st.clean /\ clean]

\* The order in which the inputs of a transaction are restored.
InOrder(n) == [i \in 1 .. n |-> i]
LastFirst(n) == Reverse([i \in 1 .. n |-> i])

\* One transaction of DisconnectBlock: remove its outputs, restore its inputs.
DisconnectTx(st, t, vprevout) ==
    LET removed ==
            [coins |-> [st.coins EXCEPT ![t] = Clear],
             clean |-> st.clean /\ Same(st.coins[t], FromTx(t, st.height))]
        restore(s, j) == ApplyTxInUndo(s, Inputs(t)[j], vprevout[j])
        restored == FoldLeft(restore, removed, LastFirst(Len(Inputs(t))))
    IN  [coins |-> restored.coins, clean |-> restored.clean,
         height |-> st.height]

DisconnectBlock(block, vtxundo, height) ==
    LET undoTx(st, i) == DisconnectTx(st, block[i], vtxundo[i])
    IN  FoldLeft(undoTx, [coins |-> coins, clean |-> TRUE, height |-> height],
                 LastFirst(Len(block)))

Disconnect ==
    /\ chain # <<>>
    /\ LET done == DisconnectBlock(Last(chain), undoFile[chain], Len(chain))
       IN  coins' = done.coins /\ fClean' = done.clean
    /\ chain' = Front(chain)
    /\ UNCHANGED undoFile

-----------------------------------------------------------------------------
Init ==
    /\ coins = [t \in Txs |-> Clear]
    /\ chain = <<>>
    /\ undoFile = <<>>
    /\ fClean = TRUE

Next == (\E block \in Blocks : Connect(block)) \/ Disconnect

Spec == Init /\ [][Next]_vars

-----------------------------------------------------------------------------
(* Properties                                                              *)

CoinsTypeOK(c) ==
    /\ c.fCoinBase \in BOOLEAN /\ c.nHeight \in 0 .. MaxStored
    /\ DOMAIN c.vout \subseteq Nat

TypeOK ==
    /\ DOMAIN coins = Txs /\ \A t \in Txs : CoinsTypeOK(coins[t])
    /\ chain \in Seq(Blocks)
    /\ \A i \in 1 .. Len(chain) : SubSeq(chain, 1, i) \in DOMAIN undoFile
    /\ fClean \in BOOLEAN

\* The coins that the blocks of a chain make.
Replayed(c) ==
    LET connect(st, i) == ConnectTxs(st.coins, c[i], i)
    IN  FoldLeft(connect, [coins |-> [t \in Txs |-> Clear]],
                 [i \in 1 .. Len(c) |-> i]).coins

\* The coins are always those the blocks of the chain make, whatever has been
\* connected and disconnected in between; heights and the coinbase flag, which
\* undo data does not always carry, included.  Disconnecting a block that is
\* intact on disk never reports a database that does not match (fClean), also
\* when its undo data is of an earlier time that it was connected.
CoinsMatchChain ==
    /\ TypeOK /\ fClean
    /\ LET replayed == Replayed(chain)
       IN  \A t \in Txs : Same(coins[t], replayed[t])
=============================================================================
