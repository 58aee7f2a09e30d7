------------------------------ MODULE MemPool ------------------------------
(***************************************************************************)
(* CTxMemPool (txmempool.cpp) and what validation.cpp and init.cpp do with *)
(* it: transactions are accepted, replaced, confirmed, brought back when a *)
(* block is disconnected, limited, and dumped and loaded at a restart.     *)
(*                                                                         *)
(* Whoever changes the pool holds cs_main, so one call is one step, but    *)
(* for two: DisconnectTip, which brings transactions back one by one and   *)
(* repairs the links between entries only then, and LoadMempoolFromDump,   *)
(* which calls PrioritiseTransaction without cs_main, in between.          *)
(*                                                                         *)
(* An entry's sizes and sigops are kept by the same updates as its counts, *)
(* and are left out.  A transaction is refused for other reasons than its  *)
(* inputs, conflicts and relatives (scripts, fees, finality), or is not:   *)
(* both may happen.                                                        *)
(***************************************************************************)
EXTENDS Integers, Sequences, FiniteSets, SequencesExt, FiniteSetsExt

CONSTANTS
    Txs, Inputs,         \* transactions and the outpoints <<hash, n>> they spend
    Fee,
    Coinbases,           \* coinbases with an output that some transaction spends
    Base,                \* an old transaction whose outputs are unspent at first
    Replaceable,         \* transactions that signal replacement
    nCoinbaseMaturity,
    nLimitAncestors, nLimitDescendants,
    MaxHeight, BlockSize,   \* bounds: blocks on top of Base's, and their size
    MaxCalls,               \* bound: prioritisetransaction, and restarts after failures or not
    nFeeDelta,              \* what prioritisetransaction adds
    None

Outpoints == UNION {Inputs[t] : t \in Txs}
ASSUME InputsAssumption ==
    \A o \in Outpoints : o[1] \in Txs \cup Coinbases \cup {Base}

VARIABLES
    mapTx,               \* entries, with their mapLinks
    mapNextTx,           \* who spends an outpoint
    mapDeltas,           \* fee deltas
    chain,               \* the blocks of the active chain, from Base's on
    pc,                  \* "idle", or cs_main is held: "resurrect" in DisconnectTip,
                         \* "disconnected" and "connected" after it and ConnectTip,
                         \* "failed" when it could not write the chain state
    vtx, vHashUpdate,    \* DisconnectTip's transactions to come, and those it got back
    file, disk,          \* mempool.dat as LoadMempoolFromDump has yet to read it, and all of it
    calls

vars == <<mapTx, mapNextTx, mapDeltas, chain, pc, vtx, vHashUpdate, file, disk, calls>>
chainVars == <<chain, pc, vtx, vHashUpdate>>
loadVars == <<file, disk, calls>>

Entry == [parents : SUBSET Txs, children : SUBSET Txs,
          nCountWithAncestors : Nat \ {0}, nCountWithDescendants : Nat \ {0},
          nModFeesWithAncestors : Int, nModFeesWithDescendants : Int, feeDelta : Int]

Init ==
    /\ mapTx = <<>> /\ mapNextTx = [o \in Outpoints |-> None]
    /\ mapDeltas = [t \in Txs |-> 0]
    /\ chain = <<>> /\ pc = "idle" /\ vtx = <<>> /\ vHashUpdate = <<>>
    /\ file = <<>> /\ disk = <<>> /\ calls = 0

----------------------------------------------------------------------------
(* Entries and links.  m is a mapTx. *)

RECURSIVE Closed(_, _)
Closed(next, S) ==
    LET T == S \cup UNION {next[t] : t \in S} IN IF T = S THEN S ELSE Closed(next, T)

\* CalculateMemPoolAncestors of entries with the given parents, without limits.
Ancestors(m, parents) == Closed([t \in DOMAIN m |-> m[t].parents], parents)
CalculateDescendants(m, S) == Closed([t \in DOMAIN m |-> m[t].children], S)

ModifiedFee(m, t) == Fee[t] + m[t].feeDelta
ModifiedFees(m, S) == MapThenSumSet(LAMBDA t : ModifiedFee(m, t), S)

Spent(t) == {o[1] : o \in Inputs[t]}
SpendersOf(next, h) == {next[o] : o \in {p \in Outpoints : p[1] = h}} \ {None}

\* addUnchecked: t has no children, and its ancestors are the given ones.
NewEntry(st, t, above) ==
    LET delta == st.mapDeltas[t]
    IN  [parents |-> Spent(t) \cap DOMAIN st.mapTx, children |-> {},
         nCountWithAncestors |-> 1 + Cardinality(above), nCountWithDescendants |-> 1,
         nModFeesWithAncestors |-> Fee[t] + delta + ModifiedFees(st.mapTx, above),
         nModFeesWithDescendants |-> Fee[t] + delta, feeDelta |-> delta]

UpdateAncestorsOf(st, t, above, u) ==
    [st.mapTx[u] EXCEPT
        !.children = IF u \in Spent(t) THEN @ \cup {t} ELSE @,
        !.nCountWithDescendants = IF u \in above THEN @ + 1 ELSE @,
        !.nModFeesWithDescendants = IF u \in above THEN @ + Fee[t] + st.mapDeltas[t] ELSE @]

addUnchecked(st, t, above) ==
    [st EXCEPT
        !.mapTx = [u \in DOMAIN @ \cup {t} |->
                      IF u = t THEN NewEntry(st, t, above) ELSE UpdateAncestorsOf(st, t, above, u)],
        !.mapNextTx = [o \in Outpoints |-> IF o \in Inputs[t] /\ @[o] = None THEN t ELSE @[o]]]

----------------------------------------------------------------------------
(* Removal *)

\* UpdateForRemoveFromMempool, as an entry u that stays sees it: the removed
\* entries it descends from, when asked for, and those that descend from it,
\* both by the links.
RemovedAbove(m, stage, u, updateDescendants) ==
    IF updateDescendants THEN {r \in stage : u \in CalculateDescendants(m, {r})} ELSE {}
RemovedBelow(m, stage, u) == {r \in stage : u \in Ancestors(m, m[r].parents)}

UpdatedForRemove(m, stage, u, updateDescendants) ==
    LET above == RemovedAbove(m, stage, u, updateDescendants)
        below == RemovedBelow(m, stage, u)
    IN  [m[u] EXCEPT
            !.nCountWithAncestors = @ - Cardinality(above),
            !.nModFeesWithAncestors = @ - ModifiedFees(m, above),
            !.nCountWithDescendants = @ - Cardinality(below),
            !.nModFeesWithDescendants = @ - ModifiedFees(m, below),
            !.parents = @ \ stage, !.children = @ \ stage]

\* st is a pool: its mapTx, mapNextTx and mapDeltas.
RemoveStaged(st, stage, updateDescendants) ==
    [st EXCEPT
        !.mapTx = [u \in DOMAIN @ \ stage |-> UpdatedForRemove(@, stage, u, updateDescendants)],
        !.mapNextTx = [o \in Outpoints |-> IF \E t \in stage : o \in Inputs[t] THEN None ELSE @[o]]]

WithoutDescendants(st, S) == RemoveStaged(st, CalculateDescendants(st.mapTx, S), FALSE)

\* The spenders of a transaction that is not in the pool go with their descendants.
InPoolOrSpenders(st, t) ==
    IF t \in DOMAIN st.mapTx THEN {t} ELSE SpendersOf(st.mapNextTx, t)
removeRecursive(st, t) == WithoutDescendants(st, InPoolOrSpenders(st, t))

ClearPrioritisation(st, t) ==
    IF t \in Txs THEN [st EXCEPT !.mapDeltas[t] = 0] ELSE st

\* removeConflicts, for one input of t.
RemoveConflict(t, st, o) ==
    LET c == st.mapNextTx[o]
    IN  IF c \in {None, t} THEN st ELSE removeRecursive(ClearPrioritisation(st, c), c)
removeConflicts(st, t) ==
    FoldLeft(LAMBDA s, o : RemoveConflict(t, s, o), st, SetToSeq(Inputs[t]))

\* removeForBlock, one transaction: its descendants stay.
Confirm(st, t) ==
    LET out == IF t \in DOMAIN st.mapTx THEN RemoveStaged(st, {t}, TRUE) ELSE st
    IN  ClearPrioritisation(removeConflicts(out, t), t)
removeForBlock(st, txs) == FoldLeft(Confirm, st, txs)

thePool == [mapTx |-> mapTx, mapNextTx |-> mapNextTx, mapDeltas |-> mapDeltas]
PoolBecomes(st) == mapTx' = st.mapTx /\ mapNextTx' = st.mapNextTx /\ mapDeltas' = st.mapDeltas

----------------------------------------------------------------------------
(* The chain, and pcoinsTip as it follows from it. *)

Confirmed == UNION {ToSet(chain[i].vtx) : i \in DOMAIN chain}
HeightOf(cb) == Max({0} \cup {i \in DOMAIN chain : chain[i].cb = cb})
Created(h) == h \in {Base} \cup Confirmed \/ (h \in Coinbases /\ HeightOf(h) > 0)
Unspent(o) == Created(o[1]) /\ \A t \in Confirmed : o \notin Inputs[t]
Matured(o) == o[1] \in Coinbases => Len(chain) + 1 - HeightOf(o[1]) >= nCoinbaseMaturity

\* ConnectBlock accepts a block with these transactions.
Connects(txs) ==
    /\ IsInjective(txs) /\ ToSet(txs) \cap Confirmed = {}
    /\ \A i \in DOMAIN txs : \A o \in Inputs[txs[i]] :
          /\ Unspent(o) \/ \E j \in 1 .. i - 1 : o[1] = txs[j]
          /\ Matured(o)
          /\ \A j \in 1 .. i - 1 : o \notin Inputs[txs[j]]

----------------------------------------------------------------------------
(* AcceptToMemoryPool *)

PoolParents(t) == Spent(t) \cap DOMAIN mapTx
InputsThere(t) ==
    \A o \in Inputs[t] : o[1] \in DOMAIN mapTx \/ (Unspent(o) /\ Matured(o))

WithinLimits(above) ==
    /\ Cardinality(above) + 1 <= nLimitAncestors
    /\ \A u \in above : mapTx[u].nCountWithDescendants + 1 <= nLimitDescendants

\* A replacement spends none of the conflicts, and nothing unconfirmed that
\* they do not spend too.
MayReplace(t, conflicts, above) ==
    /\ conflicts \subseteq Replaceable /\ conflicts \cap above = {}
    /\ conflicts # {} => PoolParents(t) \subseteq UNION {Spent(c) : c \in conflicts}

setConflicts(t) == {mapNextTx[o] : o \in Inputs[t]} \ {None}
setAncestors(t) == Ancestors(mapTx, PoolParents(t))

Acceptable(t) ==
    /\ t \notin DOMAIN mapTx \cup Confirmed /\ InputsThere(t)
    /\ WithinLimits(setAncestors(t))
    /\ MayReplace(t, setConflicts(t), setAncestors(t))

Accepted(t) ==
    addUnchecked(WithoutDescendants(thePool, setConflicts(t)), t, setAncestors(t))

\* From a peer, the wallet or sendrawtransaction.
AcceptToMemoryPool(t) ==
    /\ pc = "idle" /\ Acceptable(t)
    /\ PoolBecomes(Accepted(t))
    /\ UNCHANGED <<chainVars, loadVars>>

\* WalletModel::abandonTransaction, and AddToWallet of an abandoned transaction.
Abandon(t) ==
    /\ pc = "idle" /\ t \in DOMAIN mapTx
    /\ PoolBecomes(removeRecursive(thePool, t))
    /\ UNCHANGED <<chainVars, loadVars>>

----------------------------------------------------------------------------
(* PrioritiseTransaction *)

UpdateFeeDelta(st, t, n, u) ==
    [st.mapTx[u] EXCEPT
        !.feeDelta = IF u = t THEN st.mapDeltas[t] + n ELSE @,
        !.nModFeesWithDescendants =
            IF u \in Ancestors(st.mapTx, {t}) THEN @ + n ELSE @,
        !.nModFeesWithAncestors =
            IF u \in CalculateDescendants(st.mapTx, {t}) THEN @ + n ELSE @]

PrioritiseTransaction(st, t, n) ==
    [st EXCEPT
        !.mapDeltas[t] = @ + n,
        !.mapTx = IF t \in DOMAIN @ THEN [u \in DOMAIN @ |-> UpdateFeeDelta(st, t, n, u)] ELSE @]

\* The RPC, with cs_main.
prioritisetransaction(t) ==
    /\ pc = "idle" /\ calls < MaxCalls /\ calls' = calls + 1
    /\ PoolBecomes(PrioritiseTransaction(thePool, t, nFeeDelta))
    /\ UNCHANGED <<chainVars, file, disk>>

----------------------------------------------------------------------------
(* Connecting and disconnecting blocks *)

ConnectTip(cb, txs) ==
    /\ pc \in {"idle", "disconnected", "connected"}
    /\ Len(chain) < MaxHeight /\ Connects(txs)
    /\ cb # None => HeightOf(cb) = 0
    /\ PoolBecomes(removeForBlock(thePool, txs))
    /\ chain' = Append(chain, [cb |-> cb, vtx |-> txs])
    /\ pc' = IF pc = "idle" THEN "idle" ELSE "connected"
    /\ UNCHANGED <<vtx, vHashUpdate, loadVars>>

\* DisconnectTip, up to its loop over the block's transactions; or it stops
\* there, when the chain state cannot be written.
DisconnectTip ==
    /\ pc \in {"idle", "disconnected"} /\ chain # <<>>
    /\ chain' = Front(chain)
    /\ \/ /\ pc' = "resurrect"
          /\ vtx' = SelectSeq(<<Last(chain).cb>>, LAMBDA cb : cb # None) \o Last(chain).vtx
       \/ calls < MaxCalls /\ pc' = "failed" /\ vtx' = vtx
    /\ UNCHANGED <<mapTx, mapNextTx, mapDeltas, vHashUpdate, loadVars>>

\* What becomes of a transaction of the block that is not accepted.
LeftAlone(st, t) == st
Unaccepted(st, t) == removeRecursive(st, t)

Resurrect ==
    /\ pc = "resurrect" /\ vtx # <<>> /\ vtx' = Tail(vtx)
    /\ \/ /\ Head(vtx) \in Txs /\ Acceptable(Head(vtx))
          /\ PoolBecomes(Accepted(Head(vtx)))
          /\ vHashUpdate' = Append(vHashUpdate, Head(vtx))
       \/ PoolBecomes(Unaccepted(thePool, Head(vtx))) /\ UNCHANGED vHashUpdate
    /\ UNCHANGED <<chain, pc, loadVars>>

\* UpdateTransactionsFromBlock, one transaction: its children outside the block
\* are linked, and the descendants outside the block accounted for.
NothingIncluded(hashes) == {}
setAlreadyIncluded(hashes) == ToSet(hashes)

LinkedDownOnly(m, t, children) ==
    [m EXCEPT ![t].children = @ \cup children]
Linked(m, t, children) ==
    [u \in DOMAIN m |->
        [m[u] EXCEPT !.children = IF u = t THEN @ \cup children ELSE @,
                     !.parents = IF u \in children THEN @ \cup {t} ELSE @]]

UpdateForDescendants(m, t, below) ==
    [u \in DOMAIN m |->
        [m[u] EXCEPT
            !.nCountWithAncestors = IF u \in below THEN @ + 1 ELSE @,
            !.nModFeesWithAncestors = IF u \in below THEN @ + ModifiedFee(m, t) ELSE @,
            !.nCountWithDescendants = IF u = t THEN @ + Cardinality(below) ELSE @,
            !.nModFeesWithDescendants = IF u = t THEN @ + ModifiedFees(m, below) ELSE @]]

UpdateTransaction(m, t, exclude) ==
    IF t \notin DOMAIN m THEN m
    ELSE LET linked == Linked(m, t, SpendersOf(mapNextTx, t) \ exclude)
         IN  UpdateForDescendants(linked, t,
                 CalculateDescendants(linked, linked[t].children) \ exclude)

UpdateTransactionsFromBlock(m, hashes) ==
    FoldLeft(LAMBDA n, t : UpdateTransaction(n, t, setAlreadyIncluded(hashes)),
             m, Reverse(hashes))

UpdateTip ==
    /\ pc = "resurrect" /\ vtx = <<>> /\ pc' = "disconnected"
    /\ mapTx' = UpdateTransactionsFromBlock(mapTx, vHashUpdate)
    /\ vHashUpdate' = <<>>
    /\ UNCHANGED <<mapNextTx, mapDeltas, chain, vtx, loadVars>>

\* The end of ActivateBestChainStep, or of InvalidateBlock: removeForReorg, of
\* what spends an immature coinbase or is not final, then LimitMempoolSize, of
\* what is too old or does not fit.
Immature(m) == {t \in DOMAIN m : \E o \in Inputs[t] : ~Matured(o)}
removeForReorg(st, nonFinal) == WithoutDescendants(st, Immature(st.mapTx) \cup nonFinal)
LimitMempoolSize(st, over) == WithoutDescendants(st, over \cap DOMAIN st.mapTx)

AtMostOne(S) == {{}} \cup {{t} : t \in S}

EndOfStep ==
    /\ pc \in {"disconnected", "connected"} /\ pc' = "idle"
    /\ \E nonFinal, over \in AtMostOne(DOMAIN mapTx) :
          PoolBecomes(LimitMempoolSize(removeForReorg(thePool, nonFinal), over))
    /\ UNCHANGED <<chain, vtx, vHashUpdate, loadVars>>

----------------------------------------------------------------------------
(* mempool.dat *)

\* infoAll's order, GetSortedDepthAndScore.
ByDescendants(a, b) == mapTx[a].nCountWithDescendants < mapTx[b].nCountWithDescendants
ByDepth(a, b) == mapTx[a].nCountWithAncestors < mapTx[b].nCountWithAncestors

Dumped(t, inPool) == [tx |-> t, nFeeDelta |-> mapDeltas[t], inPool |-> inPool]

\* DumpMempoolToFile: the entries, then the other deltas.
DumpMempoolToFile ==
    LET others == {t \in Txs \ DOMAIN mapTx : mapDeltas[t] # 0}
        inOrder == SetToSortSeq(DOMAIN mapTx, ByDepth)
    IN  [i \in DOMAIN inOrder |-> Dumped(inOrder[i], TRUE)]
        \o SetToSeq({Dumped(t, FALSE) : t \in others})

\* A restart.  Shutdown dumps only what was loaded to the end (fDumpMempoolLater);
\* a crash dumps nothing.
Restart ==
    /\ pc \in {"idle", "failed"} /\ calls < MaxCalls /\ calls' = calls + 1
    /\ \/ file = <<>> /\ disk' = DumpMempoolToFile
       \/ UNCHANGED disk
    /\ file' = disk'
    /\ mapTx' = <<>> /\ mapNextTx' = [o \in Outpoints |-> None]
    /\ mapDeltas' = [t \in Txs |-> 0] /\ pc' = "idle"
    /\ UNCHANGED <<chain, vtx, vHashUpdate>>

\* LoadMempoolFromDump: first the delta, at any time, then the transaction.
LoadDelta ==
    /\ file # <<>> /\ pc # "failed" /\ Head(file).nFeeDelta # 0
    /\ PoolBecomes(PrioritiseTransaction(thePool, Head(file).tx, Head(file).nFeeDelta))
    /\ file' = IF Head(file).inPool THEN [file EXCEPT ![1].nFeeDelta = 0] ELSE Tail(file)
    /\ UNCHANGED <<chainVars, disk, calls>>

LoadTransaction ==
    /\ file # <<>> /\ pc = "idle" /\ Head(file).nFeeDelta = 0
    /\ \/ Acceptable(Head(file).tx) /\ PoolBecomes(Accepted(Head(file).tx))
       \/ UNCHANGED <<mapTx, mapNextTx, mapDeltas>>
    /\ file' = Tail(file)
    /\ UNCHANGED <<chainVars, disk, calls>>

----------------------------------------------------------------------------

Next ==
    \/ \E t \in Txs : AcceptToMemoryPool(t) \/ Abandon(t) \/ prioritisetransaction(t)
    \/ \E cb \in Coinbases \cup {None}, txs \in SeqOf(Txs, BlockSize) : ConnectTip(cb, txs)
    \/ DisconnectTip \/ Resurrect \/ UpdateTip \/ EndOfStep
    \/ Restart \/ LoadDelta \/ LoadTransaction

Spec == Init /\ [][Next]_vars

----------------------------------------------------------------------------
(* Properties *)

\* The state has its types.  An entry's counts never fall to zero: the asserts
\* of UpdateDescendantState and UpdateAncestorState.
TypeOK ==
    /\ DOMAIN mapTx \subseteq Txs /\ \A t \in DOMAIN mapTx : mapTx[t] \in Entry
    /\ mapNextTx \in [Outpoints -> Txs \cup {None}] /\ mapDeltas \in [Txs -> Int]
    /\ Len(chain) <= MaxHeight /\ Confirmed \subseteq Txs
    /\ pc \in {"idle", "resurrect", "disconnected", "connected", "failed"}
    /\ ToSet(vtx) \subseteq Txs \cup Coinbases /\ ToSet(vHashUpdate) \subseteq Txs
    /\ calls \in 0 .. MaxCalls

\* "The set of ancestors reachable via mapLinks will be the same as the set of
\* ancestors whose packages include this transaction" (UpdateForRemoveFromMempool):
\* at all times, inside a reorganisation too, what an entry accounts for is
\* what its links reach, at the fees as they were last prioritised.
PackagesFollowLinks ==
    /\ TypeOK
    /\ \A t \in DOMAIN mapTx :
        LET above == Ancestors(mapTx, {t})
            below == CalculateDescendants(mapTx, {t})
        IN  /\ mapTx[t].nCountWithAncestors = Cardinality(above)
            /\ mapTx[t].nModFeesWithAncestors = ModifiedFees(mapTx, above)
            /\ mapTx[t].nCountWithDescendants = Cardinality(below)
            /\ mapTx[t].nModFeesWithDescendants = ModifiedFees(mapTx, below)
            /\ mapTx[t].feeDelta = mapDeltas[t]

\* Outside DisconnectTip the links are those of the inputs, and every input of
\* an entry is in mapNextTx, for that entry: what CTxMemPool::check asserts.
LinksAreSpends ==
    pc # "resurrect" =>
        /\ \A t \in DOMAIN mapTx :
              /\ mapTx[t].parents = Spent(t) \cap DOMAIN mapTx
              /\ mapTx[t].children = {u \in DOMAIN mapTx : t \in Spent(u)}
              /\ \A o \in Inputs[t] : mapNextTx[o] = t
        /\ \A o \in Outpoints : mapNextTx[o] # None => mapNextTx[o] \in DOMAIN mapTx

\* Once a step of the chain has ended, the next block could hold the pool: every
\* input is an output of the pool or of the chain, unspent and mature.  Before
\* removeForReorg it is there, if not mature: its coins are read without a test.
InputsAvailable ==
    pc \in {"idle", "disconnected", "connected"} =>
        \A t \in DOMAIN mapTx : \A o \in Inputs[t] :
            \/ o[1] \in DOMAIN mapTx
            \/ Unspent(o) /\ (pc = "idle" => Matured(o))

\* mempool.dat lists a transaction after those it spends, or loading it would
\* lose it.
ParentsFirst ==
    \A i, j \in DOMAIN disk :
        disk[i].inPool /\ disk[j].inPool /\ disk[j].tx \in Spent(disk[i].tx) => j < i

\* "Check if it's economically rational to mine this transaction rather than
\* the ones it replaces" (AcceptToMemoryPoolWorker): what replaces others pays
\* more than they did.  The code sums up nConflictingFees, and only logs them.
ReplacementPays ==
    [][\A t \in Txs :
          pc = "idle" /\ t \in DOMAIN mapTx' \ DOMAIN mapTx /\ DOMAIN mapTx \ DOMAIN mapTx' # {}
              => ModifiedFee(mapTx', t) > ModifiedFees(mapTx, DOMAIN mapTx \ DOMAIN mapTx')]_vars

\* "assert( coins != nullptr )" (removeForReorg, which reads coins->nHeight next):
\* the coins that an entry spends are there, also when InvalidateBlock calls it
\* because DisconnectTip failed.
CoinsThere ==
    pc = "failed" =>
        \A t \in DOMAIN mapTx : Spent(t) \cap Coinbases # {} =>
            \A o \in Inputs[t] : o[1] \in DOMAIN mapTx \/ Created(o[1])

=============================================================================
