------------------------- MODULE FlushRestartProofs -------------------------
(***************************************************************************)
(* What pruning may take, and that an undamaged node starts again, for     *)
(* every tree of blocks, file size and number of crashes.  Both rest on    *)
(* the invariant IInv of FlushStateProofs; Restarts adds to it what        *)
(* VerifyDB needs of the chain below the coins on disk.                    *)
(***************************************************************************)
EXTENDS FlushStateProofs

\* The provers may take a minute; Zenon is the one to try where a leaf names none.
USE ZenonT(60)

\* The chain that the coins in memory are of is the active one, or a block apart.
OneApart(m) ==
    \/ m.viewBest = m.tip
    \/ m.viewBest # Genesis /\ Parent[m.viewBest] = m.tip /\ HasData(m.index, m.viewBest)
    \/ m.tip # Genesis /\ m.viewBest = Parent[m.tip] /\ HasData(m.index, m.tip)

\* What a start needs of the coins on disk: the blocks below them whose data is
\* there have undo data; and only blocks of the active chain were pruned.
Restarts(m, d, s) ==
    /\ OneApart(m)
    /\ m.flush.pc = "none" \/ m.flush.newTip \in {m.tip, m.viewBest}
    /\ \A b \in (ChainTo[m.tip] \cup {m.viewBest}) \ {Genesis} :
          HasData(m.index, b) => HasUndo(m.index, b)
    /\ \A b \in (ChainTo[d.coins.best] \cup ChainTo[s.coins.best]) \ {Genesis} :
          HasData(d.db.index, b) => HasUndo(d.db.index, b)
    /\ \A b \in ChainTo[d.coins.best] :
          ~HasData(d.db.index, b) => b \in ChainTo[m.tip] /\ ~HasData(m.index, b)
    /\ \A b \in ChainTo[s.coins.best] :
          ~HasData(d.db.index, b) => b \in ChainTo[d.coins.best]

Restartable ==
    /\ damage = {} => Restarts(mem, disk, safe)
    /\ RestartsUnlessDamaged

-----------------------------------------------------------------------------
(* Pruning keeps the recent blocks *)

\* What AcceptBlock leaves alone: all but one entry of the index.
LEMMA AcceptSteps ==
    ASSUME IInv, NEW b \in Blocks, AcceptBlock(b)
    PROVE  /\ disk'.db = disk.db /\ disk'.coins = disk.coins /\ safe'.coins = safe.coins
           /\ mem'.tip = mem.tip /\ mem'.viewBest = mem.viewBest
           /\ mem'.flush.pc = "none" \/ mem'.flush.newTip = mem.tip
           /\ \A c \in Blocks \ {b} : mem'.index[c] = mem.index[c]
           /\ ~HasData(mem.index, b) /\ b \notin ChainTo[mem.tip]
           /\ damage' = {} => damage = {}
<1>1. mem \in Memory /\ disk \in Storage /\ safe \in Storage /\ mem.flush.pc = "none"
  BY DEF IInv, TypeOK, AcceptBlock, Idle
<1>2. PICK f, p : \E allocates \in BOOLEAN :
        /\ safe' = IF f = mem.nLastBlockFile THEN safe ELSE FlushBlockFile(mem.nLastBlockFile, safe)
        /\ \/ /\ disk' = [disk EXCEPT !.blk[f][p] = b]
              /\ mem' = Received(BlockPosFound(b, f, allocates), b, f, p)
              /\ UNCHANGED damage
           \/ /\ mem' = Received([BlockPosFound(b, f, allocates) EXCEPT !.aborting = TRUE], b, f, p)
              /\ damage' = damage \cup {"block"}
              /\ UNCHANGED disk
           \/ /\ mem' = [BlockPosFound(b, f, allocates) EXCEPT !.aborting = TRUE]
              /\ UNCHANGED <<disk, damage>>
  BY DEF AcceptBlock
<1>3. PICK allocates \in BOOLEAN :
        /\ safe' = IF f = mem.nLastBlockFile THEN safe ELSE FlushBlockFile(mem.nLastBlockFile, safe)
        /\ \/ /\ disk' = [disk EXCEPT !.blk[f][p] = b]
              /\ mem' = Received(BlockPosFound(b, f, allocates), b, f, p)
              /\ UNCHANGED damage
           \/ /\ mem' = Received([BlockPosFound(b, f, allocates) EXCEPT !.aborting = TRUE], b, f, p)
              /\ damage' = damage \cup {"block"}
              /\ UNCHANGED disk
           \/ /\ mem' = [BlockPosFound(b, f, allocates) EXCEPT !.aborting = TRUE]
              /\ UNCHANGED <<disk, damage>>
  BY <1>2
<1>4. disk'.db = disk.db /\ disk'.coins = disk.coins
  BY <1>1, <1>3 DEF Storage
<1>5. safe'.coins = safe.coins
  BY <1>1, <1>3 DEF Storage, FlushBlockFile
<1> DEFINE Like(n) == /\ n.index = mem.index /\ n.tip = mem.tip /\ n.viewBest = mem.viewBest
                       /\ n.flush = mem.flush
                       /\ DOMAIN n = DOMAIN mem
<1>6. Like(BlockPosFound(b, f, allocates)) /\ Like([BlockPosFound(b, f, allocates) EXCEPT !.aborting = TRUE])
  BY <1>1 DEF BlockPosFound, Memory
<1>7. ASSUME NEW n, Like(n), mem' = Received(n, b, f, p)
      PROVE  /\ mem'.tip = mem.tip /\ mem'.viewBest = mem.viewBest
             /\ mem'.flush.pc = "none" \/ mem'.flush.newTip = mem.tip
             /\ \A c \in Blocks \ {b} : mem'.index[c] = mem.index[c]
  BY <1>1, <1>7 DEF Received, Memory, BeginFlush, NoFlush
<1>8. /\ mem'.tip = mem.tip /\ mem'.viewBest = mem.viewBest
      /\ mem'.flush.pc = "none" \/ mem'.flush.newTip = mem.tip
      /\ \A c \in Blocks \ {b} : mem'.index[c] = mem.index[c]
  <2>1. PICK found, failed : /\ found = BlockPosFound(b, f, allocates) /\ Like(found)
                             /\ failed = [found EXCEPT !.aborting = TRUE] /\ Like(failed)
    BY <1>6
  <2>2. mem' = Received(found, b, f, p) \/ mem' = Received(failed, b, f, p) \/ mem' = failed
    BY <1>3, <2>1
  <2>3. CASE mem' = failed
    BY <1>1, <2>1, <2>3
  <2> HIDE DEF Like
  <2> QED
    BY <1>7, <2>1, <2>2, <2>3
<1>9. ~HasData(mem.index, b) /\ b \notin ChainTo[mem.tip] /\ (damage' = {} => damage = {})
  BY <1>3 DEF AcceptBlock
<1> QED
  BY <1>4, <1>5, <1>8, <1>9

\* What ConnectTip leaves alone: it gives one block undo data and loses no data.
LEMMA ConnectSteps ==
    ASSUME IInv, NEW b \in Blocks, ConnectTip(b)
    PROVE  /\ disk'.db = disk.db /\ disk'.coins = disk.coins /\ UNCHANGED <<safe, damage>>
           /\ b # Genesis /\ Parent[b] = mem.tip /\ mem.viewBest = mem.tip /\ mem'.tip = mem.tip
           /\ HasData(mem.index, b)
           /\ \A c \in Blocks : HasData(mem'.index, c) <=> HasData(mem.index, c)
           /\ \A c \in Blocks : HasUndo(mem.index, c) => HasUndo(mem'.index, c)
           /\ \/ mem'.viewBest = b /\ mem'.flush.newTip = b /\ HasUndo(mem'.index, b)
              \/ mem'.viewBest = mem.tip /\ mem'.flush.pc = "none"
<1>1. /\ mem \in Memory /\ disk \in Storage /\ UNCHANGED <<safe, damage>> /\ mem.flush.pc = "none"
      /\ b # Genesis /\ Parent[b] = mem.tip /\ mem.viewBest = mem.tip
  BY DEF IInv, TypeOK, ConnectTip, Idle, InMemory, MemFlush
<1>2. HasData(mem.index, b)
  <2>1. PICK c \in MostWork : b \in ChainTo[c]
    BY DEF ConnectTip
  <2>2. b \notin ChainTo[mem.tip]
    BY <1>1, ChainHeights
  <2> QED
    BY <2>1, <2>2 DEF MostWork, Candidates
<1>3. mem.index[b] \in Entries /\ mem.index[b] # None
  BY <1>1, <1>2, MemoryTypes DEF HasData, Known
<1>4. BeginFlush("IF_NEEDED", 0, b, FALSE).newTip = b
  BY DEF BeginFlush, NoFlush
<1>5. CASE /\ disk' = [disk EXCEPT !.rev = @ \cup {<<FileOf(mem.index, b), b>>}]
           /\ \E allocates \in BOOLEAN :
                 mem' = [UndoWritten(b, allocates) EXCEPT
                             !.view = @ \cup {b}, !.viewBest = b,
                             !.flush = BeginFlush("IF_NEEDED", 0, b, FALSE)]
  <2>1. disk'.db = disk.db /\ disk'.coins = disk.coins
    BY <1>1, <1>5 DEF Storage
  <2>2. PICK fl : fl = BeginFlush("IF_NEEDED", 0, b, FALSE)
    OBVIOUS
  <2>3. PICK allocates \in BOOLEAN :
          mem' = [UndoWritten(b, allocates) EXCEPT !.view = @ \cup {b}, !.viewBest = b, !.flush = fl]
    BY <1>5, <2>2
  <2>4. PICK e \in Entries : e = [mem.index[b] EXCEPT !.undo = TRUE] /\ e.undo /\ e.data
    <3> DEFINE e == [mem.index[b] EXCEPT !.undo = TRUE]
    <3>1. e \in Entries /\ e.undo /\ e.data
      BY <1>2, <1>3 DEF Entries, HasData
    <3> HIDE DEF e
    <3> QED
      BY <3>1 DEF e
  <2>5. /\ mem'.tip = mem.tip /\ mem'.viewBest = b /\ mem'.flush = fl
        /\ mem'.index = [mem.index EXCEPT ![b] = e]
    BY <1>1, <2>3, <2>4 DEF UndoWritten, Memory
  <2>6. mem'.index[b] = e /\ \A c \in Blocks \ {b} : mem'.index[c] = mem.index[c]
    BY <1>1, <2>5 DEF Memory
  <2>7. e # None
    BY NoneAssumption
  <2>8. HasData(mem'.index, b) /\ HasUndo(mem'.index, b)
    BY <2>4, <2>6, <2>7 DEF HasData, HasUndo, Known
  <2>9. \A c \in Blocks : HasData(mem'.index, c) <=> HasData(mem.index, c)
    BY <1>2, <2>6, <2>8 DEF HasData, Known
  <2>10. \A c \in Blocks : HasUndo(mem.index, c) => HasUndo(mem'.index, c)
    BY <2>6, <2>8 DEF HasUndo, Known
  <2>11. mem'.flush.newTip = b
    BY <1>4, <2>2, <2>5
  <2> QED
    BY <1>1, <1>2, <2>1, <2>5, <2>8, <2>9, <2>10, <2>11
<1>6. CASE /\ HasUndo(mem.index, b)
           /\ mem' = [mem EXCEPT !.view = @ \cup {b}, !.viewBest = b,
                                 !.flush = BeginFlush("IF_NEEDED", 0, b, FALSE)]
           /\ UNCHANGED disk
  <2>1. PICK fl : fl = BeginFlush("IF_NEEDED", 0, b, FALSE)
    OBVIOUS
  <2>2. mem'.tip = mem.tip /\ mem'.viewBest = b /\ mem'.flush = fl /\ mem'.index = mem.index
    BY <1>1, <1>6, <2>1 DEF Memory
  <2> QED
    BY <1>1, <1>2, <1>4, <1>6, <2>1, <2>2
<1>7. CASE mem' = [mem EXCEPT !.aborting = TRUE] /\ UNCHANGED disk
  <2>1. mem'.tip = mem.tip /\ mem'.viewBest = mem.viewBest /\ mem'.flush = mem.flush /\ mem'.index = mem.index
    BY <1>1, <1>7 DEF Memory
  <2> QED
    BY <1>1, <1>2, <1>7, <2>1
<1> QED
  BY <1>5, <1>6, <1>7 DEF ConnectTip, FileOf, PosOf, SizeOf, HighOf

\* The steps that leave cs_main's holder at its work.
LEMMA ReturnSteps ==
    ASSUME NEW m \in Memory, NEW newTip, Return(m, newTip)
    PROVE  \/ /\ phase' = phase /\ mem'.index = m.index /\ mem'.viewBest = m.viewBest
              /\ mem'.tip = newTip /\ mem'.flush = NoFlush
           \/ phase' = "down" /\ mem' = Loaded(disk')
  BY DEF Return, Memory

\* Where a failed flush leaves the memory.
LEMMA FailsSteps ==
    ASSUME NEW m \in Memory, FlushFails(m)
    PROVE  \/ /\ phase' = phase /\ mem'.index = m.index /\ mem'.viewBest = m.viewBest
              /\ mem'.tip = m.tip /\ mem'.flush = NoFlush
           \/ phase' = "down" /\ mem' = Loaded(disk')
<1>1. PICK n \in Memory : /\ n = [m EXCEPT !.aborting = TRUE] /\ Return(n, m.tip)
                          /\ n.index = m.index /\ n.viewBest = m.viewBest
  <2>1. PICK n : n = [m EXCEPT !.aborting = TRUE]
    OBVIOUS
  <2>2. n \in Memory /\ n.index = m.index /\ n.viewBest = m.viewBest
    BY <2>1 DEF Memory
  <2> QED
    BY <2>1, <2>2 DEF FlushFails, TipAfterFailure
<1> QED
  BY <1>1, ReturnSteps

\* Where FlushStateToDisk goes once it has chosen what to prune.
LEMMA BeginsSteps ==
    ASSUME IInv, FlushBegins
    PROVE  \E S \in FilesToPrune :
              /\ \/ mem'.index = Pruned(S).index /\ mem'.viewBest = mem.viewBest
                    /\ mem'.flush.newTip = mem.flush.newTip /\ mem'.tip = mem.tip
                 \/ FlushSucceeds(Pruned(S))
              /\ Pruned(S) \in Memory /\ S \in SUBSET Files
              /\ disk'.db = disk.db /\ disk'.coins = disk.coins /\ UNCHANGED <<safe, damage>>
<1>1. mem \in Memory /\ disk \in Storage /\ UNCHANGED <<safe, damage>>
  BY DEF IInv, TypeOK, FlushBegins
<1>2. PICK S \in FilesToPrune :
      \E extent \in IF S # {} THEN {"full"} ELSE Extent(mem.flush.mode) :
          /\ disk' = WriteFlag(S)
          /\ \/ FlushSucceeds(Pruned(S))
             \/ mem' = [Pruned(S) EXCEPT !.flush.prune = S, !.flush.mode = "NONE", !.flush.manual = 0,
                                         !.flush.full = extent = "full", !.flush.pc = "files"]
  BY DEF FlushBegins
<1>3. PICK extent :
          /\ disk' = WriteFlag(S)
          /\ \/ FlushSucceeds(Pruned(S))
             \/ mem' = [Pruned(S) EXCEPT !.flush.prune = S, !.flush.mode = "NONE", !.flush.manual = 0,
                                         !.flush.full = extent = "full", !.flush.pc = "files"]
  BY <1>2
<1>4. S \in SUBSET Files
  BY <1>1, FilesToPruneFacts
<1>5. PICK m \in Memory : /\ m = Pruned(S) /\ m.viewBest = mem.viewBest /\ m.tip = mem.tip
                          /\ m.flush = mem.flush /\ m.flush \in Flushes
  <2>1. Pruned(S) \in Memory /\ Pruned(S).viewBest = mem.viewBest /\ Pruned(S).tip = mem.tip
        /\ Pruned(S).flush = mem.flush
    BY <1>1, <1>4, PrunedFacts
  <2> QED
    BY <1>1, <2>1 DEF Memory
<1>6. disk'.db = disk.db /\ disk'.coins = disk.coins
  BY <1>1, <1>3 DEF WriteFlag, Storage
<1>7. CASE FlushSucceeds(Pruned(S))
  BY <1>1, <1>4, <1>5, <1>6, <1>7
<1>8. CASE mem' = [m EXCEPT !.flush.prune = S, !.flush.mode = "NONE", !.flush.manual = 0,
                            !.flush.full = extent = "full", !.flush.pc = "files"]
  <2>1. /\ mem'.index = m.index /\ mem'.viewBest = m.viewBest /\ mem'.flush.newTip = m.flush.newTip
        /\ mem'.tip = m.tip
    BY <1>5, <1>8 DEF Memory, Flushes
  <2> QED
    BY <1>1, <1>4, <1>5, <1>6, <2>1
<1> QED
  BY <1>3, <1>5, <1>7, <1>8

\* FindFilesToPrune and FindFilesToPruneManual take no file with a block within
\* MIN_BLOCKS_TO_KEEP of the tip: they act only above nPruneAfterHeight, where the
\* unsigned difference does not wrap.
LEMMA PrunedAreDeep ==
    ASSUME IInv, MIN_BLOCKS_TO_KEEP =< nPruneAfterHeight, NEW S \in FilesToPrune,
           NEW c \in Blocks, HasData(mem.index, c), FileOf(mem.index, c) \in S
    PROVE  nHeight[c] + MIN_BLOCKS_TO_KEEP =< nHeight[mem.tip]
<1>1. /\ mem \in Memory /\ mem.tip \in Blocks /\ mem.flush.manual \in Nat
      /\ MIN_BLOCKS_TO_KEEP \in Nat /\ nPruneAfterHeight \in Nat
      /\ nHeight[mem.tip] \in Nat /\ nHeight[c] \in Nat
  BY BoundAssumption, Heights DEF IInv, TypeOK, Memory, Flushes
<1>2. FileOf(mem.index, c) \in Files /\ HighOf(mem.vinfo, FileOf(mem.index, c)) \in Nat
  BY <1>1, MemoryTypes DEF HasData
<1>3. nHeight[c] =< HighOf(mem.vinfo, FileOf(mem.index, c))
  BY DEF IInv, InMemory, MemPlaces, Located
<1>4. HighOf(mem.vinfo, FileOf(mem.index, c)) =< nLastBlockWeCanPrune
  BY <1>1, FilesToPruneFacts
<1>5. nHeight[mem.tip] >= nPruneAfterHeight
  <2>1. mem.flush.manual > 0 \/ nHeight[mem.tip] > nPruneAfterHeight
    BY <1>1, FilesToPruneFacts
  <2>2. mem.flush.manual > 0 => nHeight[mem.tip] >= nPruneAfterHeight
    BY DEF IInv, InMemory, MemFlush
  <2> QED
    BY SMTT(60), <1>1, <2>1, <2>2
<1>6. /\ nHeight[mem.tip] - MIN_BLOCKS_TO_KEEP \in Int
      /\ nHeight[mem.tip] - MIN_BLOCKS_TO_KEEP >= 0
  BY SMTT(60), <1>1, <1>5
<1>7. nLastBlockWeCanPrune \in Nat /\ nLastBlockWeCanPrune =< nHeight[mem.tip] - MIN_BLOCKS_TO_KEEP
  BY <1>6, UIntType DEF nLastBlockWeCanPrune
<1> QED
  BY SMTT(60), <1>1, <1>2, <1>3, <1>4, <1>7

\* The steps that change the block index in memory.
LEMMA IndexSteps ==
    ASSUME IInv, Next, phase = "up", phase' = "up"
    PROVE  \/ mem'.index = mem.index \/ FlushBegins
           \/ \E b \in Blocks : AcceptBlock(b) \/ ConnectTip(b)
<1>1. mem \in Memory /\ mem.flush \in Flushes
  BY DEF IInv, TypeOK, Memory
<1>2. CASE DisconnectTip \/ CallFlush \/ Shutdown \/ \E h \in 1 .. Cardinality(Blocks) : PruneBlockchain(h)
  BY <1>1, <1>2 DEF DisconnectTip, CallFlush, Shutdown, PruneBlockchain, Memory
<1>3. CASE FlushFiles
  <2>1. CASE mem' = [mem EXCEPT !.flush.pc = "index"]
    BY <1>1, <2>1 DEF Memory
  <2>2. CASE FlushFails(mem)
    BY <1>1, <2>2, FailsSteps
  <2> QED
    BY <1>3, <2>1, <2>2 DEF FlushFiles
<1>4. CASE FlushIndex
  <2>1. PICK m \in Memory : m = Clean /\ m.index = mem.index
    BY <1>1, CleanFacts
  <2>2. CASE mem' = [m EXCEPT !.flush.pc = "coins"]
    BY <2>1, <2>2 DEF Memory
  <2>3. CASE FlushSucceeds(m)
    BY <2>1, <2>3, ReturnSteps DEF FlushSucceeds
  <2>4. CASE FlushFails(m)
    BY <2>1, <2>4, FailsSteps
  <2> QED
    BY <1>4, <2>1, <2>2, <2>3, <2>4 DEF FlushIndex
<1>5. CASE FlushUnlink
  BY <1>1, <1>5 DEF FlushUnlink, Memory
<1>6. CASE FlushCoins
  <2>1. CASE FlushSucceeds(mem)
    BY <1>1, <2>1, ReturnSteps DEF FlushSucceeds
  <2>2. CASE FlushFails(mem)
    BY <1>1, <2>2, FailsSteps
  <2>3. CASE FlushFails([mem EXCEPT !.view = disk.coins.applied])
    <3>1. PICK m \in Memory : m = [mem EXCEPT !.view = disk.coins.applied] /\ m.index = mem.index
      <4>1. disk.coins.applied \in SUBSET Blocks
        BY DEF IInv, TypeOK, Storage
      <4>2. PICK m : m = [mem EXCEPT !.view = disk.coins.applied]
        OBVIOUS
      <4>3. m \in Memory /\ m.index = mem.index
        BY <1>1, <4>1, <4>2 DEF Memory
      <4> QED
        BY <4>2, <4>3
    <3> QED
      BY <2>3, <3>1, FailsSteps
  <2> QED
    BY <1>6, <2>1, <2>2, <2>3 DEF FlushCoins
<1>7. ~(Killed \/ AssertionFails \/ PowerFails \/ Start)
  BY DEF Killed, AssertionFails, PowerFails, Start
<1> QED
  BY <1>2, <1>3, <1>4, <1>5, <1>6, <1>7 DEF Next

\* KeepsRecent: what FindFilesToPrune promises, where no chain is pruned before it is
\* MIN_BLOCKS_TO_KEEP high.
THEOREM PruningKeepsRecent ==
    ASSUME MIN_BLOCKS_TO_KEEP =< nPruneAfterHeight
    PROVE  Spec => KeepsRecent
<1>1. ASSUME IInv, [Next]_vars, NEW b \in Blocks,
             phase = "up", phase' = "up", HasData(mem.index, b), ~HasData(mem'.index, b)
      PROVE  nHeight[b] + MIN_BLOCKS_TO_KEEP =< nHeight[mem.tip]
  <2>1. mem'.index # mem.index /\ Next
    BY <1>1 DEF vars
  <2>2. FlushBegins
    <3>1. ASSUME NEW c \in Blocks, AcceptBlock(c) PROVE FALSE
      <4>1. ~HasData(mem.index, c) /\ \A a \in Blocks \ {c} : mem'.index[a] = mem.index[a]
        BY <1>1, <3>1, AcceptSteps
      <4> QED
        BY <1>1, <4>1 DEF HasData, Known
    <3>2. ASSUME NEW c \in Blocks, ConnectTip(c) PROVE FALSE
      BY <1>1, <3>2, ConnectSteps
    <3> QED
      BY <1>1, <2>1, <3>1, <3>2, IndexSteps
  <2>3. PICK S \in FilesToPrune : mem'.index = Pruned(S).index /\ S \in SUBSET Files
    <3>1. PICK S \in FilesToPrune :
              /\ mem'.index = Pruned(S).index \/ FlushSucceeds(Pruned(S))
              /\ Pruned(S) \in Memory /\ S \in SUBSET Files
      BY <1>1, <2>2, BeginsSteps
    <3>2. PICK m \in Memory : m = Pruned(S)
      BY <3>1
    <3>3. FlushSucceeds(m) => mem'.index = m.index
      BY <1>1, ReturnSteps DEF FlushSucceeds
    <3> QED
      BY <3>1, <3>2, <3>3
  <2>4. FileOf(mem.index, b) \in S
    BY <1>1, <2>3, PrunedFacts DEF IInv, TypeOK
  <2> QED
    BY <1>1, <2>4, PrunedAreDeep
<1>2. IInv /\ [Next]_vars => [\A b \in Blocks :
          phase = "up" /\ phase' = "up" /\ HasData(mem.index, b) /\ ~HasData(mem'.index, b)
             => nHeight[b] + MIN_BLOCKS_TO_KEEP <= nHeight[mem.tip]]_vars
  BY <1>1
<1> QED
  BY <1>2, SpecIInv, PTL DEF Spec, KeepsRecent

-----------------------------------------------------------------------------
(* The node can start again *)

\* The tip stays, or goes to where the coins are.
LEMMA RestartsMoves ==
    ASSUME NEW m, NEW n, NEW d, NEW s, NEW e, NEW t, m.tip \in Blocks, m.viewBest \in Blocks,
           Restarts(m, d, s), n.index = m.index, n.viewBest = m.viewBest,
           n.tip \in {m.tip, m.viewBest}, n.flush.pc = "none" \/ n.flush.newTip \in {n.tip, n.viewBest},
           e.db = d.db, e.coins = d.coins, t.coins = s.coins
    PROVE  Restarts(n, e, t)
<1>1. CASE n.tip = m.tip
  BY <1>1 DEF Restarts, OneApart
<1>2. CASE n.tip = m.viewBest
  <2>1. OneApart(n) /\ (n.flush.pc = "none" \/ n.flush.newTip \in {n.tip, n.viewBest})
    BY <1>2 DEF OneApart
  <2>2. \A b \in (ChainTo[e.coins.best] \cup ChainTo[t.coins.best]) \ {Genesis} :
          HasData(e.db.index, b) => HasUndo(e.db.index, b)
    BY DEF Restarts
  <2>3. \A b \in ChainTo[t.coins.best] : ~HasData(e.db.index, b) => b \in ChainTo[e.coins.best]
    BY DEF Restarts
  <2>4. CASE m.viewBest = m.tip
    BY <1>1, <1>2, <2>4
  <2>5. CASE m.viewBest # Genesis /\ Parent[m.viewBest] = m.tip
    <3>1. ChainTo[n.tip] = ChainTo[m.tip] \cup {m.viewBest}
      BY <1>2, <2>5, Chains
    <3> QED
      BY <2>1, <2>2, <2>3, <3>1 DEF Restarts
  <2>6. CASE m.tip # Genesis /\ m.viewBest = Parent[m.tip] /\ HasData(m.index, m.tip)
    <3>1. ChainTo[m.tip] = ChainTo[n.tip] \cup {m.tip} /\ n.viewBest \in ChainTo[n.tip]
      BY SMTT(60), <1>2, <2>6, Chains, ChainHeights
    <3> QED
      BY <2>1, <2>2, <2>3, <2>6, <3>1 DEF Restarts
  <2> QED
    BY <2>4, <2>5, <2>6 DEF Restarts, OneApart
<1> QED
  BY <1>1, <1>2

\* The process ends, and what it left on disk is loaded.
LEMMA RestartsLoaded ==
    ASSUME NEW m, NEW d, NEW s, NEW e, NEW t, Restarts(m, d, s), e.db = d.db, e.coins.best \in Blocks,
           \/ e.coins = d.coins /\ t.coins = s.coins
           \/ e.coins \in {d.coins, s.coins} /\ t = e
    PROVE  Restarts(Loaded(e), e, t)
<1>1. /\ Loaded(e).index = e.db.index /\ Loaded(e).tip = e.coins.best /\ Loaded(e).viewBest = e.coins.best
      /\ Loaded(e).flush.pc = "none"
  BY DEF Loaded, NoFlush
<1>2. OneApart(Loaded(e)) /\ e.coins.best \in ChainTo[e.coins.best]
  BY <1>1, ChainHeights DEF OneApart
<1>3. \A b \in (ChainTo[e.coins.best] \cup ChainTo[t.coins.best]) \ {Genesis} :
          HasData(e.db.index, b) => HasUndo(e.db.index, b)
  BY DEF Restarts
<1>4. \A b \in ChainTo[t.coins.best] : ~HasData(e.db.index, b) => b \in ChainTo[e.coins.best]
  BY DEF Restarts
<1> QED
  BY <1>1, <1>2, <1>3, <1>4 DEF Restarts

\* FlushStateToDisk returns.
LEMMA RestartsReturn ==
    ASSUME NEW m \in Memory, NEW newTip \in {m.tip, m.viewBest}, Return(m, newTip),
           disk' \in Storage, Restarts(m, disk', safe')
    PROVE  Restarts(mem', disk', safe')
<1>1. m.tip \in Blocks /\ m.viewBest \in Blocks /\ disk'.coins.best \in Blocks
  BY DEF Memory, Storage
<1>2. CASE /\ mem'.index = m.index /\ mem'.viewBest = m.viewBest
           /\ mem'.tip = newTip /\ mem'.flush = NoFlush
  BY <1>1, <1>2, RestartsMoves, NoFlushType
<1>3. CASE mem' = Loaded(disk')
  BY <1>1, <1>3, RestartsLoaded
<1> QED
  BY <1>2, <1>3, ReturnSteps

\* FlushStateToDisk succeeds: the tip goes to where the coins are, or stays.
LEMMA RestartsSucceeds ==
    ASSUME NEW m \in Memory, m.flush.pc # "none", FlushSucceeds(m),
           disk' \in Storage, Restarts(m, disk', safe')
    PROVE  Restarts(mem', disk', safe')
<1>1. m.flush.newTip \in {m.tip, m.viewBest}
  BY DEF Restarts
<1> QED
  BY <1>1, RestartsReturn DEF FlushSucceeds, TipAfterFlush

\* FlushStateToDisk fails: the tip stays.
LEMMA RestartsFails ==
    ASSUME NEW m \in Memory, FlushFails(m), disk' \in Storage, Restarts(m, disk', safe')
    PROVE  Restarts(mem', disk', safe')
<1>1. m.tip \in Blocks /\ m.viewBest \in Blocks /\ disk'.coins.best \in Blocks
  BY DEF Memory, Storage
<1>2. CASE /\ mem'.index = m.index /\ mem'.viewBest = m.viewBest
           /\ mem'.tip = m.tip /\ mem'.flush = NoFlush
  BY <1>1, <1>2, RestartsMoves, NoFlushType
<1>3. CASE mem' = Loaded(disk')
  BY <1>1, <1>3, RestartsLoaded
<1> QED
  BY <1>2, <1>3, FailsSteps

-----------------------------------------------------------------------------
(* Every step keeps it able to *)

\* The new databases.
LEMMA InitRestarts == Init => Restarts(mem, disk, safe)
<1> SUFFICES ASSUME Init PROVE Restarts(mem, disk, safe)
  OBVIOUS
<1>1. PICK d \in Storage : d = Fresh /\ d.coins.best = Genesis
  BY FreshType DEF Fresh
<1>2. HasData(d.db.index, Genesis) /\ ChainTo[Genesis] = {Genesis}
  <2>1. d.db.index[Genesis] = [nFile |-> 0, nPos |-> 0, data |-> TRUE, undo |-> FALSE]
    BY <1>1, TreeAssumption DEF Fresh
  <2>2. d.db.index[Genesis] \in Entries
    BY SMTT(60), <2>1, FileAssumption DEF Entries, Files, Positions
  <2>3. d.db.index[Genesis] # None
    BY <2>2, NoneAssumption
  <2>4. d.db.index[Genesis].data
    BY SMTT(60), <2>1
  <2> QED
    BY <2>3, <2>4, Chains DEF HasData, Known
<1>3. mem = Loaded(d) /\ disk = d /\ safe = d
  BY <1>1 DEF Init
<1>4. Loaded(d).index = d.db.index /\ Loaded(d).tip = Genesis /\ Loaded(d).viewBest = Genesis
      /\ Loaded(d).flush.pc = "none"
  BY <1>1 DEF Loaded, NoFlush
<1> QED
  BY <1>1, <1>2, <1>3, <1>4 DEF Restarts, OneApart

\* AcceptBlock changes no block of the active chain.
LEMMA AcceptRestarts ==
    ASSUME IInv, Restarts(mem, disk, safe), NEW b \in Blocks, AcceptBlock(b)
    PROVE  Restarts(mem', disk', safe')
<1>1. mem.tip \in Blocks /\ mem.viewBest \in Blocks
  BY DEF IInv, TypeOK, Memory
<1>2. /\ disk'.db = disk.db /\ disk'.coins = disk.coins /\ safe'.coins = safe.coins
      /\ mem'.tip = mem.tip /\ mem'.viewBest = mem.viewBest
      /\ mem'.flush.pc = "none" \/ mem'.flush.newTip = mem.tip
      /\ \A c \in Blocks \ {b} : mem'.index[c] = mem.index[c]
      /\ ~HasData(mem.index, b) /\ b \notin ChainTo[mem.tip]
  BY AcceptSteps
<1>3. mem.viewBest # b /\ mem.tip # b
  BY SMTT(60), <1>1, <1>2, Chains, ChainHeights, TreeAssumption DEF Restarts, OneApart
<1>4. \A c \in Blocks \ {b} : /\ HasData(mem'.index, c) <=> HasData(mem.index, c)
                              /\ HasUndo(mem'.index, c) <=> HasUndo(mem.index, c)
  BY <1>2 DEF HasData, HasUndo, Known
<1>5. ChainTo[mem.tip] \subseteq Blocks \ {b}
  BY <1>1, <1>2, Chains
<1>6. OneApart(mem')
  BY <1>1, <1>2, <1>3, <1>4 DEF Restarts, OneApart
<1>7. \A c \in (ChainTo[mem'.tip] \cup {mem'.viewBest}) \ {Genesis} :
          HasData(mem'.index, c) => HasUndo(mem'.index, c)
  BY <1>1, <1>2, <1>3, <1>4, <1>5 DEF Restarts
<1>8. \A c \in ChainTo[disk'.coins.best] :
          ~HasData(disk'.db.index, c) => c \in ChainTo[mem'.tip] /\ ~HasData(mem'.index, c)
  BY <1>2, <1>4, <1>5 DEF Restarts
<1> QED
  BY <1>2, <1>6, <1>7, <1>8 DEF Restarts

\* ConnectTip takes the coins one block up.
LEMMA ConnectRestarts ==
    ASSUME IInv, Restarts(mem, disk, safe), NEW b \in Blocks, ConnectTip(b)
    PROVE  Restarts(mem', disk', safe')
<1>1. mem.tip \in Blocks /\ mem.viewBest \in Blocks /\ disk.coins.best \in Blocks
  BY DEF IInv, TypeOK, Memory, Storage
<1>2. /\ disk'.db = disk.db /\ disk'.coins = disk.coins /\ UNCHANGED <<safe, damage>>
      /\ b # Genesis /\ Parent[b] = mem.tip /\ mem.viewBest = mem.tip /\ mem'.tip = mem.tip
      /\ HasData(mem.index, b)
      /\ \A c \in Blocks : HasData(mem'.index, c) <=> HasData(mem.index, c)
      /\ \A c \in Blocks : HasUndo(mem.index, c) => HasUndo(mem'.index, c)
      /\ \/ mem'.viewBest = b /\ mem'.flush.newTip = b /\ HasUndo(mem'.index, b)
         \/ mem'.viewBest = mem.tip /\ mem'.flush.pc = "none"
  BY ConnectSteps
<1>3. ChainTo[mem.tip] \subseteq Blocks /\ ChainTo[disk.coins.best] \subseteq Blocks /\ mem.tip \in ChainTo[mem.tip]
  BY <1>1, Chains, ChainHeights
<1>4. OneApart(mem') /\ (mem'.flush.pc = "none" \/ mem'.flush.newTip \in {mem'.tip, mem'.viewBest})
  BY <1>2 DEF OneApart
<1>5. \A c \in (ChainTo[mem'.tip] \cup {mem'.viewBest}) \ {Genesis} :
          HasData(mem'.index, c) => HasUndo(mem'.index, c)
  BY <1>2, <1>3 DEF Restarts
<1>6. \A c \in ChainTo[disk'.coins.best] :
          ~HasData(disk'.db.index, c) => c \in ChainTo[mem'.tip] /\ ~HasData(mem'.index, c)
  BY <1>2, <1>3 DEF Restarts
<1> QED
  BY <1>2, <1>4, <1>5, <1>6 DEF Restarts

\* DisconnectTip takes the coins one block down.
LEMMA DisconnectRestarts ==
    ASSUME IInv, Restarts(mem, disk, safe), DisconnectTip
    PROVE  Restarts(mem', disk', safe')
<1>1. /\ mem \in Memory /\ mem.tip \in Blocks /\ mem.viewBest = mem.tip /\ UNCHANGED <<disk, safe>>
      /\ mem.flush.pc = "none"
  BY DEF IInv, TypeOK, Memory, DisconnectTip, Idle
<1>2. CASE /\ BlockReadable(mem.index, mem.tip, disk)
           /\ mem' = [mem EXCEPT !.view = @ \ {mem.tip}, !.viewBest = Parent[mem.tip],
                                 !.flush = BeginFlush("IF_NEEDED", 0, Parent[mem.tip], FALSE)]
  <2>1. mem.tip # Genesis
    <3>1. PICK c \in MostWork : mem.tip \notin ChainTo[c] /\ c \in Blocks
      BY DEF DisconnectTip, MostWork, Candidates
    <3> QED
      BY <3>1, GenesisFirst
  <2>2. PICK t \in Blocks : t = Parent[mem.tip]
    BY <1>1, <2>1, TreeAssumption
  <2>3. PICK fl : fl = BeginFlush("IF_NEEDED", 0, t, FALSE) /\ fl.newTip = t
    <3>1. BeginFlush("IF_NEEDED", 0, t, FALSE).newTip = t
      BY DEF BeginFlush, NoFlush
    <3> QED
      BY <3>1
  <2>4. mem'.index = mem.index /\ mem'.tip = mem.tip /\ mem'.viewBest = t /\ mem'.flush = fl
    BY <1>1, <1>2, <2>2, <2>3 DEF Memory
  <2>5. OneApart(mem') /\ mem'.flush.newTip \in {mem'.tip, mem'.viewBest}
    BY <1>2, <2>1, <2>2, <2>3, <2>4 DEF OneApart, BlockReadable
  <2>6. t \in ChainTo[mem.tip]
    BY <1>1, <2>1, <2>2, Chains, ChainHeights
  <2> QED
    BY <1>1, <2>4, <2>5, <2>6 DEF Restarts
<1>3. CASE mem' = [mem EXCEPT !.aborting = TRUE]
  <2>1. /\ mem'.index = mem.index /\ mem'.tip = mem.tip /\ mem'.viewBest = mem.viewBest
        /\ mem'.flush.pc = "none"
    BY <1>1, <1>3 DEF Memory
  <2> QED
    BY <1>1, <2>1, RestartsMoves
<1> QED
  BY <1>2, <1>3 DEF DisconnectTip

\* FlushStateToDisk is called.
LEMMA CallRestarts ==
    ASSUME IInv, Restarts(mem, disk, safe),
           CallFlush \/ Shutdown \/ \E h \in 1 .. Cardinality(Blocks) : PruneBlockchain(h)
    PROVE  Restarts(mem', disk', safe')
<1>1. mem \in Memory /\ mem.tip \in Blocks /\ mem.viewBest \in Blocks /\ UNCHANGED <<disk, safe>>
  BY DEF IInv, TypeOK, Memory, CallFlush, Shutdown, PruneBlockchain
<1>2. \E mode, manual, exit : mem' = [mem EXCEPT !.flush = BeginFlush(mode, manual, mem.tip, exit)]
  BY DEF CallFlush, Shutdown, PruneBlockchain
<1>3. PICK fl : mem' = [mem EXCEPT !.flush = fl] /\ fl.newTip = mem.tip
  <2>1. PICK mode, manual, exit : mem' = [mem EXCEPT !.flush = BeginFlush(mode, manual, mem.tip, exit)]
    BY <1>2
  <2>2. BeginFlush(mode, manual, mem.tip, exit).newTip = mem.tip
    BY DEF BeginFlush, NoFlush
  <2> QED
    BY <2>1, <2>2
<1>4. mem'.index = mem.index /\ mem'.tip = mem.tip /\ mem'.viewBest = mem.viewBest /\ mem'.flush = fl
  BY <1>1, <1>3 DEF Memory
<1> QED
  BY <1>1, <1>3, <1>4, RestartsMoves

\* Pruning takes data and undo data together, and neither the tip nor the block the
\* coins are at.
LEMMA BeginsRestarts ==
    ASSUME IInv, Restarts(mem, disk, safe), FlushBegins,
           1 =< MIN_BLOCKS_TO_KEEP, MIN_BLOCKS_TO_KEEP =< nPruneAfterHeight
    PROVE  Restarts(mem', disk', safe')
<1>1. /\ mem \in Memory /\ mem.tip \in Blocks /\ mem.viewBest \in Blocks /\ mem.flush.pc = "begin"
      /\ disk.coins.best \in Blocks
  BY DEF IInv, TypeOK, Memory, Storage, FlushBegins
<1>2. PICK S \in FilesToPrune :
              /\ \/ mem'.index = Pruned(S).index /\ mem'.viewBest = mem.viewBest
                    /\ mem'.flush.newTip = mem.flush.newTip /\ mem'.tip = mem.tip
                 \/ FlushSucceeds(Pruned(S))
              /\ Pruned(S) \in Memory /\ S \in SUBSET Files
              /\ disk'.db = disk.db /\ disk'.coins = disk.coins /\ UNCHANGED <<safe, damage>>
  BY BeginsSteps
<1>3. PICK m \in Memory :
        /\ m = Pruned(S) /\ m.tip = mem.tip /\ m.viewBest = mem.viewBest /\ m.flush = mem.flush
        /\ \A c \in Blocks : HasData(m.index, c) <=> HasData(mem.index, c) /\ FileOf(mem.index, c) \notin S
        /\ \A c \in Blocks : HasUndo(m.index, c) <=> HasUndo(mem.index, c) /\ FileOf(mem.index, c) \notin S
  BY <1>1, <1>2, PrunedFacts
<1>4. \A c \in Blocks : nHeight[c] >= nHeight[mem.tip] /\ HasData(mem.index, c) => HasData(m.index, c)
  <2> SUFFICES ASSUME NEW c \in Blocks, nHeight[c] >= nHeight[mem.tip], HasData(mem.index, c),
                      FileOf(mem.index, c) \in S
               PROVE  FALSE
    BY <1>3
  <2>1. nHeight[c] + MIN_BLOCKS_TO_KEEP =< nHeight[mem.tip]
    BY PrunedAreDeep
  <2>2. nHeight[c] \in Nat /\ nHeight[mem.tip] \in Nat /\ MIN_BLOCKS_TO_KEEP \in Nat
    BY <1>1, Heights, BoundAssumption
  <2> QED
    BY SMTT(60), <2>1, <2>2
<1>5. Restarts(m, disk', safe')
  <2>1. OneApart(m)
    <3>1. CASE mem.viewBest = mem.tip
      BY <1>3, <3>1 DEF OneApart
    <3>2. CASE mem.viewBest # Genesis /\ Parent[mem.viewBest] = mem.tip /\ HasData(mem.index, mem.viewBest)
      <4>1. nHeight[mem.viewBest] >= nHeight[mem.tip]
        <5>1. nHeight[mem.viewBest] = nHeight[mem.tip] + 1 /\ nHeight[mem.tip] \in Nat
          BY <1>1, <3>2, Heights
        <5> QED
          BY SMTT(60), <5>1
      <4> QED
        BY <1>1, <1>3, <1>4, <3>2, <4>1 DEF OneApart
    <3>3. CASE mem.tip # Genesis /\ mem.viewBest = Parent[mem.tip] /\ HasData(mem.index, mem.tip)
      <4>1. nHeight[mem.tip] >= nHeight[mem.tip]
        BY SMTT(60), <1>1, Heights
      <4> QED
        BY <1>1, <1>3, <1>4, <3>3, <4>1 DEF OneApart
    <3> QED
      BY <3>1, <3>2, <3>3 DEF Restarts, OneApart
  <2>2. ChainTo[mem.tip] \subseteq Blocks /\ ChainTo[disk.coins.best] \subseteq Blocks
    BY <1>1, Chains
  <2>3. \A c \in (ChainTo[m.tip] \cup {m.viewBest}) \ {Genesis} : HasData(m.index, c) => HasUndo(m.index, c)
    BY <1>1, <1>3, <2>2 DEF Restarts
  <2>4. \A c \in ChainTo[disk.coins.best] :
          ~HasData(disk.db.index, c) => c \in ChainTo[m.tip] /\ ~HasData(m.index, c)
    BY <1>3, <2>2 DEF Restarts
  <2> QED
    BY <1>2, <1>3, <2>1, <2>3, <2>4 DEF Restarts
<1>6. CASE FlushSucceeds(m)
  <2>1. disk' \in Storage
    BY FlushBeginsIInv DEF IInv, TypeOK
  <2> QED
    BY <1>1, <1>3, <1>5, <1>6, <2>1, RestartsSucceeds
<1>7. CASE mem'.index = m.index /\ mem'.viewBest = mem.viewBest
           /\ mem'.flush.newTip = mem.flush.newTip /\ mem'.tip = mem.tip
  <2>1. mem.flush.newTip \in {mem.tip, mem.viewBest}
    BY <1>1 DEF Restarts
  <2> QED
    BY <1>1, <1>3, <1>5, <1>7, <2>1, RestartsMoves
<1> QED
  BY <1>2, <1>3, <1>6, <1>7

\* FlushBlockFile.
LEMMA FilesRestarts ==
    ASSUME IInv, Restarts(mem, disk, safe), FlushFiles
    PROVE  Restarts(mem', disk', safe')
<1>1. /\ mem \in Memory /\ mem.tip \in Blocks /\ mem.viewBest \in Blocks /\ mem.flush \in Flushes
      /\ mem.flush.pc = "files" /\ UNCHANGED disk /\ disk \in Storage /\ safe \in Storage
  BY DEF IInv, TypeOK, Memory, FlushFiles
<1>2. CASE safe' = FlushBlockFile(mem.nLastBlockFile, safe) /\ mem' = [mem EXCEPT !.flush.pc = "index"]
  <2>1. /\ mem'.index = mem.index /\ mem'.tip = mem.tip /\ mem'.viewBest = mem.viewBest
        /\ mem'.flush.newTip = mem.flush.newTip
    BY <1>1, <1>2 DEF Memory, Flushes
  <2>2. safe'.coins = safe.coins
    BY <1>1, <1>2 DEF FlushBlockFile, Storage
  <2>3. mem.flush.newTip \in {mem.tip, mem.viewBest}
    BY <1>1 DEF Restarts
  <2> QED
    BY <1>1, <2>1, <2>2, <2>3, RestartsMoves
<1>3. CASE UNCHANGED safe /\ FlushFails(mem)
  BY <1>1, <1>3, RestartsFails
<1> QED
  BY <1>2, <1>3 DEF FlushFiles

\* WriteBatchSync: undo data that goes belonged to the active chain.
LEMMA IndexRestarts ==
    ASSUME IInv, damage = {}, damage' = {}, Restarts(mem, disk, safe), FlushIndex
    PROVE  Restarts(mem', disk', safe')
<1>1. /\ mem \in Memory /\ disk \in Storage /\ safe \in Storage /\ mem.flush.pc = "index"
      /\ mem.tip \in Blocks /\ disk.coins.best \in Blocks /\ safe.coins.best \in Blocks
      /\ mem.viewBest \in Blocks
  BY DEF IInv, TypeOK, Memory, Storage, FlushIndex
<1>2. /\ disk' = [disk EXCEPT !.db = Batch] /\ safe' = [safe EXCEPT !.db = Batch, !.pruned = disk.pruned]
      /\ IF mem.flush.full THEN mem' = [Clean EXCEPT !.flush.pc = "coins"] ELSE FlushSucceeds(Clean)
      /\ ~StaleCoinsPruned
  BY DEF FlushIndex
<1>3. PICK db : db = Batch /\ \A b \in Blocks : db.index[b] = mem.index[b]
  <2>1. \A b \in Blocks \ mem.dirtyBlocks : mem.index[b] = disk.db.index[b]
    BY DEF IInv, InMemory, MemIndex
  <2>2. \A b \in Blocks : Batch.index[b] = mem.index[b]
    BY <2>1 DEF Batch
  <2> QED
    BY <2>2
<1>4. disk'.db = db /\ disk'.coins = disk.coins /\ safe'.coins = safe.coins
  BY <1>1, <1>2, <1>3 DEF Storage
<1>5. \A b \in Blocks : /\ HasData(db.index, b) <=> HasData(mem.index, b)
                        /\ HasUndo(db.index, b) <=> HasUndo(mem.index, b)
  BY <1>3 DEF HasData, HasUndo, Known
<1>6. ASSUME NEW b \in Blocks, HasUndo(disk.db.index, b), ~HasUndo(mem.index, b)
      PROVE  /\ b \in ChainTo[disk.coins.best] => b \in ChainTo[mem.tip]
             /\ b \in ChainTo[safe.coins.best] => b \in ChainTo[disk.coins.best] \cap ChainTo[mem.tip]
  <2>1. ~HasUndo(Batch.index, b)
    BY <1>3, <1>5, <1>6
  <2> QED
    BY <1>2, <1>6, <2>1 DEF StaleCoinsPruned
<1>7. /\ ChainTo[mem.tip] \subseteq Blocks /\ ChainTo[disk.coins.best] \subseteq Blocks
      /\ ChainTo[safe.coins.best] \subseteq Blocks
      /\ Genesis \in ChainTo[mem.tip] /\ Genesis \in ChainTo[disk.coins.best]
  BY <1>1, Chains, GenesisFirst
<1>8. \A b \in Blocks : HasUndo(mem.index, b) => HasData(mem.index, b)
  BY DEF IInv, InMemory, MemPlaces, Located
<1>9. PICK m \in Memory : /\ m = Clean /\ m.index = mem.index /\ m.tip = mem.tip /\ m.viewBest = mem.viewBest
                          /\ m.flush = mem.flush /\ m.flush \in Flushes
  <2>1. Clean \in Memory /\ Clean.index = mem.index /\ Clean.tip = mem.tip /\ Clean.viewBest = mem.viewBest
        /\ Clean.flush = mem.flush
    BY <1>1, CleanFacts
  <2> QED
    BY <1>1, <2>1 DEF Memory
<1>10. Restarts(m, disk', safe')
  <2>1. /\ OneApart(m) /\ m.flush.newTip \in {m.tip, m.viewBest}
        /\ \A b \in (ChainTo[m.tip] \cup {m.viewBest}) \ {Genesis} : HasData(m.index, b) => HasUndo(m.index, b)
    BY <1>1, <1>9 DEF Restarts, OneApart
  <2>2. ASSUME NEW b \in (ChainTo[disk.coins.best] \cup ChainTo[safe.coins.best]) \ {Genesis}, HasData(mem.index, b)
        PROVE  HasUndo(mem.index, b)
    <3>1. CASE ~HasData(disk.db.index, b)
      BY <2>2, <3>1 DEF Restarts
    <3>2. CASE HasData(disk.db.index, b)
      <4>1. HasUndo(disk.db.index, b) /\ b \in Blocks
        BY <1>7, <2>2, <3>2 DEF Restarts
      <4> QED
        BY <1>6, <2>2, <4>1 DEF Restarts
    <3> QED
      BY <3>1, <3>2
  <2>3. ASSUME NEW b \in ChainTo[disk.coins.best], ~HasData(mem.index, b)
        PROVE  b \in ChainTo[mem.tip]
    <3>1. CASE HasData(disk.db.index, b) /\ b # Genesis
      <4>1. HasUndo(disk.db.index, b) /\ b \in Blocks
        BY <1>7, <2>3, <3>1 DEF Restarts
      <4> QED
        BY <1>6, <1>8, <2>3, <4>1
    <3> QED
      BY <1>7, <2>3, <3>1 DEF Restarts
  <2>4. ASSUME NEW b \in ChainTo[safe.coins.best], ~HasData(mem.index, b)
        PROVE  b \in ChainTo[disk.coins.best]
    <3>1. CASE HasData(disk.db.index, b) /\ b # Genesis
      <4>1. HasUndo(disk.db.index, b) /\ b \in Blocks
        BY <1>7, <2>4, <3>1 DEF Restarts
      <4> QED
        BY <1>6, <1>8, <2>4, <4>1
    <3> QED
      BY <1>7, <2>4, <3>1 DEF Restarts
  <2>5. \A b \in (ChainTo[disk'.coins.best] \cup ChainTo[safe'.coins.best]) \ {Genesis} :
          HasData(disk'.db.index, b) => HasUndo(disk'.db.index, b)
    BY <1>4, <1>5, <1>7, <2>2
  <2>6. \A b \in ChainTo[disk'.coins.best] :
          ~HasData(disk'.db.index, b) => b \in ChainTo[m.tip] /\ ~HasData(m.index, b)
    BY <1>4, <1>5, <1>7, <1>9, <2>3
  <2>7. \A b \in ChainTo[safe'.coins.best] : ~HasData(disk'.db.index, b) => b \in ChainTo[disk'.coins.best]
    BY <1>4, <1>5, <1>7, <2>4
  <2> QED
    BY <2>1, <2>5, <2>6, <2>7 DEF Restarts
<1>11. CASE mem' = [m EXCEPT !.flush.pc = "coins"]
  <2>1. /\ mem'.index = m.index /\ mem'.tip = m.tip /\ mem'.viewBest = m.viewBest
        /\ mem'.flush.newTip = m.flush.newTip
    BY <1>9, <1>11 DEF Memory, Flushes
  <2>2. m.flush.newTip \in {m.tip, m.viewBest} /\ m.tip \in Blocks /\ m.viewBest \in Blocks
    BY <1>1, <1>9 DEF Restarts
  <2> QED
    BY <1>10, <2>1, <2>2, RestartsMoves
<1>12. CASE FlushSucceeds(m)
  <2>1. disk' \in Storage
    BY FlushIndexIInv DEF IInv, TypeOK
  <2> QED
    BY <1>1, <1>9, <1>10, <1>12, <2>1, RestartsSucceeds
<1> QED
  BY <1>2, <1>9, <1>11, <1>12

\* UnlinkPrunedFiles.
LEMMA UnlinkRestarts ==
    ASSUME IInv, Restarts(mem, disk, safe), FlushUnlink
    PROVE  Restarts(mem', disk', safe')
<1>1. /\ mem \in Memory /\ disk \in Storage /\ safe \in Storage /\ mem.flush \in Flushes
      /\ mem.tip \in Blocks /\ mem.viewBest \in Blocks /\ mem.flush.pc = "coins"
  BY DEF IInv, TypeOK, Memory, FlushUnlink
<1>2. PICK f : disk' = Unlinked(f, disk) /\ safe' = Unlinked(f, safe) /\ mem' = [mem EXCEPT !.flush.prune = @ \ {f}]
  BY DEF FlushUnlink
<1>3. disk'.db = disk.db /\ disk'.coins = disk.coins /\ safe'.coins = safe.coins
  BY <1>1, <1>2 DEF Unlinked, Storage
<1>4. /\ mem'.index = mem.index /\ mem'.tip = mem.tip /\ mem'.viewBest = mem.viewBest
      /\ mem'.flush.newTip = mem.flush.newTip
  BY <1>1, <1>2 DEF Memory, Flushes
<1>5. mem.flush.newTip \in {mem.tip, mem.viewBest}
  BY <1>1 DEF Restarts
<1> QED
  BY <1>1, <1>3, <1>4, <1>5, RestartsMoves

\* pcoinsTip->Flush(): the coins on disk come to a chain that has its undo data.
LEMMA CoinsRestarts ==
    ASSUME IInv, damage = {}, damage' = {}, Restarts(mem, disk, safe), FlushCoins
    PROVE  Restarts(mem', disk', safe')
<1>1. /\ mem \in Memory /\ disk \in Storage /\ safe \in Storage /\ mem.flush.pc = "coins"
      /\ mem.tip \in Blocks /\ mem.viewBest \in Blocks
      /\ disk.coins.best \in Blocks /\ safe.coins.best \in Blocks
  BY DEF IInv, TypeOK, Memory, Storage, FlushCoins
<1>2. \A b \in Blocks : mem.index[b] = disk.db.index[b]
  BY <1>1 DEF IInv, InMemory, MemIndex, MemFlush
<1>3. \A b \in Blocks : /\ HasData(disk.db.index, b) <=> HasData(mem.index, b)
                        /\ HasUndo(disk.db.index, b) <=> HasUndo(mem.index, b)
  BY <1>2 DEF HasData, HasUndo, Known
<1>4. CASE /\ disk' = [disk EXCEPT !.coins = [applied |-> mem.view, best |-> mem.viewBest]]
           /\ \E c \in {safe.coins, disk.coins} : safe' = [safe EXCEPT !.coins = c]
           /\ FlushSucceeds(mem)
  <2>1. disk'.db = disk.db /\ disk'.coins.best = mem.viewBest
    BY <1>1, <1>4 DEF Storage
  <2>2. safe'.coins.best \in {safe.coins.best, disk.coins.best}
    BY <1>1, <1>4 DEF Storage
  <2>3. /\ ChainTo[mem.viewBest] \subseteq Blocks /\ ChainTo[disk.coins.best] \subseteq Blocks
        /\ ChainTo[safe.coins.best] \subseteq Blocks /\ mem.viewBest \in ChainTo[mem.viewBest]
    BY <1>1, Chains, ChainHeights
  <2>4. /\ \A b \in ChainTo[mem.viewBest] : b \in ChainTo[mem.tip] \/ (b = mem.viewBest /\ HasData(mem.index, b))
        /\ \A b \in ChainTo[mem.tip] : ~HasData(mem.index, b) => b \in ChainTo[mem.viewBest]
    <3>1. CASE mem.viewBest = mem.tip
      BY <3>1
    <3>2. CASE mem.viewBest # Genesis /\ Parent[mem.viewBest] = mem.tip /\ HasData(mem.index, mem.viewBest)
      <4>1. ChainTo[mem.viewBest] = ChainTo[mem.tip] \cup {mem.viewBest}
        BY <1>1, <3>2, Chains
      <4> QED
        BY <3>2, <4>1
    <3>3. CASE mem.tip # Genesis /\ mem.viewBest = Parent[mem.tip] /\ HasData(mem.index, mem.tip)
      <4>1. ChainTo[mem.tip] = ChainTo[mem.viewBest] \cup {mem.tip}
        BY <1>1, <3>3, Chains
      <4> QED
        BY <3>3, <4>1
    <3> QED
      BY <3>1, <3>2, <3>3 DEF Restarts, OneApart
  <2>5. \A b \in ChainTo[safe'.coins.best] :
          ~HasData(disk.db.index, b) => b \in ChainTo[mem.tip] /\ ~HasData(mem.index, b)
    BY <2>2 DEF Restarts
  <2>6. \A b \in (ChainTo[disk'.coins.best] \cup ChainTo[safe'.coins.best]) \ {Genesis} :
          HasData(disk'.db.index, b) => HasUndo(disk'.db.index, b)
    <3>1. \A b \in ChainTo[mem.viewBest] \ {Genesis} : HasData(disk.db.index, b) => HasUndo(disk.db.index, b)
      BY <1>3, <2>3, <2>4 DEF Restarts
    <3>2. \A b \in ChainTo[safe'.coins.best] \ {Genesis} : HasData(disk.db.index, b) => HasUndo(disk.db.index, b)
      BY <2>2 DEF Restarts
    <3> QED
      BY <2>1, <3>1, <3>2
  <2>7. \A b \in ChainTo[disk'.coins.best] :
          ~HasData(disk'.db.index, b) => b \in ChainTo[mem.tip] /\ ~HasData(mem.index, b)
    BY <1>3, <2>1, <2>3, <2>4
  <2>8. \A b \in ChainTo[safe'.coins.best] : ~HasData(disk'.db.index, b) => b \in ChainTo[disk'.coins.best]
    BY <2>1, <2>4, <2>5
  <2>9. Restarts(mem, disk', safe')
    BY <2>6, <2>7, <2>8 DEF Restarts
  <2>10. disk' \in Storage
    BY FlushCoinsIInv DEF IInv, TypeOK
  <2> QED
    BY <1>1, <1>4, <2>9, <2>10, RestartsSucceeds
<1>5. CASE UNCHANGED <<disk, safe>> /\ FlushFails(mem)
  BY <1>1, <1>5, RestartsFails
<1> QED
  BY <1>4, <1>5 DEF FlushCoins

\* Whichever coins survive, those on disk before or after the last batch.
LEMMA CrashRestarts ==
    ASSUME IInv, Restarts(mem, disk, safe), Killed \/ AssertionFails \/ PowerFails
    PROVE  Restarts(mem', disk', safe')
<1>1. disk \in Storage /\ safe \in Storage /\ disk.coins.best \in Blocks /\ safe.coins.best \in Blocks
  BY DEF IInv, TypeOK, Storage
<1>2. CASE Killed \/ AssertionFails
  BY SMTT(60), <1>1, <1>2, RestartsLoaded DEF Killed, AssertionFails
<1>3. CASE PowerFails
  <2>1. PICK lost \in SUBSET Uncommitted, rev \in SUBSET (disk.rev \ safe.rev),
             pruned \in {disk.pruned, safe.pruned}, coins \in {disk.coins, safe.coins} :
          /\ disk' = Survivor(lost, rev, pruned, coins)
          /\ safe' = disk' /\ mem' = Loaded(Survivor(lost, rev, pruned, coins))
    BY <1>3 DEF PowerFails
  <2>2. PICK d : d = Survivor(lost, rev, pruned, coins) /\ disk' = d /\ safe' = d /\ mem' = Loaded(d)
    BY <2>1
  <2>3. d.db = disk.db /\ d.coins = coins
    BY <1>1, <2>2 DEF Survivor, Storage
  <2> QED
    BY <1>1, <2>2, <2>3, RestartsLoaded
<1> QED
  BY <1>2, <1>3

\* VerifyDB and LoadBlockIndexDB find what they look for.
LEMMA StartFinds ==
    ASSUME IInv, damage = {}, Restarts(mem, disk, safe)
    PROVE  StartsUp(disk)
<1>1. disk \in Storage /\ disk.coins.best \in Blocks /\ ChainTo[disk.coins.best] \subseteq Blocks
  BY Chains DEF IInv, TypeOK, Storage
<1>2. FilesPresent(disk)
  <2> SUFFICES ASSUME NEW b \in Blocks, HasData(disk.db.index, b)
               PROVE  \E p \in Positions : disk.blk[FileOf(disk.db.index, b)][p] # None
    BY DEF FilesPresent, FileOf, PosOf, SizeOf, HighOf
  <2>1. PosOf(disk.db.index, b) \in Positions /\ b # None
    BY <1>1, StorageTypes, NoneAssumption DEF HasData
  <2>2. disk.blk[FileOf(disk.db.index, b)][PosOf(disk.db.index, b)] = b
    BY DEF IInv, OnDisk, DiskData, At, FileOf, PosOf, SizeOf, HighOf
  <2> QED
    BY <2>1, <2>2
<1>3. Known(disk.db.index, disk.coins.best)
  BY DEF IInv, OnDisk, DiskIndex
<1>4. ASSUME NEW b \in CheckedBlocks(disk) PROVE Verified(b, disk)
  <2>1. b \in ChainTo[disk.coins.best] \ {Genesis} /\ b \in Blocks
    BY <1>1 DEF CheckedBlocks
  <2>2. HasData(disk.db.index, b)
    <3>1. nHeight[b] >= nHeight[b]
      BY SMTT(60), <2>1, Heights
    <3> QED
      BY <2>1, <3>1 DEF CheckedBlocks
  <2>3. HasUndo(disk.db.index, b)
    BY <2>1, <2>2 DEF Restarts
  <2>4. At(disk, b, disk.db.index[b]) /\ Noted(disk, b, disk.db.index[b])
    BY <2>1, <2>2, <2>3 DEF IInv, OnDisk, DiskData, DiskUndo
  <2>5. b \in disk.coins.applied
    BY <2>1 DEF IInv, OnDisk, DiskCoins
  <2> QED
    BY <2>2, <2>3, <2>4, <2>5 DEF Verified, BlockReadable, UndoReadable, At, Noted
<1> QED
  BY <1>2, <1>3, <1>4 DEF StartsUp

\* A start that is not refused.
LEMMA StartRestarts ==
    ASSUME IInv, damage = {}, Restarts(mem, disk, safe), Start
    PROVE  Restarts(mem', disk', safe') /\ phase' = "up"
<1>1. /\ StartsUp(disk) /\ phase' = "up" /\ UNCHANGED <<disk, safe>>
      /\ mem' = [Loaded(disk) EXCEPT !.fCheckForPruning = TRUE,
                                     !.flush = BeginFlush("NONE", 0, disk.coins.best, FALSE)]
  BY StartFinds DEF Start
<1>2. disk \in Storage /\ disk.coins.best \in Blocks /\ mem = Loaded(disk) /\ mem \in Memory
      /\ mem.tip = disk.coins.best /\ mem.viewBest = disk.coins.best
  BY SMTT(60), LoadedType DEF IInv, TypeOK, Storage, Start, Loaded
<1>3. PICK fl : fl = BeginFlush("NONE", 0, disk.coins.best, FALSE) /\ fl.newTip = disk.coins.best
  <2>1. BeginFlush("NONE", 0, disk.coins.best, FALSE).newTip = disk.coins.best
    BY DEF BeginFlush, NoFlush
  <2> QED
    BY <2>1
<1>4. mem' = [mem EXCEPT !.fCheckForPruning = TRUE, !.flush = fl]
  BY <1>1, <1>2, <1>3
<1>5. mem'.index = mem.index /\ mem'.tip = mem.tip /\ mem'.viewBest = mem.viewBest /\ mem'.flush = fl
  BY <1>2, <1>4 DEF Memory
<1> QED
  BY <1>1, <1>2, <1>3, <1>5, RestartsMoves

\* Every step keeps the node able to start.
LEMMA NextRestartable ==
    ASSUME 1 =< MIN_BLOCKS_TO_KEEP, MIN_BLOCKS_TO_KEEP =< nPruneAfterHeight
    PROVE  IInv /\ Restartable /\ [Next]_vars => Restartable'
<1> SUFFICES ASSUME IInv, Restartable, [Next]_vars, damage' = {}
             PROVE  Restarts(mem', disk', safe') /\ phase' # "refused"
  BY DEF Restartable, RestartsUnlessDamaged
<1>1. CASE UNCHANGED vars
  BY <1>1 DEF vars, Restartable, RestartsUnlessDamaged
<1>2. CASE Next
  <2>1. damage = {}
    <3>1. \A b \in Blocks : AcceptBlock(b) \/ ConnectTip(b) => damage \subseteq damage'
      BY DEF AcceptBlock, ConnectTip
    <3>2. DisconnectTip \/ CallFlush \/ Shutdown \/ (\E h \in 1 .. Cardinality(Blocks) : PruneBlockchain(h))
            => damage \subseteq damage'
      BY DEF DisconnectTip, CallFlush, Shutdown, PruneBlockchain
    <3>3. FlushBegins \/ FlushFiles \/ FlushIndex \/ FlushUnlink \/ FlushCoins => damage \subseteq damage'
      BY DEF FlushBegins, FlushFiles, FlushIndex, FlushUnlink, FlushCoins
    <3>4. Killed \/ AssertionFails \/ PowerFails \/ Start => damage \subseteq damage'
      BY DEF Killed, AssertionFails, PowerFails, Start
    <3> QED
      BY <1>2, <3>1, <3>2, <3>3, <3>4 DEF Next
  <2>2. Restarts(mem, disk, safe) /\ phase # "refused"
    BY <2>1 DEF Restartable, RestartsUnlessDamaged
  <2>3. CASE \E b \in Blocks : AcceptBlock(b) \/ ConnectTip(b)
    <3>1. PICK b \in Blocks : AcceptBlock(b) \/ ConnectTip(b)
      BY <2>3
    <3>2. phase' = phase
      BY <3>1 DEF AcceptBlock, ConnectTip
    <3> QED
      BY <2>2, <3>1, <3>2, AcceptRestarts, ConnectRestarts
  <2>4. CASE DisconnectTip \/ CallFlush \/ Shutdown \/ \E h \in 1 .. Cardinality(Blocks) : PruneBlockchain(h)
    <3>1. phase' = phase
      BY <2>4 DEF DisconnectTip, CallFlush, Shutdown, PruneBlockchain
    <3> QED
      BY <2>2, <2>4, <3>1, DisconnectRestarts, CallRestarts
  <2>5. CASE FlushBegins \/ FlushFiles \/ FlushIndex \/ FlushUnlink \/ FlushCoins
    <3>1. phase' \in {phase, "down"}
      BY <2>5 DEF FlushBegins, FlushFiles, FlushIndex, FlushUnlink, FlushCoins, FlushSucceeds, FlushFails, Return
    <3>2. Restarts(mem', disk', safe')
      BY <2>1, <2>2, <2>5, BeginsRestarts, FilesRestarts, IndexRestarts, UnlinkRestarts, CoinsRestarts
    <3> QED
      BY <2>2, <3>1, <3>2
  <2>6. CASE Killed \/ AssertionFails \/ PowerFails
    <3>1. phase' = "down"
      BY <2>6 DEF Killed, AssertionFails, PowerFails
    <3> QED
      BY <2>2, <2>6, <3>1, CrashRestarts
  <2>7. CASE Start
    BY <2>1, <2>2, <2>7, StartRestarts
  <2> QED
    BY <1>2, <2>3, <2>4, <2>5, <2>6, <2>7 DEF Next
<1> QED
  BY <1>1, <1>2

\* RestartsUnlessDamaged: after any crash LoadBlockIndexDB and VerifyDB find what they
\* look for, where pruning leaves the tip alone.
THEOREM NodeRestarts ==
    ASSUME 1 =< MIN_BLOCKS_TO_KEEP, MIN_BLOCKS_TO_KEEP =< nPruneAfterHeight
    PROVE  Spec => []RestartsUnlessDamaged
<1>1. Init => Restartable
  BY InitRestarts DEF Init, Restartable, RestartsUnlessDamaged
<1>2. IInv /\ Restartable /\ [Next]_vars => Restartable'
  BY NextRestartable
<1>3. Restartable => RestartsUnlessDamaged
  BY DEF Restartable
<1> QED
  BY <1>1, <1>2, <1>3, SpecIInv, PTL DEF Spec
=============================================================================
