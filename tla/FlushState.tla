----------------------------- MODULE FlushState -----------------------------
(***************************************************************************)
(* What the node keeps on disk and in which order it is written: blocks    *)
(* and undo data in numbered files, the block index with the sizes of the  *)
(* files in one database, the coins in another.  FlushStateToDisk writes   *)
(* them one after the other; the process may be killed, or the power fail, *)
(* between any two of its steps, and each of the writes may be refused.    *)
(*                                                                         *)
(* A block is stored as one unit of file size.  The coins are the set of   *)
(* the blocks that were applied to them.                                   *)
(***************************************************************************)
EXTENDS Integers, FiniteSets, FiniteSetsExt

CONSTANTS
    Blocks, Genesis, Parent,      \* the tree of blocks
    LastFile,                     \* bound: files 0 .. LastFile
    BlocksPerFile,                \* MAX_BLOCKFILE_SIZE
    MIN_BLOCKS_TO_KEEP, nPruneAfterHeight,
    UINT_MAX,                     \* of the unsigned int that heights are compared in
    nCheckDepth,                  \* -checkblocks
    MaxTroubles,                  \* bound on refused writes and crashes together
    None

ASSUME FileAssumption == BlocksPerFile \in Nat \ {0} /\ LastFile \in Nat
ASSUME BoundAssumption == {MIN_BLOCKS_TO_KEEP, nPruneAfterHeight, UINT_MAX, nCheckDepth, MaxTroubles} \subseteq Nat
ASSUME TreeAssumption ==
    /\ IsFiniteSet(Blocks) /\ Genesis \in Blocks /\ Parent \in [Blocks \ {Genesis} -> Blocks]
    /\ \A S \in SUBSET (Blocks \ {Genesis}) : S # {} => \E b \in S : Parent[b] \notin S

Files == 0 .. LastFile
Positions == 0 .. BlocksPerFile - 1

nHeight[b \in Blocks] == IF b = Genesis THEN 0 ELSE nHeight[Parent[b]] + 1
ChainTo[b \in Blocks] == IF b = Genesis THEN {b} ELSE ChainTo[Parent[b]] \cup {b}

VARIABLES
    mem,      \* the process's memory
    disk,     \* the files and databases as the process sees them
    safe,     \* what of them survives a power failure for certain
    phase,    \* "up", "down", or "refused": the start-up reported corruption
    troubles, \* how many writes were refused or crashes happened
    damage    \* history: what went wrong that the node does not repair

vars == <<mem, disk, safe, phase, troubles, damage>>

(* mem: index[b] is the block's entry or None; flush is the progress of the
   call of FlushStateToDisk under cs_main and what its caller does after it. *)
Entries == [nFile : Files, nPos : Positions, data : BOOLEAN, undo : BOOLEAN]
FileInfos == [nSize : 0 .. BlocksPerFile, nHeightLast : Nat]
ASSUME NoneAssumption == None \notin Entries \cup Blocks
EmptyInfo == [nSize |-> 0, nHeightLast |-> 0]

Modes == {"NONE", "IF_NEEDED", "PERIODIC", "ALWAYS"}
NoFlush == [pc |-> "none", mode |-> "NONE", manual |-> 0, full |-> FALSE, prune |-> {}, newTip |-> Genesis, exit |-> FALSE]
BeginFlush(mode, manual, newTip, exit) ==
    [NoFlush EXCEPT !.pc = "begin", !.mode = mode, !.manual = manual, !.newTip = newTip, !.exit = exit]

Flushes == [pc : {"none", "begin", "files", "index", "coins"}, mode : Modes, manual : Nat,
            full : BOOLEAN, prune : SUBSET Files, newTip : Blocks, exit : BOOLEAN]

Memory == [index : [Blocks -> Entries \cup {None}], vinfo : [Files -> FileInfos],
           nLastBlockFile : Files, dirtyBlocks : SUBSET Blocks, dirtyFiles : SUBSET Files,
           tip : Blocks, viewBest : Blocks, view : SUBSET Blocks,
           fCheckForPruning : BOOLEAN, fHavePruned : BOOLEAN, aborting : BOOLEAN,
           flush : Flushes]

Storage == [blk : [Files -> [Positions -> Blocks \cup {None}]], rev : SUBSET (Files \X Blocks),
            db : [index : [Blocks -> Entries \cup {None}], vinfo : [Files -> FileInfos], last : Files],
            pruned : BOOLEAN, coins : [applied : SUBSET Blocks, best : Blocks]]

TypeOK ==
    /\ mem \in Memory /\ disk \in Storage /\ safe \in Storage
    /\ phase \in {"up", "down", "refused"}
    /\ troubles \in 0 .. MaxTroubles
    /\ damage \subseteq {"block", "undo", "index", "coins", "pruned"}

\* The databases as InitBlockIndex leaves them: genesis stored and flushed.
Fresh ==
    LET entry == [nFile |-> 0, nPos |-> 0, data |-> TRUE, undo |-> FALSE]
    IN  [blk |-> [f \in Files |-> [p \in Positions |-> IF f = 0 /\ p = 0 THEN Genesis ELSE None]],
         rev |-> {},
         db |-> [index |-> [b \in Blocks |-> IF b = Genesis THEN entry ELSE None],
                 vinfo |-> [f \in Files |-> IF f = 0 THEN [nSize |-> 1, nHeightLast |-> 0] ELSE EmptyInfo],
                 last |-> 0],
         pruned |-> FALSE,
         coins |-> [applied |-> {Genesis}, best |-> Genesis]]

\* What LoadBlockIndexDB builds from the databases.
Loaded(d) ==
    [index |-> d.db.index, vinfo |-> d.db.vinfo, nLastBlockFile |-> d.db.last,
     dirtyBlocks |-> {}, dirtyFiles |-> {},
     tip |-> d.coins.best, viewBest |-> d.coins.best, view |-> d.coins.applied,
     fCheckForPruning |-> FALSE, fHavePruned |-> d.pruned, aborting |-> FALSE,
     flush |-> NoFlush]

Init ==
    /\ disk = Fresh /\ safe = Fresh /\ mem = Loaded(Fresh)
    /\ phase = "up" /\ troubles = 0 /\ damage = {}

----------------------------------------------------------------------------
(* Blocks arrive and are connected *)

\* cs_main is free.
Idle == phase = "up" /\ mem.flush.pc = "none"

Known(index, b) == index[b] # None
HasData(index, b) == Known(index, b) /\ index[b].data
HasUndo(index, b) == Known(index, b) /\ index[b].undo

\* ReadBlockFromDisk compares the hash; UndoReadFromDisk a checksum.
BlockReadable(index, b, d) == HasData(index, b) /\ d.blk[index[b].nFile][index[b].nPos] = b
UndoReadable(index, b, d) == HasUndo(index, b) /\ <<index[b].nFile, b>> \in d.rev

\* FileCommit of the last block file and of its undo file.
RevOf(f, d) == {r \in d.rev : r[1] = f}
BlocksOnly(f, s) == [s EXCEPT !.blk[f] = disk.blk[f]]
FlushBlockFile(f, s) == [s EXCEPT !.blk[f] = disk.blk[f], !.rev = @ \cup RevOf(f, disk)]

\* A write is refused, or the process ends at an unforeseen moment.
Trouble == troubles < MaxTroubles /\ troubles' = troubles + 1

\* Files are tried, and unlinked, in the order of their numbers.
Lowest(files) == {f \in files : \A g \in files : f <= g}

\* FindBlockPos: the first file from the last one on with room.
FilesWithRoom == {f \in mem.nLastBlockFile .. LastFile : mem.vinfo[f].nSize < BlocksPerFile}

\* vinfoBlockFile[nFile].AddBlock and nSize.
SizeForgotten(info, h) == [info EXCEPT !.nHeightLast = Max({@, h})]
AddBlock(info, h) == [nSize |-> info.nSize + 1, nHeightLast |-> Max({info.nHeightLast, h})]

\* What FindBlockPos leaves in memory; it asks for pruning when it allocates.
BlockPosFound(b, f, allocates) ==
    [mem EXCEPT !.vinfo[f] = AddBlock(@, nHeight[b]), !.nLastBlockFile = f,
                !.dirtyFiles = @ \cup {f}, !.fCheckForPruning = @ \/ allocates]

\* ReceivedBlockTransactions; AcceptBlock then flushes if asked to prune.
Received(m, b, f, p) ==
    [m EXCEPT !.index[b] = [nFile |-> f, nPos |-> p, data |-> TRUE, undo |-> FALSE],
              !.dirtyBlocks = @ \cup {b},
              !.flush = IF m.fCheckForPruning THEN BeginFlush("NONE", 0, m.tip, FALSE) ELSE NoFlush]

AcceptBlock(b) ==
    /\ Idle /\ b # Genesis /\ Known(mem.index, Parent[b])
    /\ ~HasData(mem.index, b) /\ b \notin ChainTo[mem.tip]
    /\ \E f \in Lowest(FilesWithRoom), allocates \in BOOLEAN :
       LET p == mem.vinfo[f].nSize
           found == BlockPosFound(b, f, allocates)
       IN  /\ safe' = IF f = mem.nLastBlockFile THEN safe ELSE FlushBlockFile(mem.nLastBlockFile, safe)
           /\ \/ /\ disk' = [disk EXCEPT !.blk[f][p] = b]
                 /\ mem' = Received(found, b, f, p)
                 /\ UNCHANGED <<troubles, damage>>
              \* WriteBlockToDisk returns false: AbortNode, and on.
              \/ /\ Trouble
                 /\ mem' = Received([found EXCEPT !.aborting = TRUE], b, f, p)
                 /\ damage' = damage \cup {"block"}
                 /\ UNCHANGED disk
              \* It throws: AbortNode, and AcceptBlock returns.
              \/ /\ Trouble
                 /\ mem' = [found EXCEPT !.aborting = TRUE]
                 /\ UNCHANGED <<disk, damage>>
    /\ UNCHANGED phase

\* FindMostWorkChain: a branch with data missing is no candidate.
Candidates == {c \in Blocks : \A b \in ChainTo[c] \ ChainTo[mem.tip] : HasData(mem.index, b)}
MostWork == {c \in Candidates : \A d \in Candidates : nHeight[d] <= nHeight[c]}

\* FindUndoPos, which may ask for pruning too, and what ConnectBlock notes of
\* the undo data it wrote.
NotMarkedDirty(b, allocates) ==
    [mem EXCEPT !.index[b].undo = TRUE, !.dirtyFiles = @ \cup {mem.index[b].nFile},
                !.fCheckForPruning = @ \/ allocates]
UndoWritten(b, allocates) ==
    [mem EXCEPT !.index[b].undo = TRUE,
                !.dirtyBlocks = @ \cup {b}, !.dirtyFiles = @ \cup {mem.index[b].nFile},
                !.fCheckForPruning = @ \/ allocates]

\* ConnectTip up to its call of FlushStateToDisk.  The block is read, or at
\* hand; the undo data is written unless it was before.
ConnectTip(b) ==
    /\ Idle /\ ~mem.aborting /\ b # Genesis
    /\ mem.tip \notin MostWork
    /\ Parent[b] = mem.tip /\ \E c \in MostWork : b \in ChainTo[c]
    /\ \/ /\ disk' = [disk EXCEPT !.rev = @ \cup {<<mem.index[b].nFile, b>>}]
          /\ \E allocates \in BOOLEAN :
                mem' = [UndoWritten(b, allocates) EXCEPT
                            !.view = @ \cup {b}, !.viewBest = b,
                            !.flush = BeginFlush("IF_NEEDED", 0, b, FALSE)]
          /\ ~HasUndo(mem.index, b) /\ UNCHANGED troubles
       \/ /\ HasUndo(mem.index, b)
          /\ mem' = [mem EXCEPT !.view = @ \cup {b}, !.viewBest = b,
                                !.flush = BeginFlush("IF_NEEDED", 0, b, FALSE)]
          /\ UNCHANGED <<disk, troubles>>
       \* Failed to write undo data, or to read the block.
       \/ /\ \/ ~HasUndo(mem.index, b) /\ Trouble
             \/ ~BlockReadable(mem.index, b, disk) /\ UNCHANGED troubles
          /\ mem' = [mem EXCEPT !.aborting = TRUE] /\ UNCHANGED disk
    /\ UNCHANGED <<safe, phase, damage>>

\* DisconnectTip up to its call of FlushStateToDisk, in a reorganisation.
DisconnectTip ==
    /\ Idle /\ ~mem.aborting
    /\ \E c \in MostWork : mem.tip \notin ChainTo[c] /\ nHeight[mem.tip] < nHeight[c]
    /\ mem.viewBest = mem.tip
    /\ \/ /\ BlockReadable(mem.index, mem.tip, disk) /\ UndoReadable(mem.index, mem.tip, disk)
          /\ mem.tip \in mem.view
          /\ mem' = [mem EXCEPT !.view = @ \ {mem.tip}, !.viewBest = Parent[mem.tip],
                                !.flush = BeginFlush("IF_NEEDED", 0, Parent[mem.tip], FALSE)]
       \/ /\ ~BlockReadable(mem.index, mem.tip, disk)
          /\ mem' = [mem EXCEPT !.aborting = TRUE]
    /\ UNCHANGED <<disk, safe, phase, troubles, damage>>

\* The end of ActivateBestChain, AcceptToMemoryPool, and gettxoutsetinfo.
CallFlush ==
    /\ Idle
    /\ \E mode \in {"PERIODIC", "ALWAYS"} :
          mem' = [mem EXCEPT !.flush = BeginFlush(mode, 0, mem.tip, FALSE)]
    /\ UNCHANGED <<disk, safe, phase, troubles, damage>>

\* pruneblockchain: its tests of the height, then PruneBlockFilesManual.
UInt(n) == n % (UINT_MAX + 1)
PruneBlockchain(h) ==
    /\ Idle /\ nHeight[mem.tip] >= nPruneAfterHeight /\ h <= nHeight[mem.tip]
    /\ LET most == UInt(nHeight[mem.tip] - MIN_BLOCKS_TO_KEEP)
           height == IF h > most THEN most ELSE h
       IN  /\ height > 0
           /\ mem' = [mem EXCEPT !.flush = BeginFlush("NONE", height, mem.tip, FALSE)]
    /\ UNCHANGED <<disk, safe, phase, troubles, damage>>

\* Shutdown, whoever asked for it.
Shutdown ==
    /\ Idle
    /\ mem' = [mem EXCEPT !.flush = BeginFlush("ALWAYS", 0, mem.tip, TRUE)]
    /\ UNCHANGED <<disk, safe, phase, troubles, damage>>

----------------------------------------------------------------------------
(* FlushStateToDisk *)

\* The height up to which files may go; the subtraction is unsigned.
KeepsOneLess == UInt(nHeight[mem.tip] - MIN_BLOCKS_TO_KEEP + 1)
nLastBlockWeCanPrune == UInt(nHeight[mem.tip] - MIN_BLOCKS_TO_KEEP)

Prunable(limit) ==
    {f \in 0 .. mem.nLastBlockFile - 1 : mem.vinfo[f].nSize # 0 /\ mem.vinfo[f].nHeightLast <= limit}

\* FindFilesToPruneManual; FindFilesToPrune takes the first ones until the
\* rest is small enough.
FilesToPrune ==
    LET manual == mem.flush.manual
        all == Prunable(nLastBlockWeCanPrune)
    IN  IF manual > 0 THEN {Prunable(Min({manual, nLastBlockWeCanPrune}))}
        ELSE IF mem.fCheckForPruning /\ nHeight[mem.tip] > nPruneAfterHeight
        THEN {{}} \cup {{f \in all : f <= last} : last \in all}
        ELSE {{}}

\* PruneOneBlockFile for each of them.
InFiles(S) == {b \in Blocks : Known(mem.index, b) /\ mem.index[b].nFile \in S}
Pruned(S) ==
    [mem EXCEPT !.index = [b \in Blocks |-> IF b \in InFiles(S)
                              THEN [nFile |-> 0, nPos |-> 0, data |-> FALSE, undo |-> FALSE]
                              ELSE mem.index[b]],
                !.vinfo = [f \in Files |-> IF f \in S THEN EmptyInfo ELSE mem.vinfo[f]],
                !.dirtyBlocks = @ \cup InFiles(S), !.dirtyFiles = @ \cup S,
                !.fCheckForPruning = @ /\ mem.flush.manual > 0,
                !.fHavePruned = @ \/ S # {}]

\* Whether to write nothing, the index, or the coins too (full): the sizes and
\* times that decide are open.
Extent(mode) ==
    CASE mode = "NONE" -> {"nothing"}
      [] mode = "IF_NEEDED" -> {"nothing", "full"}
      [] mode = "PERIODIC" -> {"nothing", "index", "full"}
      [] mode = "ALWAYS" -> {"full"}

\* pblocktree->WriteFlag("prunedblockfiles"), which is not synced.
WriteFlag(S) == [disk EXCEPT !.pruned = @ \/ S # {}]

\* The caller goes on: UpdateTip if the flush succeeded, or the process ends.
Return(m, newTip) ==
    IF m.flush.exit
    THEN phase' = "down" /\ mem' = Loaded(disk')
    ELSE phase' = phase /\ mem' = [m EXCEPT !.tip = newTip, !.flush = NoFlush]

TipStays(m) == m.tip
TipAfterFlush(m) == m.flush.newTip
FlushSucceeds(m) == Return(m, TipAfterFlush(m))

\* AbortNode, or state.Error after CheckDiskSpace called it.
TipAfterFailure(m) == m.tip
FlushFails(m) == Return([m EXCEPT !.aborting = TRUE], TipAfterFailure(m)) /\ Trouble

FlushBegins ==
    /\ phase = "up" /\ mem.flush.pc = "begin"
    /\ \E S \in FilesToPrune :
       \E extent \in IF S # {} THEN {"full"} ELSE Extent(mem.flush.mode) :
          /\ disk' = WriteFlag(S)
          /\ IF extent = "nothing"
             THEN FlushSucceeds(Pruned(S))
             ELSE /\ mem' = [Pruned(S) EXCEPT !.flush.prune = S, !.flush.mode = "NONE", !.flush.manual = 0,
                                              !.flush.full = extent = "full", !.flush.pc = "files"]
                  /\ UNCHANGED phase
    /\ UNCHANGED <<safe, troubles, damage>>

FlushFiles ==
    /\ phase = "up" /\ mem.flush.pc = "files"
    /\ \/ /\ safe' = FlushBlockFile(mem.nLastBlockFile, safe)
          /\ mem' = [mem EXCEPT !.flush.pc = "index"]
          /\ UNCHANGED <<phase, troubles>>
       \/ UNCHANGED <<disk, safe>> /\ FlushFails(mem)
    /\ UNCHANGED <<disk, damage>>

\* CBlockTreeDB::WriteBatchSync.  The dirty sets are emptied before.
Clean == [mem EXCEPT !.dirtyBlocks = {}, !.dirtyFiles = {}]
BatchedInfo == [f \in Files |-> IF f \in mem.dirtyFiles THEN mem.vinfo[f] ELSE disk.db.vinfo[f]]
FileInfosOnly == [index |-> disk.db.index, vinfo |-> BatchedInfo, last |-> mem.nLastBlockFile]
Batch ==
    [index |-> [b \in Blocks |-> IF b \in mem.dirtyBlocks THEN mem.index[b] ELSE disk.db.index[b]],
     vinfo |-> BatchedInfo, last |-> mem.nLastBlockFile]

\* The undo data goes of a block that coins on disk were built on, and that the
\* active chain, or newer coins, have left.
StaleCoinsPruned ==
    \E b \in Blocks :
        /\ HasUndo(disk.db.index, b) /\ ~HasUndo(Batch.index, b)
        /\ \/ b \in ChainTo[disk.coins.best] \ ChainTo[mem.tip]
           \/ b \in ChainTo[safe.coins.best] \ (ChainTo[disk.coins.best] \cap ChainTo[mem.tip])

FlushIndex ==
    /\ phase = "up" /\ mem.flush.pc = "index"
    /\ \/ /\ disk' = [disk EXCEPT !.db = Batch]
          /\ safe' = [safe EXCEPT !.db = Batch, !.pruned = disk.pruned]
          /\ IF mem.flush.full
             THEN mem' = [Clean EXCEPT !.flush.pc = "coins"] /\ UNCHANGED phase
             ELSE FlushSucceeds(Clean)
          /\ damage' = IF StaleCoinsPruned THEN damage \cup {"pruned"} ELSE damage
          /\ UNCHANGED troubles
       \/ /\ UNCHANGED <<disk, safe>> /\ FlushFails(Clean)
          /\ damage' = damage \cup {"index"}

\* UnlinkPrunedFiles, one file after the other.
Unlinked(f, d) ==
    [d EXCEPT !.blk[f] = [p \in Positions |-> None], !.rev = @ \ RevOf(f, d)]

FlushUnlink ==
    /\ phase = "up" /\ mem.flush.pc = "coins"
    /\ \E f \in Lowest(mem.flush.prune) :
          /\ disk' = Unlinked(f, disk) /\ safe' = Unlinked(f, safe)
          /\ mem' = [mem EXCEPT !.flush.prune = @ \ {f}]
    /\ UNCHANGED <<phase, troubles, damage>>

\* pcoinsTip->Flush(): one batch, not synced; an earlier one may have reached
\* the disk.  When it throws, the cache is empty already.
FlushCoins ==
    /\ phase = "up" /\ mem.flush.pc = "coins" /\ mem.flush.prune = {}
    /\ \/ /\ disk' = [disk EXCEPT !.coins = [applied |-> mem.view, best |-> mem.viewBest]]
          /\ \E c \in {safe.coins, disk.coins} : safe' = [safe EXCEPT !.coins = c]
          /\ FlushSucceeds(mem)
          /\ UNCHANGED <<troubles, damage>>
       \/ UNCHANGED <<disk, safe, damage>> /\ FlushFails(mem)
       \/ /\ UNCHANGED <<disk, safe>> /\ FlushFails([mem EXCEPT !.view = disk.coins.applied])
          /\ damage' = damage \cup {"coins"}

----------------------------------------------------------------------------
(* Crashes and starts *)

\* The process is killed, or an assertion ends it.
Killed ==
    /\ phase = "up" /\ Trouble
    /\ phase' = "down" /\ mem' = Loaded(disk)
    /\ UNCHANGED <<disk, safe, damage>>

\* ConnectBlock and DisconnectBlock assert that the coins are at the tip: a
\* template that is tested, or invalidateblock, finds them elsewhere.
AssertionFails ==
    /\ Idle /\ mem.viewBest # mem.tip
    /\ phase' = "down" /\ mem' = Loaded(disk)
    /\ UNCHANGED <<disk, safe, troubles, damage>>

\* Whatever was not committed is lost or not, block by block.
Uncommitted == {x \in Files \X Positions : disk.blk[x[1]][x[2]] # safe.blk[x[1]][x[2]]}
Without(lost) ==
    [f \in Files |-> [p \in Positions |-> IF <<f, p>> \in lost THEN safe.blk[f][p] ELSE disk.blk[f][p]]]
Survivor(lost, rev, pruned, coins) ==
    [disk EXCEPT !.blk = Without(lost), !.rev = safe.rev \cup rev, !.pruned = pruned, !.coins = coins]

UndoLost(d) == \E b \in Blocks : HasUndo(d.db.index, b) /\ ~UndoReadable(d.db.index, b, d)

PowerFails ==
    /\ phase = "up" /\ Trouble
    /\ \E lost \in SUBSET Uncommitted, rev \in SUBSET (disk.rev \ safe.rev),
          pruned \in {disk.pruned, safe.pruned}, coins \in {disk.coins, safe.coins} :
       LET d == Survivor(lost, rev, pruned, coins)
       IN /\ disk' = d /\ safe' = d /\ mem' = Loaded(d)
          /\ damage' = IF UndoLost(d) THEN damage \cup {"undo"} ELSE damage
    /\ phase' = "down"

\* LoadBlockIndexDB opens every file that the index has data in.
FilesPresent(d) ==
    \A b \in Blocks : HasData(d.db.index, b) => \E p \in Positions : d.blk[d.db.index[b].nFile][p] # None

\* VerifyDB looks at the blocks below the tip as far as nCheckDepth and their
\* data reach, and disconnects them in memory.
Verified(b, d) ==
    BlockReadable(d.db.index, b, d) /\ UndoReadable(d.db.index, b, d) /\ b \in d.coins.applied
CheckedBlocks(d) ==
    {b \in ChainTo[d.coins.best] \ {Genesis} :
        /\ nHeight[b] >= nHeight[d.coins.best] - nCheckDepth
        /\ \A c \in ChainTo[d.coins.best] : nHeight[c] >= nHeight[b] => HasData(d.db.index, c)}
StartsUp(d) ==
    /\ FilesPresent(d)
    /\ Known(d.db.index, d.coins.best)
    /\ \A b \in CheckedBlocks(d) : Verified(b, d)

\* A start with fPruneMode, which ends with PruneAndFlush.
Start ==
    /\ phase = "down"
    /\ IF StartsUp(disk)
       THEN /\ phase' = "up"
            /\ mem' = [Loaded(disk) EXCEPT !.fCheckForPruning = TRUE,
                                           !.flush = BeginFlush("NONE", 0, disk.coins.best, FALSE)]
       ELSE phase' = "refused" /\ UNCHANGED mem
    /\ UNCHANGED <<disk, safe, troubles, damage>>

Next ==
    \/ \E b \in Blocks : AcceptBlock(b) \/ ConnectTip(b)
    \/ DisconnectTip \/ CallFlush \/ Shutdown
    \/ \E h \in 1 .. Cardinality(Blocks) : PruneBlockchain(h)
    \/ FlushBegins \/ FlushFiles \/ FlushIndex \/ FlushUnlink \/ FlushCoins
    \/ Killed \/ AssertionFails \/ PowerFails \/ Start

Spec == Init /\ [][Next]_vars

----------------------------------------------------------------------------
\* "full block available in blk*.dat": at every moment, were the power to fail,
\* each block that the index on disk has data of is at its place in its file,
\* though files are switched, pruned and written again after crashes.  The one
\* exception is a block whose write was refused.
DataSafe ==
    /\ TypeOK
    /\ \/ "block" \in damage
       \/ \A b \in Blocks : HasData(safe.db.index, b) => BlockReadable(safe.db.index, b, safe)

\* The undo data that the index on disk speaks of would survive a power failure,
\* unless it belongs to an earlier file than the one being written.
UndoSafe ==
    \/ "undo" \in damage
    \/ \A b \in Blocks :
          HasUndo(safe.db.index, b) /\ ~UndoReadable(safe.db.index, b, safe)
             => safe.db.index[b].nFile < safe.db.last

\* "Flush the chainstate (which may refer to block index entries)": the coins on
\* disk are those of exactly one chain, and the index on disk has all of it.
CoinsInIndex ==
    \A d \in {disk, safe} :
        /\ "coins" \in damage \/ d.coins.applied = ChainTo[d.coins.best]
        /\ "index" \in damage \/ \A b \in ChainTo[d.coins.best] : Known(d.db.index, b)

\* "Block files containing a block-height within MIN_BLOCKS_TO_KEEP of
\* chainActive.Tip() will not be pruned": the blocks that a prune takes the data
\* of are all deeper than that, whatever branch they are on.
KeepsRecent ==
    [][\A b \in Blocks :
          phase = "up" /\ phase' = "up" /\ HasData(mem.index, b) /\ ~HasData(mem'.index, b)
             => nHeight[b] + MIN_BLOCKS_TO_KEEP <= nHeight[mem.tip]]_vars

\* Whenever cs_main is free the coins are those of the active tip, as ConnectBlock
\* and DisconnectBlock assert; only a failed flush leaves them apart.
CoinsAtTip ==
    Idle /\ ~mem.aborting =>
        mem.viewBest = mem.tip /\ ("coins" \in damage \/ mem.view = ChainTo[mem.tip])

\* A start after any crash succeeds, except after a write was refused or undo
\* data of an earlier file was lost.
RestartsUnlessDamaged == phase = "refused" => damage # {}

----------------------------------------------------------------------------
(* Stated by the code, and not so: see README.md, Disagreements. *)

\* chain.h, BLOCK_UNDO_EXISTS: "undo data available in rev*.dat", and "First make
\* sure all block and undo data is flushed to disk" before the index is written.
UndoFlushedFirst ==
    \A b \in Blocks : HasUndo(safe.db.index, b) => UndoReadable(safe.db.index, b, safe)

\* chain.h, BLOCK_DATA_EXISTS: "full block available in blk*.dat".
DataExists ==
    \A b \in Blocks : HasData(disk.db.index, b) => BlockReadable(disk.db.index, b, disk)

\* coins.h: the best block is "the block hash whose state this CoinsView currently
\* represents".
BestBlockIsHonest == disk.coins.applied = ChainTo[disk.coins.best]

\* ConnectBlock: "verify that the view's current state corresponds to the previous
\* block".
ViewCorresponds == Idle => mem.viewBest = mem.tip
=============================================================================
