-------------------------- MODULE FlushStateProofs --------------------------
(***************************************************************************)
(* What is on disk at every moment, for every tree of blocks, file size    *)
(* and number of crashes.  The inductive invariant IInv says how the files *)
(* and the two databases agree (OnDisk), and how the memory of the running *)
(* process may be ahead of them (InMemory): where the next batch of index  *)
(* entries may point, and which of the files it points into are committed. *)
(***************************************************************************)
EXTENDS FlushState, TLAPS

\* The provers may take a minute; Zenon is the one to try where a leaf names none.
USE ZenonT(60)

\* The file and the place that a block index has for block b; the blocks that the
\* file info of file f counts, and the highest of them.
FileOf(index, b) == index[b].nFile
PosOf(index, b) == index[b].nPos
SizeOf(vinfo, f) == vinfo[f].nSize
HighOf(vinfo, f) == vinfo[f].nHeightLast

\* What a block index says of the files: blocks with data have a place of their own
\* among the ones the file info counts, and it knows the highest of them.
Located(index, vinfo, last) ==
    /\ \A b \in Blocks : HasData(index, b) =>
          /\ PosOf(index, b) < SizeOf(vinfo, FileOf(index, b))
          /\ nHeight[b] =< HighOf(vinfo, FileOf(index, b))
    /\ \A b, c \in Blocks :
          HasData(index, b) /\ HasData(index, c)
          /\ FileOf(index, b) = FileOf(index, c) /\ PosOf(index, b) = PosOf(index, c) => b = c
    /\ \A f \in Files : f > last => SizeOf(vinfo, f) = 0
    /\ \A b \in Blocks : HasUndo(index, b) => HasData(index, b)

\* The entry e of block b is true of the files of d.
At(d, b, e) == d.blk[e.nFile][e.nPos] = b
Noted(d, b, e) == <<e.nFile, b>> \in d.rev

\* A block index has the parents of its blocks.
Closed(index) ==
    /\ Known(index, Genesis)
    /\ \A b \in Blocks \ {Genesis} : Known(index, b) => Known(index, Parent[b])

(* Of the disk d, and of what is safe of it. *)
DiskPlaces(d, s) == s.db = d.db /\ Located(d.db.index, d.db.vinfo, d.db.last)

DiskData(d, s, dmg) ==
    "block" \notin dmg => \A b \in Blocks : HasData(d.db.index, b) =>
        At(d, b, d.db.index[b]) /\ At(s, b, d.db.index[b])

DiskUndo(d, s, dmg) ==
    "undo" \notin dmg => \A b \in Blocks : HasUndo(d.db.index, b) =>
        /\ Noted(d, b, d.db.index[b])
        /\ Noted(s, b, d.db.index[b]) \/ FileOf(d.db.index, b) < d.db.last

DiskCoins(d, s, dmg) ==
    "coins" \notin dmg => /\ d.coins.applied = ChainTo[d.coins.best]
                         /\ s.coins.applied = ChainTo[s.coins.best]

DiskIndex(d, s, dmg) ==
    "index" \notin dmg => /\ Closed(d.db.index)
                         /\ Known(d.db.index, d.coins.best) /\ Known(d.db.index, s.coins.best)

OnDisk(d, s, dmg) ==
    /\ DiskPlaces(d, s) /\ DiskData(d, s, dmg) /\ DiskUndo(d, s, dmg)
    /\ DiskCoins(d, s, dmg) /\ DiskIndex(d, s, dmg)

(* Of the memory m over that disk. *)

\* A file that was pruned in memory and is still there for the index on disk.
Forgotten(m, f) == SizeOf(m.vinfo, f) = 0 /\ f < m.nLastBlockFile

MemPlaces(m, d) ==
    /\ Located(m.index, m.vinfo, m.nLastBlockFile)
    /\ d.db.last =< m.nLastBlockFile
    /\ \A f \in Files : SizeOf(d.db.vinfo, f) =< SizeOf(m.vinfo, f) \/ Forgotten(m, f)
    /\ \A b \in Blocks : HasData(d.db.index, b) =>
          \/ /\ HasData(m.index, b)
             /\ FileOf(m.index, b) = FileOf(d.db.index, b) /\ PosOf(m.index, b) = PosOf(d.db.index, b)
          \/ Forgotten(m, FileOf(d.db.index, b))

\* The next batch keeps index and file infos in step.
MemDirty(m, d) ==
    /\ \A b \in m.dirtyBlocks :
          Known(m.index, b) /\ (HasData(m.index, b) => FileOf(m.index, b) \in m.dirtyFiles)
    /\ \A b \in Blocks :
          HasData(d.db.index, b) /\ FileOf(d.db.index, b) \in m.dirtyFiles
          /\ SizeOf(m.vinfo, FileOf(d.db.index, b)) = 0 => b \in m.dirtyBlocks

\* What is being pruned is out of the index before its file is unlinked.
MemPrune(m, d) ==
    \A f \in m.flush.prune :
        /\ SizeOf(m.vinfo, f) = 0 /\ f < m.nLastBlockFile
        /\ m.flush.pc \in {"files", "index"} => f \in m.dirtyFiles
        /\ m.flush.pc = "coins" => SizeOf(d.db.vinfo, f) = 0

MemFlush(m) ==
    /\ m.flush.pc = "none" => m.flush = NoFlush
    /\ m.flush.pc = "begin" => m.flush.prune = {}
    /\ m.flush.pc = "coins" => m.dirtyBlocks = {}
    /\ m.flush.manual > 0 => m.flush.pc = "begin" /\ nHeight[m.tip] >= nPruneAfterHeight
    /\ ~m.aborting => m.viewBest = IF m.flush.pc = "none" THEN m.tip ELSE m.flush.newTip

\* Files before the last one were committed when they were left, the last one is
\* committed before the index is written.
MemData(m, d, s, dmg) ==
    "block" \notin dmg => \A b \in Blocks : HasData(m.index, b) =>
        /\ At(d, b, m.index[b])
        /\ (FileOf(m.index, b) < m.nLastBlockFile \/ m.flush.pc = "index") => At(s, b, m.index[b])

MemUndo(m, d, s, dmg) ==
    "undo" \notin dmg => \A b \in Blocks : HasUndo(m.index, b) =>
        /\ Noted(d, b, m.index[b])
        /\ m.flush.pc = "index" => Noted(s, b, m.index[b]) \/ FileOf(m.index, b) < m.nLastBlockFile

MemCoins(m, dmg) == "coins" \notin dmg => m.view = ChainTo[m.viewBest]

MemIndex(m, d, dmg) ==
    "index" \notin dmg =>
        /\ Closed(m.index) /\ Known(m.index, m.viewBest)
        /\ \A b \in Blocks : b \notin m.dirtyBlocks => m.index[b] = d.db.index[b]

InMemory(m, d, s, dmg) ==
    /\ MemPlaces(m, d) /\ MemDirty(m, d) /\ MemPrune(m, d) /\ MemFlush(m)
    /\ MemData(m, d, s, dmg) /\ MemUndo(m, d, s, dmg)
    /\ MemCoins(m, dmg) /\ MemIndex(m, d, dmg)

IInv ==
    /\ TypeOK /\ (phase # "up" => mem = Loaded(disk))
    /\ OnDisk(disk, safe, damage) /\ InMemory(mem, disk, safe, damage)

-----------------------------------------------------------------------------
(* The tree of blocks.  Induction and recursion along Parent are stated with
   sets, from the assumption that every set of blocks has one whose parent is
   not in it. *)

\* A set with genesis, and with every block whose parent it has, has all blocks.
LEMMA TreeInduction ==
    ASSUME NEW S \in SUBSET Blocks, Genesis \in S,
           \A b \in Blocks \ {Genesis} : Parent[b] \in S => b \in S
    PROVE  S = Blocks
<1> DEFINE T == Blocks \ S
<1>1. T \in SUBSET (Blocks \ {Genesis})
  OBVIOUS
<1>2. T = {}
  BY <1>1, TreeAssumption
<1> QED
  BY <1>2

\* A function on blocks may be given by its value at genesis and by what a block makes
\* of its parent's value.
LEMMA TreeRecursion ==
  ASSUME NEW X, NEW base \in X, NEW G \in [Blocks -> [X -> X]]
  PROVE  \E f \in [Blocks -> X] :
            /\ f[Genesis] = base
            /\ \A b \in Blocks \ {Genesis} : f[b] = G[b][f[Parent[b]]]
<1> DEFINE Follows(T) == /\ <<Genesis, base>> \in T
                        /\ \A b \in Blocks \ {Genesis}, x \in X : <<Parent[b], x>> \in T => <<b, G[b][x]>> \in T
           R == {p \in Blocks \X X : \A T \in SUBSET (Blocks \X X) : Follows(T) => p \in T}
<1>1. Follows(R)
  <2>1. <<Genesis, base>> \in R
    BY TreeAssumption
  <2>2. ASSUME NEW b \in Blocks \ {Genesis}, NEW x \in X, <<Parent[b], x>> \in R
        PROVE  <<b, G[b][x]>> \in R
    <3>1. <<b, G[b][x]>> \in Blocks \X X
      OBVIOUS
    <3> QED
      BY <2>2, <3>1
  <2> QED
    BY <2>1, <2>2
<1>2. \A b \in Blocks : \E x \in X : <<b, x>> \in R
  <2> DEFINE S == {b \in Blocks : ~ \E x \in X : <<b, x>> \in R}
  <2>1. Genesis \notin S
    BY <1>1
  <2>2. ASSUME NEW b \in S, Parent[b] \notin S PROVE FALSE
    <3>1. b \in Blocks \ {Genesis} /\ Parent[b] \in Blocks
      BY <2>1, TreeAssumption
    <3>2. PICK x \in X : <<Parent[b], x>> \in R
      BY <2>2, <3>1
    <3>3. <<b, G[b][x]>> \in R /\ G[b][x] \in X
      <4> HIDE DEF R
      <4> QED
        BY SMTT(60), <1>1, <3>1, <3>2
    <3> QED
      BY <3>3
  <2>3. S = {}
    <3>1. S \in SUBSET (Blocks \ {Genesis})
      BY <2>1
    <3> HIDE DEF S
    <3> QED
      BY <2>2, <3>1, TreeAssumption
  <2> QED
    BY <2>3
<1>3. \A b \in Blocks : \A x, y \in X : <<b, x>> \in R /\ <<b, y>> \in R => x = y
  <2> DEFINE S == {b \in Blocks : \E x, y \in X : <<b, x>> \in R /\ <<b, y>> \in R /\ x # y}
  <2>1. \A b \in Blocks \ {Genesis} : \A y \in X : <<b, y>> \in R => \E z \in X : <<Parent[b], z>> \in R /\ y = G[b][z]
    <3> SUFFICES ASSUME NEW b \in Blocks \ {Genesis}, NEW y \in X, <<b, y>> \in R,
                   ~ \E z \in X : <<Parent[b], z>> \in R /\ y = G[b][z]
               PROVE FALSE
      OBVIOUS
    <3> DEFINE T == R \ {<<b, y>>}
    <3>1. T \in SUBSET (Blocks \X X)
      OBVIOUS
    <3>2. Follows(T)
      BY <1>1
    <3> QED
      BY <3>1, <3>2
  <2>2. \A y \in X : <<Genesis, y>> \in R => y = base
    <3> SUFFICES ASSUME NEW y \in X, <<Genesis, y>> \in R, y # base PROVE FALSE
      OBVIOUS
    <3> DEFINE T == R \ {<<Genesis, y>>}
    <3>1. T \in SUBSET (Blocks \X X)
      OBVIOUS
    <3>2. Follows(T)
      BY <1>1
    <3> QED
      BY <3>1, <3>2
  <2> HIDE DEF R
  <2>3. Genesis \notin S
    BY <2>2
  <2>4. ASSUME NEW b \in S, Parent[b] \notin S PROVE FALSE
    <3>1. PICK x \in X, y \in X : <<b, x>> \in R /\ <<b, y>> \in R /\ x # y
      BY <2>4
    <3>2. b \in Blocks \ {Genesis} /\ Parent[b] \in Blocks
      BY <2>3, TreeAssumption
    <3>3. PICK u \in X : <<Parent[b], u>> \in R /\ x = G[b][u]
      BY <2>1, <3>1, <3>2
    <3>4. PICK v \in X : <<Parent[b], v>> \in R /\ y = G[b][v]
      BY <2>1, <3>1, <3>2
    <3>5. u = v
      BY <2>4, <3>2, <3>3, <3>4
    <3> QED
      BY <3>1, <3>3, <3>4, <3>5
  <2>5. S = {}
    <3>1. S \in SUBSET (Blocks \ {Genesis})
      BY <2>3
    <3> HIDE DEF S
    <3> QED
      BY <2>4, <3>1, TreeAssumption
  <2> QED
    BY <2>5
<1> HIDE DEF R
<1> DEFINE f == [b \in Blocks |-> CHOOSE x \in X : <<b, x>> \in R]
<1>4. \A b \in Blocks : f[b] \in X /\ <<b, f[b]>> \in R
  BY <1>2
<1>5. f \in [Blocks -> X]
  BY <1>4
<1>6. f[Genesis] = base
  BY <1>1, <1>3, <1>4, TreeAssumption
<1>7. ASSUME NEW b \in Blocks \ {Genesis} PROVE f[b] = G[b][f[Parent[b]]]
  <2> HIDE DEF f
  <2>1. Parent[b] \in Blocks /\ G[b][f[Parent[b]]] \in X
    BY SMTT(60), <1>5, TreeAssumption
  <2>2. <<b, G[b][f[Parent[b]]]>> \in R
    BY <1>1, <1>4, <2>1
  <2> QED
    BY <1>3, <1>4, <2>1, <2>2
<1> QED
  BY <1>5, <1>6, <1>7

\* CBlockIndex::nHeight grows by one from parent to block.
LEMMA Heights ==
    /\ nHeight \in [Blocks -> Nat] /\ nHeight[Genesis] = 0
    /\ \A b \in Blocks \ {Genesis} : nHeight[b] = nHeight[Parent[b]] + 1
<1>1. \E h : h = [b \in Blocks |-> IF b = Genesis THEN 0 ELSE h[Parent[b]] + 1]
  <2> DEFINE G == [b \in Blocks |-> [n \in Nat |-> n + 1]]
  <2>1. G \in [Blocks -> [Nat -> Nat]] /\ \A b \in Blocks, n \in Nat : G[b][n] = n + 1
    BY SMTT(60)
  <2> HIDE DEF G
  <2>2. PICK f \in [Blocks -> Nat] :
          f[Genesis] = 0 /\ \A b \in Blocks \ {Genesis} : f[b] = G[b][f[Parent[b]]]
    BY SMTT(60), <2>1, TreeRecursion
  <2>3. \A b \in Blocks : f[b] = IF b = Genesis THEN 0 ELSE f[Parent[b]] + 1
    BY SMTT(60), <2>1, <2>2, TreeAssumption
  <2>4. f = [b \in Blocks |-> IF b = Genesis THEN 0 ELSE f[Parent[b]] + 1]
    BY <2>2, <2>3
  <2> QED
    BY <2>4
<1>2. nHeight = [b \in Blocks |-> IF b = Genesis THEN 0 ELSE nHeight[Parent[b]] + 1]
  BY <1>1 DEF nHeight
<1>3. nHeight[Genesis] = 0 /\ \A b \in Blocks \ {Genesis} : nHeight[b] = nHeight[Parent[b]] + 1
  BY <1>2, TreeAssumption
<1>4. {b \in Blocks : nHeight[b] \in Nat} = Blocks
  <2> DEFINE S == {b \in Blocks : nHeight[b] \in Nat}
  <2>1. S \in SUBSET Blocks /\ Genesis \in S
    BY SMTT(60), <1>3, TreeAssumption
  <2>2. \A b \in Blocks \ {Genesis} : Parent[b] \in S => b \in S
    BY SMTT(60), <1>3
  <2> HIDE DEF S
  <2>3. S = Blocks
    BY <2>1, <2>2, TreeInduction
  <2> QED
    BY <2>3 DEF S
<1> QED
  BY <1>2, <1>3, <1>4

\* The chain of a block is its parent's with the block added.
LEMMA Chains ==
    /\ ChainTo \in [Blocks -> SUBSET Blocks] /\ ChainTo[Genesis] = {Genesis}
    /\ \A b \in Blocks \ {Genesis} : ChainTo[b] = ChainTo[Parent[b]] \cup {b}
<1>1. \E h : h = [b \in Blocks |-> IF b = Genesis THEN {b} ELSE h[Parent[b]] \cup {b}]
  <2>x. PICK X : X = SUBSET Blocks
    OBVIOUS
  <2> DEFINE G == [b \in Blocks |-> [c \in X |-> c \cup {b}]]
  <2>1. G \in [Blocks -> [X -> X]] /\ \A b \in Blocks, c \in X : G[b][c] = c \cup {b}
    BY <2>x
  <2> HIDE DEF G
  <2>2. PICK f \in [Blocks -> X] :
          f[Genesis] = {Genesis} /\ \A b \in Blocks \ {Genesis} : f[b] = G[b][f[Parent[b]]]
    <3>1. {Genesis} \in X
      BY <2>x, TreeAssumption
    <3> QED
      BY SMTT(60), <2>1, <3>1, TreeRecursion
  <2>3. \A b \in Blocks : f[b] = IF b = Genesis THEN {b} ELSE f[Parent[b]] \cup {b}
    BY <2>1, <2>2, TreeAssumption
  <2>4. f = [b \in Blocks |-> IF b = Genesis THEN {b} ELSE f[Parent[b]] \cup {b}]
    BY <2>2, <2>3
  <2> QED
    BY <2>4
<1>2. ChainTo = [b \in Blocks |-> IF b = Genesis THEN {b} ELSE ChainTo[Parent[b]] \cup {b}]
  BY <1>1 DEF ChainTo
<1>3. ChainTo[Genesis] = {Genesis}
      /\ \A b \in Blocks \ {Genesis} : ChainTo[b] = ChainTo[Parent[b]] \cup {b}
  BY <1>2, TreeAssumption
<1>4. {b \in Blocks : ChainTo[b] \in SUBSET Blocks} = Blocks
  <2> DEFINE S == {b \in Blocks : ChainTo[b] \in SUBSET Blocks}
  <2>1. S \in SUBSET Blocks /\ Genesis \in S
    BY <1>3, TreeAssumption
  <2>2. \A b \in Blocks \ {Genesis} : Parent[b] \in S => b \in S
    BY SMTT(60), <1>3
  <2> HIDE DEF S
  <2>3. S = Blocks
    BY <2>1, <2>2, TreeInduction
  <2> QED
    BY <2>3 DEF S
<1> QED
  BY SMTT(60), <1>2, <1>3, <1>4

\* A block comes after all others of its chain.
LEMMA ChainHeights ==
    /\ \A b \in Blocks : b \in ChainTo[b] /\ \A a \in ChainTo[b] : nHeight[a] =< nHeight[b]
    /\ \A b \in Blocks \ {Genesis} : b \notin ChainTo[Parent[b]]
<1>1. \A b \in Blocks : b \in ChainTo[b]
  BY Chains
<1>2. {b \in Blocks : \A a \in ChainTo[b] : nHeight[a] =< nHeight[b]} = Blocks
  <2> DEFINE S == {b \in Blocks : \A a \in ChainTo[b] : nHeight[a] =< nHeight[b]}
  <2>1. S \in SUBSET Blocks /\ Genesis \in S
    BY SMTT(60), Chains, Heights, TreeAssumption
  <2>2. ASSUME NEW b \in Blocks \ {Genesis}, Parent[b] \in S PROVE b \in S
    <3>1. \A a \in ChainTo[b] : a = b \/ (a \in Blocks /\ nHeight[a] =< nHeight[Parent[b]])
      BY SMTT(60), <2>2, Chains
    <3> QED
      BY SMTT(60), <2>2, <3>1, Heights, TreeAssumption
  <2> HIDE DEF S
  <2>3. S = Blocks
    BY <2>1, <2>2, TreeInduction
  <2> QED
    BY <2>3 DEF S
<1>3. ASSUME NEW b \in Blocks \ {Genesis}, b \in ChainTo[Parent[b]] PROVE FALSE
  <2>1. nHeight[b] =< nHeight[Parent[b]] /\ nHeight[Parent[b]] \in Nat
    BY <1>2, <1>3, Heights, TreeAssumption
  <2> QED
    BY SMTT(60), <2>1, Heights
<1> QED
  BY <1>1, <1>2, <1>3

\* What holds of a block and of the parent of whatever it holds of, holds of its chain.
LEMMA ChainInClosed ==
    ASSUME NEW S, \A b \in S \ {Genesis} : b \in Blocks => Parent[b] \in S
    PROVE  \A b \in Blocks : b \in S => ChainTo[b] \subseteq S
<1> DEFINE T == {b \in Blocks : b \in S => ChainTo[b] \subseteq S}
<1>1. T \in SUBSET Blocks /\ Genesis \in T
  BY Chains, TreeAssumption
<1>2. ASSUME NEW b \in Blocks \ {Genesis}, Parent[b] \in T PROVE b \in T
  BY SMTT(60), <1>2, Chains
<1> HIDE DEF T
<1>3. T = Blocks
  BY <1>1, <1>2, TreeInduction
<1> QED
  BY <1>3 DEF T

\* Every chain starts at genesis.
LEMMA GenesisFirst == \A b \in Blocks : Genesis \in ChainTo[b]
<1> DEFINE S == {b \in Blocks : Genesis \in ChainTo[b]}
<1>1. S \in SUBSET Blocks /\ Genesis \in S /\ \A b \in Blocks \ {Genesis} : Parent[b] \in S => b \in S
  BY SMTT(60), Chains, TreeAssumption
<1> HIDE DEF S
<1>2. S = Blocks
  BY <1>1, TreeInduction
<1> QED
  BY <1>2 DEF S

-----------------------------------------------------------------------------
(* Types *)

\* cs_main is free.
LEMMA NoFlushType ==
    /\ NoFlush \in Flushes /\ NoFlush.pc = "none" /\ NoFlush.manual = 0 /\ NoFlush.prune = {}
    /\ NoFlush.exit = FALSE
BY TreeAssumption DEF NoFlush, Flushes, Modes

\* A call of FlushStateToDisk, with what its caller asks for.
LEMMA BeginFlushType ==
    ASSUME NEW mode \in Modes, NEW manual \in Nat, NEW newTip \in Blocks, NEW exit \in BOOLEAN
    PROVE  LET fl == BeginFlush(mode, manual, newTip, exit)
           IN  /\ fl \in Flushes /\ fl.pc = "begin" /\ fl.mode = mode /\ fl.manual = manual
               /\ fl.prune = {} /\ fl.newTip = newTip /\ fl.exit = exit
BY NoFlushType DEF NoFlush, BeginFlush, Flushes

\* The same for the callers that go on afterwards.
LEMMA BeginFlushFalse ==
    ASSUME NEW mode \in Modes, NEW newTip \in Blocks
    PROVE  \E fl \in Flushes :
              /\ fl = BeginFlush(mode, 0, newTip, FALSE)
              /\ fl.pc = "begin" /\ fl.manual = 0 /\ ~(fl.manual > 0) /\ fl.prune = {} /\ fl.newTip = newTip
<1> DEFINE fl == BeginFlush(mode, 0, newTip, FALSE)
<1>1. /\ fl \in Flushes /\ fl.pc = "begin" /\ fl.manual = 0 /\ fl.prune = {} /\ fl.newTip = newTip
  BY DEF BeginFlush, NoFlush, Flushes
<1> HIDE DEF fl
<1>2. ~(fl.manual > 0)
  BY SMTT(60), <1>1
<1> QED
  BY <1>1, <1>2 DEF fl

\* What the entries of the index and of vinfoBlockFile are made of.
LEMMA MemoryTypes ==
    ASSUME NEW m \in Memory
    PROVE  /\ m.nLastBlockFile \in Files /\ m.nLastBlockFile \in Nat
           /\ \A f \in Files : f \in Nat /\ SizeOf(m.vinfo, f) \in Nat /\ HighOf(m.vinfo, f) \in Nat
           /\ \A b \in Blocks : Known(m.index, b) => m.index[b] \in Entries
           /\ \A b \in Blocks : Known(m.index, b) =>
                 /\ FileOf(m.index, b) \in Files /\ PosOf(m.index, b) \in Positions
                 /\ FileOf(m.index, b) \in Nat /\ PosOf(m.index, b) \in Nat
<1>1. \A f \in Files : m.vinfo[f] \in FileInfos /\ f \in Nat
  BY SMTT(60), FileAssumption DEF Memory, Files
<1>2. m.nLastBlockFile \in Files /\ \A b \in Blocks : Known(m.index, b) => m.index[b] \in Entries
  BY DEF Memory, Known
<1>3. \A e \in FileInfos : e.nSize \in Nat /\ e.nHeightLast \in Nat
  BY SMTT(60), FileAssumption DEF FileInfos
<1>4. \A e \in Entries : e.nFile \in Files /\ e.nPos \in Positions /\ e.nFile \in Nat /\ e.nPos \in Nat
  BY SMTT(60), FileAssumption DEF Entries, Files, Positions
<1> QED
  BY <1>1, <1>2, <1>3, <1>4 DEF FileOf, PosOf, SizeOf, HighOf

\* The same on disk.
LEMMA StorageTypes ==
    ASSUME NEW d \in Storage
    PROVE  /\ d.db.last \in Files /\ d.db.last \in Nat
           /\ \A f \in Files : f \in Nat /\ SizeOf(d.db.vinfo, f) \in Nat /\ HighOf(d.db.vinfo, f) \in Nat
           /\ \A b \in Blocks : Known(d.db.index, b) => d.db.index[b] \in Entries
           /\ \A b \in Blocks : Known(d.db.index, b) =>
                 /\ FileOf(d.db.index, b) \in Files /\ PosOf(d.db.index, b) \in Positions
                 /\ FileOf(d.db.index, b) \in Nat /\ PosOf(d.db.index, b) \in Nat
<1>0. d.db \in [index : [Blocks -> Entries \cup {None}], vinfo : [Files -> FileInfos], last : Files]
  BY DEF Storage
<1>1. \A f \in Files : d.db.vinfo[f] \in FileInfos /\ f \in Nat
  BY SMTT(60), <1>0, FileAssumption DEF Files
<1>2. d.db.last \in Files /\ \A b \in Blocks : Known(d.db.index, b) => d.db.index[b] \in Entries
  BY <1>0 DEF Known
<1>3. \A e \in FileInfos : e.nSize \in Nat /\ e.nHeightLast \in Nat
  BY SMTT(60), FileAssumption DEF FileInfos
<1>4. \A e \in Entries : e.nFile \in Files /\ e.nPos \in Positions /\ e.nFile \in Nat /\ e.nPos \in Nat
  BY SMTT(60), FileAssumption DEF Entries, Files, Positions
<1> QED
  BY <1>1, <1>2, <1>3, <1>4 DEF FileOf, PosOf, SizeOf, HighOf

\* LoadBlockIndexDB makes a memory of what is on disk.
LEMMA LoadedType ==
    ASSUME NEW d \in Storage
    PROVE  Loaded(d) \in Memory
BY NoFlushType DEF Loaded, Storage, Memory

\* The databases that InitBlockIndex makes.
LEMMA FreshType == Fresh \in Storage
<1> DEFINE entry == [nFile |-> 0, nPos |-> 0, data |-> TRUE, undo |-> FALSE]
<1>1. 0 \in Files /\ 0 \in Positions /\ EmptyInfo \in FileInfos /\ [nSize |-> 1, nHeightLast |-> 0] \in FileInfos
  BY SMTT(60), FileAssumption DEF Files, Positions, EmptyInfo, FileInfos
<1>2. entry \in Entries
  BY <1>1 DEF Entries
<1> HIDE DEF entry
<1>3. [b \in Blocks |-> IF b = Genesis THEN entry ELSE None] \in [Blocks -> Entries \cup {None}]
  BY <1>2
<1>4. [f \in Files |-> IF f = 0 THEN [nSize |-> 1, nHeightLast |-> 0] ELSE EmptyInfo] \in [Files -> FileInfos]
  BY <1>1
<1>5. [f \in Files |-> [p \in Positions |-> IF f = 0 /\ p = 0 THEN Genesis ELSE None]]
        \in [Files -> [Positions -> Blocks \cup {None}]]
  BY TreeAssumption
<1> QED
  BY <1>1, <1>3, <1>4, <1>5, TreeAssumption DEF Fresh, Storage, entry

-----------------------------------------------------------------------------
(* The process ends, or a call of FlushStateToDisk returns *)

\* A process that starts finds its memory in step with the disk.
LEMMA ReloadInMemory ==
    ASSUME NEW d \in Storage, NEW s \in Storage, NEW dmg, OnDisk(d, s, dmg)
    PROVE  InMemory(Loaded(d), d, s, dmg)
<1>1. /\ Loaded(d).index = d.db.index /\ Loaded(d).vinfo = d.db.vinfo
      /\ Loaded(d).nLastBlockFile = d.db.last /\ Loaded(d).dirtyBlocks = {}
      /\ Loaded(d).dirtyFiles = {} /\ Loaded(d).flush = NoFlush
      /\ Loaded(d).tip = d.coins.best /\ Loaded(d).viewBest = d.coins.best
      /\ Loaded(d).view = d.coins.applied
  BY DEF Loaded
<1>2. d.db.last \in Int /\ \A f \in Files : SizeOf(d.db.vinfo, f) \in Int
  BY SMTT(60), StorageTypes
<1>3. MemPlaces(Loaded(d), d)
  BY SMTT(60), <1>1, <1>2 DEF OnDisk, DiskPlaces, MemPlaces
<1>4. MemDirty(Loaded(d), d) /\ MemPrune(Loaded(d), d) /\ MemFlush(Loaded(d))
  BY SMTT(60), <1>1, NoFlushType DEF MemDirty, MemPrune, MemFlush
<1>5. MemData(Loaded(d), d, s, dmg) /\ MemUndo(Loaded(d), d, s, dmg)
  BY <1>1, NoFlushType DEF OnDisk, DiskData, DiskUndo, MemData, MemUndo
<1>6. MemCoins(Loaded(d), dmg) /\ MemIndex(Loaded(d), d, dmg)
  BY <1>1 DEF OnDisk, DiskCoins, DiskIndex, MemCoins, MemIndex
<1> QED
  BY <1>3, <1>4, <1>5, <1>6 DEF InMemory

SameButFlush(m, n) ==
    /\ n.index = m.index /\ n.vinfo = m.vinfo /\ n.nLastBlockFile = m.nLastBlockFile
    /\ n.dirtyBlocks = m.dirtyBlocks /\ n.dirtyFiles = m.dirtyFiles /\ n.view = m.view
    /\ n.viewBest = m.viewBest /\ n.aborting = m.aborting /\ n.tip = m.tip

\* FlushStateToDisk returns: the tip is set, or the process ends.
LEMMA ReturnIInv ==
    ASSUME NEW m \in Memory, NEW newTip \in Blocks, ~m.aborting => newTip = m.viewBest,
           disk' \in Storage, safe' \in Storage, OnDisk(disk', safe', damage'),
           NEW w, SameButFlush(w, m), InMemory(w, disk', safe', damage'),
           phase = "up", troubles' \in 0 .. MaxTroubles,
           damage' \subseteq {"block", "undo", "index", "coins", "pruned"},
           Return(m, newTip)
    PROVE  IInv'
<1>1. CASE m.flush.exit
  BY <1>1, ReloadInMemory, LoadedType DEF Return, IInv, TypeOK
<1>2. CASE ~m.flush.exit
  <2> DEFINE n == [m EXCEPT !.tip = newTip, !.flush = NoFlush]
  <2>1. mem' = n /\ phase' = "up"
    BY <1>2 DEF Return
  <2>2. n \in Memory
    <3>1. NoFlush \in Flushes
      BY NoFlushType
    <3> QED
      BY <3>1 DEF Memory
  <2>3. /\ n.index = m.index /\ n.vinfo = m.vinfo /\ n.nLastBlockFile = m.nLastBlockFile
        /\ n.dirtyBlocks = m.dirtyBlocks /\ n.dirtyFiles = m.dirtyFiles /\ n.view = m.view
        /\ n.viewBest = m.viewBest /\ n.aborting = m.aborting
        /\ n.tip = newTip /\ n.flush = NoFlush
    BY DEF Memory
  <2> HIDE DEF n
  <2>4. InMemory(n, disk', safe', damage')
    <3>1. MemPlaces(n, disk') /\ MemDirty(n, disk')
      BY <2>3 DEF InMemory, MemPlaces, MemDirty, Forgotten, SameButFlush
    <3>2. MemPrune(n, disk') /\ MemFlush(n)
      BY SMTT(60), <2>3, NoFlushType DEF MemPrune, MemFlush
    <3>3. MemData(n, disk', safe', damage') /\ MemUndo(n, disk', safe', damage')
      BY <2>3, NoFlushType DEF InMemory, MemData, MemUndo, SameButFlush
    <3>4. MemCoins(n, damage') /\ MemIndex(n, disk', damage')
      BY SMTT(60), <2>3 DEF InMemory, MemCoins, MemIndex, SameButFlush
    <3> QED
      BY <3>1, <3>2, <3>3, <3>4 DEF InMemory
  <2> QED
    BY <2>1, <2>2, <2>4 DEF IInv, TypeOK
<1> QED
  BY <1>1, <1>2 DEF Memory, Flushes

-----------------------------------------------------------------------------
(* Calls, crashes and starts keep the invariant *)

\* The new databases satisfy the invariant.
LEMMA InitIInv == Init => IInv
<1> SUFFICES ASSUME Init PROVE IInv
  OBVIOUS
<1> DEFINE entry == [nFile |-> 0, nPos |-> 0, data |-> TRUE, undo |-> FALSE]
<1>1. disk = Fresh /\ safe = Fresh /\ mem = Loaded(Fresh) /\ phase = "up" /\ troubles = 0 /\ damage = {}
  BY DEF Init
<1>2. TypeOK
  BY SMTT(60), <1>1, FreshType, LoadedType, BoundAssumption DEF TypeOK
<1>3. /\ Fresh.db.index = [b \in Blocks |-> IF b = Genesis THEN entry ELSE None]
      /\ Fresh.db.vinfo = [f \in Files |-> IF f = 0 THEN [nSize |-> 1, nHeightLast |-> 0] ELSE EmptyInfo]
      /\ Fresh.db.last = 0
      /\ Fresh.blk = [f \in Files |-> [p \in Positions |-> IF f = 0 /\ p = 0 THEN Genesis ELSE None]]
      /\ Fresh.coins = [applied |-> {Genesis}, best |-> Genesis]
  BY DEF Fresh
<1>4. 0 \in Files /\ 0 \in Positions /\ entry \in Entries
  BY SMTT(60), FileAssumption DEF Files, Positions, Entries
<1>5. /\ \A b \in Blocks : Known(Fresh.db.index, b) <=> b = Genesis
      /\ Fresh.db.index[Genesis] = entry
  BY <1>3, <1>4, NoneAssumption, TreeAssumption DEF Known
<1>6. DiskPlaces(Fresh, Fresh)
  <2>1. \A f \in Files : f > 0 => SizeOf(Fresh.db.vinfo, f) = 0
    BY SMTT(60), <1>3 DEF EmptyInfo, FileOf, PosOf, SizeOf, HighOf
  <2>2. SizeOf(Fresh.db.vinfo, 0) = 1 /\ HighOf(Fresh.db.vinfo, 0) = 0
    BY SMTT(60), <1>3, <1>4 DEF FileOf, PosOf, SizeOf, HighOf
  <2> QED
    BY SMTT(60), <1>3, <1>5, <2>1, <2>2, Heights DEF DiskPlaces, Located, HasData, HasUndo, FileOf, PosOf, SizeOf, HighOf
<1>7. DiskData(Fresh, Fresh, {}) /\ DiskUndo(Fresh, Fresh, {})
  BY SMTT(60), <1>3, <1>4, <1>5 DEF DiskData, DiskUndo, HasData, HasUndo, At
<1>8. DiskCoins(Fresh, Fresh, {}) /\ DiskIndex(Fresh, Fresh, {})
  BY SMTT(60), <1>3, <1>5, Chains, TreeAssumption DEF DiskCoins, DiskIndex, Closed
<1>9. OnDisk(Fresh, Fresh, {})
  BY <1>6, <1>7, <1>8 DEF OnDisk
<1> QED
  BY <1>1, <1>2, <1>9, FreshType, ReloadInMemory DEF IInv

\* FlushStateToDisk is called and nothing has happened yet.
LEMMA BeginInMemory ==
    ASSUME NEW m, NEW d, NEW s, NEW dmg, InMemory(m, d, s, dmg), m.flush.pc = "none",
           NEW n, SameButFlush(m, n), n.flush.pc = "begin", n.flush.prune = {}, n.flush.newTip = m.tip,
           n.flush.manual > 0 => nHeight[m.tip] >= nPruneAfterHeight
    PROVE  InMemory(n, d, s, dmg)
<1>4. MemPlaces(n, d) /\ MemDirty(n, d)
  BY DEF InMemory, MemPlaces, MemDirty, Forgotten, SameButFlush
<1>5. MemPrune(n, d) /\ MemFlush(n)
  BY DEF InMemory, MemPrune, MemFlush, SameButFlush
<1>6. MemData(n, d, s, dmg) /\ MemUndo(n, d, s, dmg)
  BY DEF InMemory, MemData, MemUndo, SameButFlush
<1>7. MemCoins(n, dmg) /\ MemIndex(n, d, dmg)
  BY DEF InMemory, MemCoins, MemIndex, SameButFlush
<1> QED
  BY <1>4, <1>5, <1>6, <1>7 DEF InMemory

\* The unsigned difference is the difference when that is not negative.
LEMMA UIntType == ASSUME NEW n \in Int PROVE UInt(n) \in Nat /\ (n >= 0 => UInt(n) =< n)
<1>1. UINT_MAX + 1 \in Nat \ {0}
  BY SMTT(60), BoundAssumption
<1> QED
  BY SMTT(60), <1>1 DEF UInt

\* ActivateBestChain, gettxoutsetinfo, Shutdown and pruneblockchain call
\* FlushStateToDisk.
LEMMA CallIInv ==
    ASSUME IInv, CallFlush \/ Shutdown \/ \E h \in 1 .. Cardinality(Blocks) : PruneBlockchain(h)
    PROVE  IInv'
<1>1. ASSUME Idle, UNCHANGED <<disk, safe, phase, troubles, damage>>,
             NEW mode \in Modes, NEW manual \in Nat, NEW exit \in BOOLEAN,
             mem' = [mem EXCEPT !.flush = BeginFlush(mode, manual, mem.tip, exit)],
             manual > 0 => nHeight[mem.tip] >= nPruneAfterHeight
      PROVE  IInv'
  <2>1. mem \in Memory /\ mem.tip \in Blocks /\ mem.flush.pc = "none" /\ phase = "up"
    BY <1>1 DEF IInv, TypeOK, Idle, Memory
  <2>2. PICK fl \in Flushes : /\ fl = BeginFlush(mode, manual, mem.tip, exit)
                              /\ fl.pc = "begin" /\ fl.manual = manual /\ fl.prune = {} /\ fl.newTip = mem.tip
    BY SMTT(60), <2>1, BeginFlushType
  <2>3. mem' \in Memory /\ InMemory(mem', disk, safe, damage)
    <3>1. mem' \in Memory /\ SameButFlush(mem, mem') /\ mem'.flush = fl
      BY <1>1, <2>1, <2>2 DEF Memory, SameButFlush
    <3> QED
      BY <1>1, <2>1, <2>2, <3>1, BeginInMemory DEF IInv
  <2> QED
    BY <1>1, <2>1, <2>3 DEF IInv, TypeOK
<1>2. {"NONE", "PERIODIC", "ALWAYS"} \subseteq Modes /\ 0 \in Nat /\ ~(0 > 0)
  BY SMTT(60) DEF Modes
<1>3. CASE CallFlush
  <2>1. PICK mode \in {"PERIODIC", "ALWAYS"} :
          mem' = [mem EXCEPT !.flush = BeginFlush(mode, 0, mem.tip, FALSE)]
    BY <1>3 DEF CallFlush
  <2>2. Idle /\ UNCHANGED <<disk, safe, phase, troubles, damage>> /\ mode \in Modes
    BY <1>2, <1>3 DEF CallFlush
  <2> QED
    BY <1>1, <1>2, <2>1, <2>2
<1>4. CASE Shutdown
  <2>1. /\ mem' = [mem EXCEPT !.flush = BeginFlush("ALWAYS", 0, mem.tip, TRUE)]
        /\ Idle /\ UNCHANGED <<disk, safe, phase, troubles, damage>> /\ "ALWAYS" \in Modes
    BY <1>2, <1>4 DEF Shutdown
  <2> QED
    BY <1>1, <1>2, <2>1
<1>5. ASSUME NEW h \in 1 .. Cardinality(Blocks), PruneBlockchain(h) PROVE IInv'
  <2>1. PICK height : /\ height \in Nat
                      /\ mem' = [mem EXCEPT !.flush = BeginFlush("NONE", height, mem.tip, FALSE)]
    <3>1. h \in Nat /\ nHeight[mem.tip] - MIN_BLOCKS_TO_KEEP \in Int
      BY SMTT(60), TreeAssumption, Heights, BoundAssumption DEF IInv, TypeOK, Memory
    <3> QED
      BY <1>5, <3>1, UIntType DEF PruneBlockchain
  <2> QED
    BY <1>1, <1>2, <1>5, <2>1 DEF PruneBlockchain
<1> QED
  BY <1>3, <1>4, <1>5

\* The process ends between two writes.
LEMMA EndIInv ==
    ASSUME IInv, Killed \/ AssertionFails
    PROVE  IInv'
<1>1. /\ UNCHANGED <<disk, safe, damage>> /\ phase' = "down" /\ mem' = Loaded(disk)
      /\ troubles' \in 0 .. MaxTroubles
  BY SMTT(60), BoundAssumption DEF Killed, AssertionFails, Trouble, IInv, TypeOK
<1> QED
  BY <1>1, ReloadInMemory, LoadedType DEF IInv, TypeOK

\* The process starts, or refuses to.
LEMMA StartIInv ==
    ASSUME IInv, Start
    PROVE  IInv'
<1>1. disk \in Storage /\ safe \in Storage /\ mem = Loaded(disk) /\ Loaded(disk) \in Memory
  BY LoadedType DEF IInv, TypeOK, Start
<1>2. CASE StartsUp(disk)
  <2>1. mem' = [Loaded(disk) EXCEPT !.fCheckForPruning = TRUE,
                                    !.flush = BeginFlush("NONE", 0, disk.coins.best, FALSE)]
    BY <1>2 DEF Start
  <2>2. InMemory(Loaded(disk), disk, safe, damage)
    BY <1>1, ReloadInMemory DEF IInv
  <2>3. Loaded(disk).flush.pc = "none" /\ Loaded(disk).tip = disk.coins.best /\ "NONE" \in Modes
        /\ 0 \in Nat /\ ~(0 > 0)
    BY SMTT(60), NoFlushType DEF Loaded, Modes
  <2>4. mem' = [Loaded(disk) EXCEPT !.fCheckForPruning = TRUE,
                                    !.flush = BeginFlush("NONE", 0, Loaded(disk).tip, FALSE)]
    BY <2>1, <2>3
  <2>5. mem' \in Memory /\ InMemory(mem', disk, safe, damage)
    <3>1. PICK m \in Memory, t \in Blocks : m = Loaded(disk) /\ t = m.tip
      BY <1>1 DEF Memory
    <3>2. PICK fl \in Flushes :
            /\ fl = BeginFlush("NONE", 0, t, FALSE)
            /\ fl.pc = "begin" /\ fl.manual = 0 /\ ~(fl.manual > 0) /\ fl.prune = {} /\ fl.newTip = t
      <4>1. "NONE" \in Modes
        BY DEF Modes
      <4> QED
        BY <4>1, BeginFlushFalse
    <3>3. mem' = [m EXCEPT !.fCheckForPruning = TRUE, !.flush = fl]
      BY <2>4, <3>1, <3>2
    <3>4. mem' \in Memory /\ SameButFlush(m, mem') /\ mem'.flush = fl
      BY <3>3 DEF Memory, SameButFlush
    <3>5. m.flush.pc = "none" /\ InMemory(m, disk, safe, damage) /\ ~(fl.manual > 0)
      BY <2>2, <2>3, <3>1, <3>2
    <3> QED
      BY <3>1, <3>2, <3>4, <3>5, BeginInMemory
  <2> QED
    BY <1>2, <2>5 DEF Start, IInv, TypeOK
<1>3. CASE ~StartsUp(disk)
  BY <1>3 DEF Start, IInv, TypeOK
<1> QED
  BY <1>2, <1>3

\* The power fails: whatever subset of the uncommitted writes survives, the index
\* on disk is still true.
LEMMA PowerFailsIInv ==
    ASSUME IInv, PowerFails
    PROVE  IInv'
<1>1. PICK lost \in SUBSET Uncommitted, rev \in SUBSET (disk.rev \ safe.rev),
           pruned \in {disk.pruned, safe.pruned}, coins \in {disk.coins, safe.coins} :
         /\ disk' = Survivor(lost, rev, pruned, coins)
         /\ safe' = disk' /\ mem' = Loaded(Survivor(lost, rev, pruned, coins))
         /\ damage' = IF UndoLost(Survivor(lost, rev, pruned, coins)) THEN damage \cup {"undo"} ELSE damage
  BY SMTT(60) DEF PowerFails
<1>d. PICK d : /\ d = Survivor(lost, rev, pruned, coins)
               /\ disk' = d /\ safe' = d /\ mem' = Loaded(d)
               /\ damage' = IF UndoLost(d) THEN damage \cup {"undo"} ELSE damage
  BY <1>1
<1>2. disk \in Storage /\ safe \in Storage
  BY DEF IInv, TypeOK
<1>3. d = [disk EXCEPT !.blk = Without(lost), !.rev = safe.rev \cup rev, !.pruned = pruned, !.coins = coins]
  BY <1>d DEF Survivor
<1>4. Without(lost) \in [Files -> [Positions -> Blocks \cup {None}]]
  BY SMTT(60), <1>2 DEF Without, Storage
<1>5. d \in Storage
  BY <1>2, <1>3, <1>4 DEF Storage
<1>6. /\ d.db = disk.db /\ d.blk = Without(lost) /\ d.rev = safe.rev \cup rev /\ d.coins = coins
  BY <1>2, <1>3 DEF Storage
<1>7. DiskPlaces(d, d)
  BY <1>6 DEF DiskPlaces, IInv, OnDisk
<1>8. DiskData(d, d, damage')
  <2> SUFFICES ASSUME "block" \notin damage, NEW b \in Blocks, HasData(disk.db.index, b)
               PROVE  At(d, b, disk.db.index[b])
    BY <1>d, <1>6 DEF DiskData
  <2>1. FileOf(disk.db.index, b) \in Files /\ PosOf(disk.db.index, b) \in Positions
    BY <1>2, StorageTypes DEF HasData
  <2>2. At(disk, b, disk.db.index[b]) /\ At(safe, b, disk.db.index[b])
    BY DEF IInv, OnDisk, DiskData
  <2> QED
    <3> DEFINE f == FileOf(disk.db.index, b)
               q == PosOf(disk.db.index, b)
    <3>1. disk.blk[f][q] = b /\ safe.blk[f][q] = b
      BY <2>2 DEF At, FileOf, PosOf
    <3> HIDE DEF f, q
    <3>2. Without(lost)[f][q] \in {disk.blk[f][q], safe.blk[f][q]}
      BY <2>1 DEF Without, f, q
    <3> QED
      BY <1>6, <3>1, <3>2 DEF At, f, q, FileOf, PosOf, SizeOf, HighOf
<1>9. DiskUndo(d, d, damage')
  <2> SUFFICES ASSUME ~UndoLost(d), NEW b \in Blocks, HasUndo(d.db.index, b)
               PROVE  Noted(d, b, d.db.index[b])
    BY <1>d DEF DiskUndo
  <2> QED
    BY DEF UndoLost, UndoReadable, Noted
<1>10. DiskCoins(d, d, damage') /\ DiskIndex(d, d, damage')
  BY <1>1, <1>d, <1>6 DEF IInv, OnDisk, DiskCoins, DiskIndex
<1>11. OnDisk(d, d, damage')
  BY <1>7, <1>8, <1>9, <1>10 DEF OnDisk
<1>12. /\ phase' = "down" /\ troubles' \in 0 .. MaxTroubles
       /\ damage' \subseteq {"block", "undo", "index", "coins", "pruned"}
  BY SMTT(60), <1>d, BoundAssumption DEF PowerFails, Trouble, IInv, TypeOK
<1> QED
  BY <1>d, <1>5, <1>11, <1>12, ReloadInMemory, LoadedType DEF IInv, TypeOK

-----------------------------------------------------------------------------
(* Blocks arrive and are connected *)

\* std::max of two heights.
LEMMA MaxOfTwo ==
    ASSUME NEW x \in Nat, NEW y \in Nat
    PROVE  Max({x, y}) \in Nat /\ x =< Max({x, y}) /\ y =< Max({x, y})
<1>1. \E z \in {x, y} : \A w \in {x, y} : z >= w
  BY SMTT(60)
<1> QED
  BY <1>1 DEF Max

\* FindBlockPos counts one more block in file f, at a place that none has, and
\* commits the file that it leaves.
FoundMem(f, n) ==
    /\ n.index = mem.index /\ n.dirtyBlocks = mem.dirtyBlocks
    /\ n.view = mem.view /\ n.viewBest = mem.viewBest /\ n.tip = mem.tip
    /\ n.flush = mem.flush /\ (mem.aborting => n.aborting)
    /\ n.nLastBlockFile = f /\ f >= mem.nLastBlockFile /\ n.dirtyFiles = mem.dirtyFiles \cup {f}
    /\ SizeOf(n.vinfo, f) = SizeOf(mem.vinfo, f) + 1
    /\ HighOf(n.vinfo, f) >= HighOf(mem.vinfo, f)
    /\ \A g \in Files \ {f} : SizeOf(n.vinfo, g) = SizeOf(mem.vinfo, g) /\ HighOf(n.vinfo, g) = HighOf(mem.vinfo, g)

FoundDisk(f, d) ==
    /\ d.db = disk.db /\ d.coins = disk.coins /\ d.rev = disk.rev
    /\ \A g \in Files, q \in Positions : g # f \/ q # SizeOf(mem.vinfo, f) => d.blk[g][q] = disk.blk[g][q]

FoundSafe(f, s) ==
    /\ s.db = safe.db /\ s.coins = safe.coins /\ safe.rev \subseteq s.rev
    /\ \A g \in Files : s.blk[g] = safe.blk[g] \/ s.blk[g] = disk.blk[g]
    /\ f # mem.nLastBlockFile => s.blk[mem.nLastBlockFile] = disk.blk[mem.nLastBlockFile]

\* The invariant is kept, and the place is free.
LEMMA FoundInMemory ==
    ASSUME IInv, Idle, NEW f \in Files, NEW n \in Memory, NEW d, NEW s,
           FoundMem(f, n), FoundDisk(f, d), FoundSafe(f, s)
    PROVE  /\ OnDisk(d, s, damage) /\ InMemory(n, d, s, damage)
           /\ \A c \in Blocks : HasData(n.index, c) => FileOf(n.index, c) # f \/ PosOf(n.index, c) < SizeOf(mem.vinfo, f)
<1>1. /\ mem \in Memory /\ disk \in Storage /\ safe \in Storage /\ phase = "up"
      /\ mem.flush.pc = "none" /\ mem.flush = NoFlush
      /\ OnDisk(disk, safe, damage) /\ InMemory(mem, disk, safe, damage)
  BY DEF IInv, TypeOK, Idle, InMemory, MemFlush
<1>2. /\ n.index = mem.index /\ n.dirtyBlocks = mem.dirtyBlocks
      /\ n.view = mem.view /\ n.viewBest = mem.viewBest /\ n.tip = mem.tip
      /\ n.flush = mem.flush /\ (mem.aborting => n.aborting)
      /\ n.nLastBlockFile = f /\ n.dirtyFiles = mem.dirtyFiles \cup {f}
  BY DEF FoundMem
<1>3. /\ f \in Nat /\ mem.nLastBlockFile \in Nat /\ mem.nLastBlockFile \in Files /\ f >= mem.nLastBlockFile
      /\ SizeOf(mem.vinfo, f) \in Nat /\ SizeOf(n.vinfo, f) = SizeOf(mem.vinfo, f) + 1
  BY <1>1, MemoryTypes DEF FoundMem
<1>4. \A g \in Files :
         /\ g \in Nat /\ SizeOf(mem.vinfo, g) \in Nat
         /\ g # f => SizeOf(n.vinfo, g) = SizeOf(mem.vinfo, g)
         /\ SizeOf(n.vinfo, g) \in Nat /\ SizeOf(mem.vinfo, g) =< SizeOf(n.vinfo, g)
  BY SMTT(60), <1>1, <1>3, MemoryTypes DEF FoundMem
<1>5. \A g \in Files : /\ HighOf(mem.vinfo, g) \in Nat /\ HighOf(n.vinfo, g) \in Nat
                       /\ HighOf(mem.vinfo, g) =< HighOf(n.vinfo, g)
  BY SMTT(60), <1>1, MemoryTypes DEF FoundMem
<1>6. /\ Located(mem.index, mem.vinfo, mem.nLastBlockFile) /\ MemPlaces(mem, disk)
      /\ MemDirty(mem, disk) /\ MemPrune(mem, disk) /\ MemFlush(mem)
      /\ MemData(mem, disk, safe, damage) /\ MemUndo(mem, disk, safe, damage)
      /\ MemCoins(mem, damage) /\ MemIndex(mem, disk, damage)
  BY <1>1 DEF InMemory, MemPlaces
<1>7. /\ d.db = disk.db /\ d.coins = disk.coins /\ d.rev = disk.rev
      /\ s.db = safe.db /\ s.coins = safe.coins /\ safe.rev \subseteq s.rev
  BY DEF FoundDisk, FoundSafe
<1>8. ASSUME NEW c \in Blocks, HasData(mem.index, c)
      PROVE  /\ FileOf(mem.index, c) \in Files /\ PosOf(mem.index, c) \in Positions
             /\ PosOf(mem.index, c) \in Nat
             /\ PosOf(mem.index, c) < SizeOf(mem.vinfo, FileOf(mem.index, c))
  <2>1. Known(mem.index, c)
    BY <1>8 DEF HasData, Known
  <2>2. PosOf(mem.index, c) < SizeOf(mem.vinfo, FileOf(mem.index, c))
    BY <1>6, <1>8 DEF Located
  <2> QED
    BY <1>1, <2>1, <2>2, MemoryTypes
<1>9. \A g \in Files : Forgotten(mem, g) => g # f /\ Forgotten(n, g)
  BY SMTT(60), <1>2, <1>3, <1>4 DEF Forgotten
<1>10. ASSUME NEW c \in Blocks, HasData(disk.db.index, c)
       PROVE  /\ FileOf(disk.db.index, c) \in Files /\ PosOf(disk.db.index, c) \in Positions
              /\ FileOf(disk.db.index, c) # f \/ PosOf(disk.db.index, c) # SizeOf(mem.vinfo, f)
  <2>1. FileOf(disk.db.index, c) \in Files /\ PosOf(disk.db.index, c) \in Positions
    BY <1>1, <1>10, StorageTypes DEF HasData, Known
  <2>2. CASE HasData(mem.index, c) /\ FileOf(mem.index, c) = FileOf(disk.db.index, c)
             /\ PosOf(mem.index, c) = PosOf(disk.db.index, c)
    BY SMTT(60), <1>3, <1>8, <2>1, <2>2
  <2>3. CASE Forgotten(mem, FileOf(disk.db.index, c))
    BY <1>9, <2>1, <2>3
  <2> QED
    BY <1>6, <1>10, <2>2, <2>3 DEF MemPlaces
<1>11. OnDisk(d, s, damage)
  <2>1. DiskPlaces(d, s)
    BY <1>1, <1>7 DEF OnDisk, DiskPlaces
  <2>2. DiskData(d, s, damage)
    <3> SUFFICES ASSUME "block" \notin damage, NEW c \in Blocks, HasData(disk.db.index, c)
                 PROVE  At(d, c, disk.db.index[c]) /\ At(s, c, disk.db.index[c])
      BY <1>7 DEF DiskData
    <3>1. At(disk, c, disk.db.index[c]) /\ At(safe, c, disk.db.index[c])
      BY <1>1 DEF OnDisk, DiskData
    <3>2. PICK g \in Files, q \in Positions :
            /\ g = FileOf(disk.db.index, c) /\ q = PosOf(disk.db.index, c)
            /\ disk.blk[g][q] = c /\ safe.blk[g][q] = c /\ (g # f \/ q # SizeOf(mem.vinfo, f))
      BY <1>10, <3>1 DEF At, FileOf, PosOf
    <3>3. d.blk[g][q] = c /\ s.blk[g][q] = c
      BY <3>2 DEF FoundDisk, FoundSafe
    <3> QED
      BY <3>2, <3>3 DEF At, FileOf, PosOf
  <2>3. DiskUndo(d, s, damage)
    BY <1>1, <1>7 DEF OnDisk, DiskUndo, Noted
  <2>4. DiskCoins(d, s, damage) /\ DiskIndex(d, s, damage)
    BY <1>1, <1>7 DEF OnDisk, DiskCoins, DiskIndex
  <2> QED
    BY <2>1, <2>2, <2>3, <2>4 DEF OnDisk
<1>12. InMemory(n, d, s, damage)
  <2>1. MemPlaces(n, d)
    <3>1. Located(n.index, n.vinfo, n.nLastBlockFile)
      <4>1. ASSUME NEW c \in Blocks, HasData(mem.index, c)
            PROVE  /\ PosOf(mem.index, c) < SizeOf(n.vinfo, FileOf(mem.index, c))
                   /\ nHeight[c] =< HighOf(n.vinfo, FileOf(mem.index, c))
        <5>1. nHeight[c] =< HighOf(mem.vinfo, FileOf(mem.index, c)) /\ nHeight[c] \in Nat
          BY <1>6, <4>1, Heights DEF Located
        <5>2. PICK g \in Files : g = FileOf(mem.index, c) /\ PosOf(mem.index, c) \in Nat
                                 /\ PosOf(mem.index, c) < SizeOf(mem.vinfo, g)
          BY <1>8, <4>1
        <5> QED
          BY SMTT(60), <1>4, <1>5, <5>1, <5>2
      <4>2. ASSUME NEW g \in Files, g > f PROVE SizeOf(n.vinfo, g) = 0
        <5>1. g > mem.nLastBlockFile /\ g # f
          BY SMTT(60), <1>3, <1>4, <4>2
        <5> QED
          BY <1>4, <1>6, <5>1 DEF Located
      <4> QED
        BY <1>2, <1>6, <4>1, <4>2 DEF Located
    <3>2. d.db.last =< n.nLastBlockFile
      <4>1. disk.db.last =< mem.nLastBlockFile /\ disk.db.last \in Nat
        BY <1>1, <1>6, StorageTypes DEF MemPlaces
      <4> QED
        BY SMTT(60), <1>2, <1>3, <1>7, <4>1
    <3>3. ASSUME NEW g \in Files
          PROVE  SizeOf(disk.db.vinfo, g) =< SizeOf(n.vinfo, g) \/ Forgotten(n, g)
      <4>1. SizeOf(disk.db.vinfo, g) =< SizeOf(mem.vinfo, g) \/ Forgotten(mem, g)
        BY <1>6 DEF MemPlaces
      <4>2. SizeOf(disk.db.vinfo, g) \in Nat
        BY <1>1, StorageTypes
      <4> QED
        BY SMTT(60), <1>4, <1>9, <4>1, <4>2
    <3>4. ASSUME NEW c \in Blocks, HasData(disk.db.index, c)
          PROVE  \/ /\ HasData(n.index, c)
                    /\ FileOf(n.index, c) = FileOf(disk.db.index, c) /\ PosOf(n.index, c) = PosOf(disk.db.index, c)
                 \/ Forgotten(n, FileOf(disk.db.index, c))
      BY <1>2, <1>6, <1>9, <1>10, <3>4 DEF MemPlaces
    <3> QED
      BY <1>7, <3>1, <3>2, <3>3, <3>4 DEF MemPlaces
  <2>2. MemDirty(n, d)
    <3>1. \A b \in n.dirtyBlocks : Known(n.index, b) /\ (HasData(n.index, b) => FileOf(n.index, b) \in n.dirtyFiles)
      BY <1>2, <1>6 DEF MemDirty
    <3>2. ASSUME NEW c \in Blocks, HasData(disk.db.index, c), FileOf(disk.db.index, c) \in n.dirtyFiles,
                 SizeOf(n.vinfo, FileOf(disk.db.index, c)) = 0
          PROVE  c \in n.dirtyBlocks
      <4>1. PICK g \in Files : g = FileOf(disk.db.index, c)
        BY <1>10, <3>2
      <4>2. g # f
        BY SMTT(60), <1>3, <3>2, <4>1
      <4> QED
        BY <1>2, <1>4, <1>6, <3>2, <4>1, <4>2 DEF MemDirty
    <3> QED
      BY <1>7, <3>1, <3>2 DEF MemDirty
  <2>3. MemPrune(n, d) /\ MemFlush(n)
    <3>1. n.flush = NoFlush /\ NoFlush.pc = "none" /\ NoFlush.prune = {} /\ ~(NoFlush.manual > 0)
      BY SMTT(60), <1>1, <1>2, NoFlushType
    <3>2. ~n.aborting => n.viewBest = n.tip
      BY <1>1, <1>2, <1>6 DEF MemFlush
    <3> QED
      BY <3>1, <3>2 DEF MemPrune, MemFlush
  <2>4. MemData(n, d, s, damage)
    <3> SUFFICES ASSUME "block" \notin damage, NEW c \in Blocks, HasData(mem.index, c)
                 PROVE  /\ At(d, c, mem.index[c])
                        /\ FileOf(mem.index, c) < f => At(s, c, mem.index[c])
      BY <1>1, <1>2 DEF MemData
    <3>1. PICK g \in Files, q \in Positions :
            /\ g = FileOf(mem.index, c) /\ q = PosOf(mem.index, c) /\ disk.blk[g][q] = c
            /\ g < mem.nLastBlockFile => safe.blk[g][q] = c
      BY <1>6, <1>8 DEF MemData, At, FileOf, PosOf
    <3>2. d.blk[g][q] = c
      <4>1. g # f \/ q # SizeOf(mem.vinfo, f)
        BY SMTT(60), <1>3, <1>8, <3>1
      <4> QED
        BY <3>1, <4>1 DEF FoundDisk
    <3>3. ASSUME g < f
          PROVE  s.blk[g][q] = c
      <4>1. g =< mem.nLastBlockFile /\ g \in Nat
        <5>1. SizeOf(mem.vinfo, g) # 0
          BY SMTT(60), <1>4, <1>8, <3>1
        <5>2. \A h \in Files : h > mem.nLastBlockFile => SizeOf(mem.vinfo, h) = 0
          BY <1>6 DEF Located
        <5>3. g \in Nat /\ mem.nLastBlockFile \in Nat /\ ~(g > mem.nLastBlockFile)
          BY <1>3, <1>4, <5>1, <5>2
        <5> QED
          BY SMTT(60), <5>3
      <4>2. CASE g = mem.nLastBlockFile
        <5>1. f # mem.nLastBlockFile
          BY SMTT(60), <1>3, <3>3, <4>2
        <5>2. s.blk[mem.nLastBlockFile] = disk.blk[mem.nLastBlockFile]
          BY <5>1 DEF FoundSafe
        <5> QED
          BY <3>1, <4>2, <5>2
      <4>3. CASE g < mem.nLastBlockFile
        BY <3>1, <4>3 DEF FoundSafe
      <4> QED
        BY SMTT(60), <1>3, <4>1, <4>2, <4>3
    <3> QED
      BY <3>1, <3>2, <3>3 DEF At, FileOf, PosOf
  <2>5. MemUndo(n, d, s, damage)
    BY <1>1, <1>2, <1>6, <1>7 DEF MemUndo, Noted
  <2>6. MemCoins(n, damage) /\ MemIndex(n, d, damage)
    BY <1>2, <1>6, <1>7 DEF MemCoins, MemIndex
  <2> QED
    BY <2>1, <2>2, <2>3, <2>4, <2>5, <2>6 DEF InMemory
<1> QED
  <2>1. \A c \in Blocks : HasData(mem.index, c) => FileOf(mem.index, c) # f \/ PosOf(mem.index, c) < SizeOf(mem.vinfo, f)
    BY <1>8
  <2> QED
    BY <1>2, <1>11, <1>12, <2>1

\* FindBlockPos found place p of the last file f for block b, and block b was written.
PlaceFound(m, d, dmg, b, f, p) ==
    /\ m.flush.pc = "none" /\ ~HasData(m.index, b) /\ Known(m.index, Parent[b])
    /\ f = m.nLastBlockFile /\ f \in m.dirtyFiles
    /\ p < SizeOf(m.vinfo, f) /\ nHeight[b] =< HighOf(m.vinfo, f)
    /\ \A c \in Blocks : HasData(m.index, c) => FileOf(m.index, c) # f \/ PosOf(m.index, c) < p
    /\ "block" \notin dmg => d.blk[f][p] = b

\* n is m with entry e for block b.
PlaceGiven(m, n, b, e) ==
    /\ n.index[b] = e /\ \A c \in Blocks \ {b} : n.index[c] = m.index[c]
    /\ n.dirtyBlocks = m.dirtyBlocks \cup {b} /\ n.dirtyFiles = m.dirtyFiles
    /\ n.vinfo = m.vinfo /\ n.nLastBlockFile = m.nLastBlockFile
    /\ n.view = m.view /\ n.viewBest = m.viewBest /\ n.tip = m.tip /\ n.aborting = m.aborting
    /\ \/ n.flush = NoFlush
       \/ n.flush.pc = "begin" /\ n.flush.prune = {} /\ ~(n.flush.manual > 0) /\ n.flush.newTip = m.tip

\* ReceivedBlockTransactions gives block b the place that FindBlockPos found.
LEMMA ReceivedInMemory ==
    ASSUME NEW m \in Memory, NEW d \in Storage, NEW s, NEW dmg, InMemory(m, d, s, dmg),
           NEW b \in Blocks \ {Genesis}, NEW f \in Files, NEW p \in Positions,
           PlaceFound(m, d, dmg, b, f, p),
           NEW e \in Entries, e.nFile = f, e.nPos = p, e.data, ~e.undo,
           NEW n \in Memory, PlaceGiven(m, n, b, e)
    PROVE  InMemory(n, d, s, dmg)
<1> USE DEF PlaceFound, PlaceGiven
<1>1. e # None
  BY NoneAssumption
<1>2. /\ HasData(n.index, b) /\ ~HasUndo(n.index, b) /\ ~HasUndo(m.index, b)
      /\ \A c \in Blocks \ {b} :
            /\ HasData(n.index, c) <=> HasData(m.index, c)
            /\ HasUndo(n.index, c) <=> HasUndo(m.index, c)
            /\ Known(n.index, c) <=> Known(m.index, c)
      /\ Known(n.index, b)
  <2>1. HasUndo(m.index, b) => HasData(m.index, b)
    BY DEF InMemory, MemPlaces, Located
  <2> QED
    BY <1>1, <2>1 DEF HasData, HasUndo, Known
<1>3. n.flush.pc \in {"none", "begin"} /\ n.flush.prune = {} /\ ~(n.flush.manual > 0)
  BY SMTT(60), NoFlushType
<1>4. \A c \in Blocks : HasData(m.index, c) => PosOf(m.index, c) \in Nat
  BY MemoryTypes DEF HasData
<1>5. \A c \in Blocks : HasData(m.index, c) => ~(FileOf(m.index, c) = f /\ PosOf(m.index, c) = p)
  BY SMTT(60), <1>4, FileAssumption DEF Positions
<1>6. MemPlaces(n, d)
  <2>1. Located(n.index, n.vinfo, n.nLastBlockFile)
    <3>0. Located(m.index, m.vinfo, m.nLastBlockFile)
      BY DEF InMemory, MemPlaces
    <3>1. \A c \in Blocks : HasData(n.index, c) =>
             /\ PosOf(n.index, c) < SizeOf(n.vinfo, FileOf(n.index, c))
             /\ nHeight[c] =< HighOf(n.vinfo, FileOf(n.index, c))
      <4> SUFFICES ASSUME NEW c \in Blocks, HasData(n.index, c)
                   PROVE  /\ PosOf(n.index, c) < SizeOf(n.vinfo, FileOf(n.index, c))
                          /\ nHeight[c] =< HighOf(n.vinfo, FileOf(n.index, c))
        OBVIOUS
      <4>1. CASE c = b
        BY <4>1 DEF FileOf, PosOf
      <4>2. CASE c # b
        <5>1. HasData(m.index, c) /\ n.index[c] = m.index[c]
          BY <1>2, <4>2
        <5>2. /\ PosOf(m.index, c) < SizeOf(m.vinfo, FileOf(m.index, c))
              /\ nHeight[c] =< HighOf(m.vinfo, FileOf(m.index, c))
          BY <3>0, <5>1 DEF Located
        <5> QED
          BY <5>1, <5>2 DEF FileOf, PosOf
      <4> QED
        BY <4>1, <4>2
    <3>2. ASSUME NEW c \in Blocks, NEW a \in Blocks, HasData(n.index, c), HasData(n.index, a),
                 FileOf(n.index, c) = FileOf(n.index, a), PosOf(n.index, c) = PosOf(n.index, a)
          PROVE  c = a
      <4>1. CASE c # b /\ a # b
        <5>1. HasData(m.index, c) /\ HasData(m.index, a) /\ n.index[c] = m.index[c] /\ n.index[a] = m.index[a]
          BY <1>2, <3>2, <4>1
        <5> QED
          BY <3>0, <3>2, <5>1 DEF Located, FileOf, PosOf, SizeOf, HighOf
      <4>2. CASE c = b \/ a = b
        BY SMTT(60), <1>2, <1>5, <3>2, <4>2 DEF FileOf, PosOf, SizeOf, HighOf
      <4> QED
        BY <4>1, <4>2
    <3> QED
      BY SMTT(60), <1>2, <3>0, <3>1, <3>2 DEF Located
  <2>2. ASSUME NEW c \in Blocks, HasData(d.db.index, c)
        PROVE  \/ /\ HasData(n.index, c)
                  /\ FileOf(n.index, c) = FileOf(d.db.index, c) /\ PosOf(n.index, c) = PosOf(d.db.index, c)
               \/ Forgotten(n, FileOf(d.db.index, c))
    <3>1. \/ /\ HasData(m.index, c)
             /\ FileOf(m.index, c) = FileOf(d.db.index, c) /\ PosOf(m.index, c) = PosOf(d.db.index, c)
          \/ Forgotten(m, FileOf(d.db.index, c))
      BY <2>2 DEF InMemory, MemPlaces
    <3>2. CASE Forgotten(m, FileOf(d.db.index, c))
      BY <3>2 DEF Forgotten
    <3>3. CASE HasData(m.index, c)
      <4>1. n.index[c] = m.index[c] /\ HasData(n.index, c)
        BY <1>2, <3>3
      <4> QED
        BY <3>1, <3>2, <4>1 DEF FileOf, PosOf, SizeOf, HighOf
    <3> QED
      BY <3>1, <3>2, <3>3
  <2> QED
    BY <2>1, <2>2 DEF InMemory, MemPlaces, Forgotten
<1>7. MemDirty(n, d)
  <2>1. \A c \in m.dirtyBlocks :
           c \in Blocks /\ Known(m.index, c) /\ (HasData(m.index, c) => FileOf(m.index, c) \in m.dirtyFiles)
    BY DEF Memory, InMemory, MemDirty
  <2>2. \A c \in n.dirtyBlocks :
           Known(n.index, c) /\ (HasData(n.index, c) => FileOf(n.index, c) \in n.dirtyFiles)
    BY SMTT(60), <1>2, <2>1 DEF FileOf
  <2> QED
    BY <2>2 DEF InMemory, MemDirty
<1>8. MemPrune(n, d) /\ MemFlush(n)
  BY <1>3, NoFlushType DEF InMemory, MemPrune, MemFlush
<1>9. MemData(n, d, s, dmg)
  <2> SUFFICES ASSUME "block" \notin dmg, NEW c \in Blocks, HasData(n.index, c)
               PROVE  /\ At(d, c, n.index[c])
                      /\ FileOf(n.index, c) < f => At(s, c, n.index[c])
    BY <1>3 DEF MemData
  <2>1. CASE c = b
    <3>1. f \in Nat /\ ~(f < f)
      BY SMTT(60), MemoryTypes
    <3> QED
      BY <2>1, <3>1 DEF At, FileOf, PosOf, SizeOf, HighOf
  <2>2. CASE c # b
    <3>1. HasData(m.index, c) /\ n.index[c] = m.index[c]
      BY <1>2, <2>2
    <3>2. At(d, c, m.index[c]) /\ (FileOf(m.index, c) < f => At(s, c, m.index[c]))
      BY <3>1 DEF InMemory, MemData
    <3> QED
      BY <3>1, <3>2 DEF FileOf
  <2> QED
    BY <2>1, <2>2
<1>10. MemUndo(n, d, s, dmg)
  BY SMTT(60), <1>2, <1>3 DEF InMemory, MemUndo
<1>11. MemCoins(n, dmg) /\ MemIndex(n, d, dmg)
  <2>1. m.viewBest \in Blocks /\ Genesis \in Blocks /\ \A c \in Blocks \ {Genesis} : Parent[c] \in Blocks
    BY TreeAssumption DEF Memory
  <2>2. Closed(m.index) => Closed(n.index)
    BY SMTT(60), <1>2, <2>1 DEF Closed, FileOf, PosOf, SizeOf, HighOf
  <2>3. Known(m.index, m.viewBest) => Known(n.index, n.viewBest)
    BY <1>2, <2>1
  <2>4. ASSUME "index" \notin dmg, NEW c \in Blocks, c \notin n.dirtyBlocks
        PROVE  n.index[c] = d.db.index[c]
    <3>1. c # b /\ c \notin m.dirtyBlocks
      BY <2>4
    <3> QED
      BY SMTT(60), <2>4, <3>1 DEF InMemory, MemIndex, FileOf, PosOf, SizeOf, HighOf
  <2> QED
    BY <2>2, <2>3, <2>4 DEF InMemory, MemCoins, MemIndex
<1> QED
  BY <1>6, <1>7, <1>8, <1>9, <1>10, <1>11 DEF InMemory

\* FileCommit makes the blocks and the undo data of one file safe.
LEMMA FlushBlockFileFacts ==
    ASSUME disk \in Storage, NEW s \in Storage, NEW f \in Files
    PROVE  /\ FlushBlockFile(f, s) \in Storage
           /\ FlushBlockFile(f, s).db = s.db /\ FlushBlockFile(f, s).coins = s.coins
           /\ FlushBlockFile(f, s).pruned = s.pruned
           /\ \A g \in Files : FlushBlockFile(f, s).blk[g] = IF g = f THEN disk.blk[g] ELSE s.blk[g]
           /\ FlushBlockFile(f, s).rev = s.rev \cup RevOf(f, disk)
<1>0. PICK t : t = FlushBlockFile(f, s)
  OBVIOUS
<1>1. disk.blk[f] \in [Positions -> Blocks \cup {None}] /\ RevOf(f, disk) \subseteq Files \X Blocks
  BY DEF Storage, RevOf
<1>2. t = [s EXCEPT !.blk = [s.blk EXCEPT ![f] = disk.blk[f]], !.rev = s.rev \cup RevOf(f, disk)]
  BY <1>0 DEF FlushBlockFile, Storage
<1>3. [s.blk EXCEPT ![f] = disk.blk[f]] \in [Files -> [Positions -> Blocks \cup {None}]]
  BY <1>1 DEF Storage
<1>4. t \in Storage
  <2>1. PICK B \in [Files -> [Positions -> Blocks \cup {None}]], R \in SUBSET (Files \X Blocks) :
          t = [s EXCEPT !.blk = B, !.rev = R]
    <3>1. s.rev \cup RevOf(f, disk) \in SUBSET (Files \X Blocks)
      BY <1>1 DEF Storage
    <3> QED
      BY <1>2, <1>3, <3>1
  <2> QED
    BY <2>1 DEF Storage
<1>5. /\ t.db = s.db /\ t.coins = s.coins /\ t.pruned = s.pruned
      /\ t.blk = [s.blk EXCEPT ![f] = disk.blk[f]] /\ t.rev = s.rev \cup RevOf(f, disk)
  BY <1>2 DEF Storage
<1>6. \A g \in Files : t.blk[g] = IF g = f THEN disk.blk[g] ELSE s.blk[g]
  BY <1>5 DEF Storage
<1> QED
  BY <1>0, <1>4, <1>5, <1>6

\* More damage only weakens what is claimed.
LEMMA MoreDamage ==
    ASSUME NEW m, NEW d, NEW s, NEW dmg, NEW more, dmg \subseteq more
    PROVE  /\ OnDisk(d, s, dmg) => OnDisk(d, s, more)
           /\ InMemory(m, d, s, dmg) => InMemory(m, d, s, more)
<1>1. /\ DiskData(d, s, dmg) => DiskData(d, s, more)
      /\ DiskUndo(d, s, dmg) => DiskUndo(d, s, more)
      /\ DiskCoins(d, s, dmg) => DiskCoins(d, s, more)
      /\ DiskIndex(d, s, dmg) => DiskIndex(d, s, more)
  BY DEF DiskData, DiskUndo, DiskCoins, DiskIndex
<1>2. /\ MemData(m, d, s, dmg) => MemData(m, d, s, more)
      /\ MemUndo(m, d, s, dmg) => MemUndo(m, d, s, more)
      /\ MemCoins(m, dmg) => MemCoins(m, more)
      /\ MemIndex(m, d, dmg) => MemIndex(m, d, more)
  BY DEF MemData, MemUndo, MemCoins, MemIndex
<1> QED
  BY <1>1, <1>2 DEF OnDisk, InMemory

\* AcceptBlock, with the write done, refused, or thrown out of.
LEMMA AcceptIInv ==
    ASSUME IInv, NEW b \in Blocks, AcceptBlock(b)
    PROVE  IInv'
<1>1. /\ Idle /\ b # Genesis /\ Known(mem.index, Parent[b]) /\ ~HasData(mem.index, b)
      /\ UNCHANGED phase
      /\ mem \in Memory /\ disk \in Storage /\ safe \in Storage /\ phase = "up"
      /\ mem.flush.pc = "none" /\ mem.flush = NoFlush
      /\ mem.nLastBlockFile \in Files /\ mem.tip \in Blocks
  BY MemoryTypes DEF AcceptBlock, IInv, TypeOK, Idle, InMemory, MemFlush, Memory
<1> DEFINE Accepted(f, p, allocates) ==
             /\ safe' = IF f = mem.nLastBlockFile THEN safe ELSE FlushBlockFile(mem.nLastBlockFile, safe)
             /\ \/ /\ disk' = [disk EXCEPT !.blk[f][p] = b]
                   /\ mem' = Received(BlockPosFound(b, f, allocates), b, f, p)
                   /\ UNCHANGED <<troubles, damage>>
                \/ /\ Trouble
                   /\ mem' = Received([BlockPosFound(b, f, allocates) EXCEPT !.aborting = TRUE], b, f, p)
                   /\ damage' = damage \cup {"block"}
                   /\ UNCHANGED disk
                \/ /\ Trouble
                   /\ mem' = [BlockPosFound(b, f, allocates) EXCEPT !.aborting = TRUE]
                   /\ UNCHANGED <<disk, damage>>
<1>2. PICK f \in Files, allocates \in BOOLEAN :
        /\ f >= mem.nLastBlockFile /\ SizeOf(mem.vinfo, f) < BlocksPerFile
        /\ Accepted(f, SizeOf(mem.vinfo, f), allocates)
  <2>1. mem.nLastBlockFile \in Nat /\ LastFile \in Nat
    BY <1>1, MemoryTypes, FileAssumption
  <2>2. PICK f \in Lowest(FilesWithRoom), allocates \in BOOLEAN : Accepted(f, SizeOf(mem.vinfo, f), allocates)
    BY DEF AcceptBlock, SizeOf
  <2> HIDE DEF Accepted
  <2>3. f \in Files /\ f >= mem.nLastBlockFile /\ SizeOf(mem.vinfo, f) < BlocksPerFile
    BY SMTT(60), <2>1, <2>2 DEF Lowest, FilesWithRoom, Files, SizeOf
  <2> QED
    BY <2>2, <2>3
<1> HIDE DEF Accepted
<1>3. PICK p \in Positions : p = SizeOf(mem.vinfo, f) /\ p \in Nat
  BY SMTT(60), <1>1, <1>2, MemoryTypes, FileAssumption DEF Positions
<1>4. Accepted(f, p, allocates)
  BY <1>2, <1>3
<1>5. PICK found \in Memory :
        /\ found = BlockPosFound(b, f, allocates)
        /\ found.index = mem.index /\ found.dirtyBlocks = mem.dirtyBlocks
        /\ found.view = mem.view /\ found.viewBest = mem.viewBest /\ found.tip = mem.tip
        /\ found.flush = mem.flush /\ found.aborting = mem.aborting
        /\ found.nLastBlockFile = f /\ found.dirtyFiles = mem.dirtyFiles \cup {f}
        /\ SizeOf(found.vinfo, f) = p + 1
        /\ HighOf(found.vinfo, f) >= HighOf(mem.vinfo, f) /\ HighOf(found.vinfo, f) >= nHeight[b]
        /\ \A g \in Files \ {f} : found.vinfo[g] = mem.vinfo[g]
  <2> DEFINE info == AddBlock(mem.vinfo[f], nHeight[b])
             found == BlockPosFound(b, f, allocates)
  <2>1. /\ info \in FileInfos /\ info.nSize = p + 1
        /\ info.nHeightLast >= HighOf(mem.vinfo, f) /\ info.nHeightLast >= nHeight[b]
    <3>1. /\ HighOf(mem.vinfo, f) \in Nat /\ nHeight[b] \in Nat
          /\ SizeOf(mem.vinfo, f) + 1 \in 0 .. BlocksPerFile
      BY SMTT(60), <1>1, <1>2, <1>3, MemoryTypes, Heights, FileAssumption
    <3>2. /\ Max({HighOf(mem.vinfo, f), nHeight[b]}) \in Nat
          /\ Max({HighOf(mem.vinfo, f), nHeight[b]}) >= HighOf(mem.vinfo, f)
          /\ Max({HighOf(mem.vinfo, f), nHeight[b]}) >= nHeight[b]
      BY <3>1, MaxOfTwo
    <3> QED
      BY <1>3, <3>1, <3>2 DEF AddBlock, FileInfos, FileOf, PosOf, SizeOf, HighOf
  <2> HIDE DEF info
  <2>2. found = [mem EXCEPT !.vinfo = [mem.vinfo EXCEPT ![f] = info], !.nLastBlockFile = f,
                            !.dirtyFiles = mem.dirtyFiles \cup {f},
                            !.fCheckForPruning = mem.fCheckForPruning \/ allocates]
    BY <1>1 DEF BlockPosFound, info, Memory
  <2>3. [mem.vinfo EXCEPT ![f] = info] \in [Files -> FileInfos] /\ mem.dirtyFiles \cup {f} \in SUBSET Files
    BY <1>1, <2>1 DEF Memory
  <2>4. found \in Memory
    BY <1>1, <2>2, <2>3 DEF Memory
  <2>5. /\ found.index = mem.index /\ found.dirtyBlocks = mem.dirtyBlocks
        /\ found.view = mem.view /\ found.viewBest = mem.viewBest /\ found.tip = mem.tip
        /\ found.flush = mem.flush /\ found.aborting = mem.aborting
        /\ found.nLastBlockFile = f /\ found.dirtyFiles = mem.dirtyFiles \cup {f}
        /\ found.vinfo = [mem.vinfo EXCEPT ![f] = info]
    BY <1>1, <2>2 DEF Memory
  <2>6. found.vinfo[f] = info /\ \A g \in Files \ {f} : found.vinfo[g] = mem.vinfo[g]
    BY <1>1, <2>5 DEF Memory
  <2> HIDE DEF found
  <2> QED
    BY <2>1, <2>4, <2>5, <2>6 DEF found, FileOf, PosOf, SizeOf, HighOf
<1>6. /\ safe' \in Storage /\ safe'.db = safe.db /\ safe'.coins = safe.coins /\ safe.rev \subseteq safe'.rev
      /\ \A g \in Files : safe'.blk[g] = safe.blk[g] \/ safe'.blk[g] = disk.blk[g]
      /\ f # mem.nLastBlockFile => safe'.blk[mem.nLastBlockFile] = disk.blk[mem.nLastBlockFile]
  <2>1. CASE f = mem.nLastBlockFile
    BY <1>1, <1>4, <2>1 DEF Accepted
  <2>2. CASE f # mem.nLastBlockFile
    <3>1. PICK l \in Files : l = mem.nLastBlockFile /\ safe' = FlushBlockFile(l, safe)
      BY <1>1, <1>4, <2>2 DEF Accepted
    <3>2. /\ safe' \in Storage /\ safe'.db = safe.db /\ safe'.coins = safe.coins
          /\ \A g \in Files : safe'.blk[g] = IF g = l THEN disk.blk[g] ELSE safe.blk[g]
          /\ safe'.rev = safe.rev \cup RevOf(l, disk)
      <4>1. disk \in Storage /\ safe \in Storage
        BY <1>1
      <4>2. FlushBlockFile(l, safe) \in Storage
        BY <4>1, FlushBlockFileFacts
      <4>3. FlushBlockFile(l, safe).db = safe.db /\ FlushBlockFile(l, safe).coins = safe.coins
        BY <4>1, FlushBlockFileFacts
      <4>4. FlushBlockFile(l, safe).rev = safe.rev \cup RevOf(l, disk)
        BY <4>1, FlushBlockFileFacts
      <4>5. \A g \in Files : FlushBlockFile(l, safe).blk[g] = IF g = l THEN disk.blk[g] ELSE safe.blk[g]
        BY <4>1, FlushBlockFileFacts
      <4> QED
        BY <3>1, <4>2, <4>3, <4>4, <4>5
    <3>3. \A g \in Files : safe'.blk[g] = safe.blk[g] \/ safe'.blk[g] = disk.blk[g]
      BY <3>2
    <3>4. safe.rev \subseteq safe'.rev
      BY <3>2
    <3> QED
      BY <3>1, <3>2, <3>3, <3>4
  <2> QED
    BY <2>1, <2>2
<1> DEFINE Like(n) == /\ n.index = mem.index /\ n.dirtyBlocks = mem.dirtyBlocks
                       /\ n.view = mem.view /\ n.viewBest = mem.viewBest /\ n.tip = mem.tip
                       /\ n.flush = mem.flush /\ (mem.aborting => n.aborting)
                       /\ n.nLastBlockFile = f /\ n.dirtyFiles = mem.dirtyFiles \cup {f}
                       /\ SizeOf(n.vinfo, f) = p + 1
                       /\ HighOf(n.vinfo, f) >= HighOf(mem.vinfo, f) /\ HighOf(n.vinfo, f) >= nHeight[b]
                       /\ \A g \in Files \ {f} : n.vinfo[g] = mem.vinfo[g]
<1>7. Like(found)
  BY <1>5
<1>8. PICK failed \in Memory : failed = [found EXCEPT !.aborting = TRUE] /\ Like(failed) /\ failed.aborting = TRUE
  <2> DEFINE n == [found EXCEPT !.aborting = TRUE]
  <2>1. n \in Memory
    BY DEF Memory
  <2>2. /\ n.index = found.index /\ n.dirtyBlocks = found.dirtyBlocks
        /\ n.view = found.view /\ n.viewBest = found.viewBest /\ n.tip = found.tip
        /\ n.flush = found.flush /\ n.nLastBlockFile = found.nLastBlockFile
        /\ n.dirtyFiles = found.dirtyFiles /\ n.vinfo = found.vinfo
    BY DEF Memory
  <2>3. n.aborting = TRUE
    BY DEF Memory
  <2> HIDE DEF n
  <2>4. Like(n)
    BY <1>7, <2>2, <2>3
  <2> HIDE DEF Like
  <2> QED
    BY <2>1, <2>3, <2>4 DEF n
<1>9. ASSUME NEW n \in Memory, Like(n), disk' \in Storage, disk'.db = disk.db, disk'.coins = disk.coins,
             disk'.rev = disk.rev,
             \A g \in Files, q \in Positions : g # f \/ q # p => disk'.blk[g][q] = disk.blk[g][q],
             damage \subseteq damage'
      PROVE  /\ OnDisk(disk', safe', damage') /\ InMemory(n, disk', safe', damage')
             /\ \A c \in Blocks : HasData(n.index, c) => FileOf(n.index, c) # f \/ PosOf(n.index, c) < p
  <2>1. \A g \in Files, q \in Positions : g # f \/ q # SizeOf(mem.vinfo, f) => disk'.blk[g][q] = disk.blk[g][q]
    BY <1>3, <1>9
  <2>2. SizeOf(n.vinfo, f) = SizeOf(mem.vinfo, f) + 1
    BY <1>3, <1>9
  <2>3. /\ OnDisk(disk', safe', damage) /\ InMemory(n, disk', safe', damage)
        /\ \A c \in Blocks : HasData(n.index, c) => FileOf(n.index, c) # f \/ PosOf(n.index, c) < SizeOf(mem.vinfo, f)
    <3>1. FoundMem(f, n)
      BY <1>2, <1>9, <2>2 DEF FoundMem, SizeOf, HighOf
    <3>2. FoundDisk(f, disk') /\ FoundSafe(f, safe')
      BY <1>6, <1>9, <2>1 DEF FoundDisk, FoundSafe
    <3> HIDE DEF Like
    <3> QED
      BY <1>1, <1>9, <3>1, <3>2, FoundInMemory
  <2> QED
    BY <1>3, <1>9, <2>3, MoreDamage
<1>10. ASSUME NEW n \in Memory, Like(n), mem' = Received(n, b, f, p), disk' \in Storage,
              OnDisk(disk', safe', damage'), InMemory(n, disk', safe', damage'),
              \A c \in Blocks : HasData(n.index, c) => FileOf(n.index, c) # f \/ PosOf(n.index, c) < p,
              "block" \notin damage' => disk'.blk[f][p] = b
       PROVE  mem' \in Memory /\ InMemory(mem', disk', safe', damage')
  <2> DEFINE e == [nFile |-> f, nPos |-> p, data |-> TRUE, undo |-> FALSE]
  <2>1. e \in Entries /\ e.nFile = f /\ e.nPos = p /\ e.data /\ ~e.undo
    BY DEF Entries
  <2>2. PICK fl \in Flushes :
          /\ fl = IF n.fCheckForPruning THEN BeginFlush("NONE", 0, n.tip, FALSE) ELSE NoFlush
          /\ \/ fl = NoFlush
             \/ fl.pc = "begin" /\ fl.prune = {} /\ ~(fl.manual > 0) /\ fl.newTip = n.tip
    <3>1. CASE n.fCheckForPruning
      <4>1. PICK t \in Blocks : t = n.tip
        BY DEF Memory
      <4>2. "NONE" \in Modes
        BY DEF Modes
      <4>3. PICK fl \in Flushes :
              /\ fl = BeginFlush("NONE", 0, t, FALSE)
              /\ fl.pc = "begin" /\ fl.manual = 0 /\ ~(fl.manual > 0) /\ fl.prune = {} /\ fl.newTip = t
        BY <4>2, BeginFlushFalse
      <4> QED
        BY <3>1, <4>1, <4>3
    <3>2. CASE ~n.fCheckForPruning
      BY <3>2, NoFlushType
    <3> QED
      BY <3>1, <3>2
  <2>3. mem' = [n EXCEPT !.index = [n.index EXCEPT ![b] = e], !.dirtyBlocks = n.dirtyBlocks \cup {b}, !.flush = fl]
    BY <1>10, <2>2 DEF Received, Memory
  <2> HIDE DEF e
  <2>4. [n.index EXCEPT ![b] = e] \in [Blocks -> Entries \cup {None}] /\ n.dirtyBlocks \cup {b} \in SUBSET Blocks
    BY <2>1 DEF Memory
  <2>5. mem' \in Memory
    BY <2>3, <2>4 DEF Memory
  <2>6. /\ mem'.index = [n.index EXCEPT ![b] = e] /\ mem'.dirtyBlocks = n.dirtyBlocks \cup {b}
        /\ mem'.dirtyFiles = n.dirtyFiles /\ mem'.vinfo = n.vinfo /\ mem'.nLastBlockFile = n.nLastBlockFile
        /\ mem'.view = n.view /\ mem'.viewBest = n.viewBest /\ mem'.tip = n.tip
        /\ mem'.aborting = n.aborting /\ mem'.flush = fl
    BY <2>3 DEF Memory
  <2>7. mem'.index[b] = e /\ \A c \in Blocks \ {b} : mem'.index[c] = n.index[c]
    BY <2>6 DEF Memory
  <2>8. /\ n.flush.pc = "none" /\ ~HasData(n.index, b) /\ Known(n.index, Parent[b])
        /\ f = n.nLastBlockFile /\ f \in n.dirtyFiles /\ nHeight[b] =< HighOf(n.vinfo, f)
    BY <1>1, <1>10, MemoryTypes, Heights
  <2>9. p < SizeOf(n.vinfo, f)
    BY SMTT(60), <1>3, <1>10
  <2>10. /\ mem'.dirtyBlocks = n.dirtyBlocks \cup {b}
         /\ mem'.dirtyFiles = n.dirtyFiles /\ mem'.vinfo = n.vinfo /\ mem'.nLastBlockFile = f
         /\ mem'.view = n.view /\ mem'.viewBest = n.viewBest /\ mem'.tip = n.tip
         /\ mem'.aborting = n.aborting
         /\ \/ mem'.flush = NoFlush
            \/ mem'.flush.pc = "begin" /\ mem'.flush.prune = {} /\ ~(mem'.flush.manual > 0) /\ mem'.flush.newTip = n.tip
    BY <2>2, <2>6, <2>8
  <2>11. InMemory(mem', disk', safe', damage')
    <3>1. PlaceFound(n, disk', damage', b, f, p)
      BY <1>10, <2>8, <2>9 DEF PlaceFound
    <3>2. PlaceGiven(n, mem', b, e)
      BY <2>7, <2>8, <2>10 DEF PlaceGiven
    <3> HIDE DEF Like
    <3> QED
      BY <1>1, <1>10, <2>1, <2>5, <3>1, <3>2, ReceivedInMemory
  <2> QED
    BY <2>5, <2>11
<1>11. troubles' \in 0 .. MaxTroubles /\ damage' \in {damage, damage \cup {"block"}}
  BY SMTT(60), <1>4, BoundAssumption DEF Trouble, IInv, TypeOK, Accepted
<1>12. CASE /\ disk' = [disk EXCEPT !.blk[f][p] = b] /\ mem' = Received(found, b, f, p)
  <2>1. /\ disk' = [disk EXCEPT !.blk = [disk.blk EXCEPT ![f] = [disk.blk[f] EXCEPT ![p] = b]]]
        /\ [disk.blk EXCEPT ![f] = [disk.blk[f] EXCEPT ![p] = b]] \in [Files -> [Positions -> Blocks \cup {None}]]
    BY <1>1, <1>12 DEF Storage
  <2>2. /\ disk' \in Storage /\ disk'.db = disk.db /\ disk'.coins = disk.coins /\ disk'.rev = disk.rev
        /\ disk'.blk = [disk.blk EXCEPT ![f] = [disk.blk[f] EXCEPT ![p] = b]]
    BY <1>1, <2>1 DEF Storage
  <2>3. /\ disk'.blk[f][p] = b
        /\ \A g \in Files, q \in Positions : g # f \/ q # p => disk'.blk[g][q] = disk.blk[g][q]
    BY SMTT(60), <1>1, <2>2 DEF Storage
  <2> HIDE DEF Like
  <2> QED
    BY <1>1, <1>6, <1>7, <1>9, <1>10, <1>11, <1>12, <2>2, <2>3 DEF IInv, TypeOK
<1>13. CASE mem' = Received(failed, b, f, p) /\ damage' = damage \cup {"block"} /\ UNCHANGED disk
  <2> HIDE DEF Like
  <2> QED
    BY <1>1, <1>6, <1>8, <1>9, <1>10, <1>11, <1>13 DEF IInv, TypeOK
<1>14. CASE mem' = failed /\ UNCHANGED <<disk, damage>>
  <2> HIDE DEF Like
  <2> QED
    BY <1>1, <1>6, <1>8, <1>9, <1>11, <1>14 DEF IInv, TypeOK
<1> HIDE DEF Like
<1> QED
  BY <1>4, <1>5, <1>8, <1>12, <1>13, <1>14 DEF Accepted

\* ConnectTip has the undo data of b on disk and the coins in memory at b.
LEMMA ConnectedInMemory ==
    ASSUME IInv, Idle, ~mem.aborting,
           NEW b \in Blocks \ {Genesis}, Parent[b] = mem.tip, HasData(mem.index, b),
           NEW d, d.db = disk.db, d.coins = disk.coins, d.blk = disk.blk, disk.rev \subseteq d.rev,
           HasUndo(mem.index, b) \/ <<FileOf(mem.index, b), b>> \in d.rev,
           NEW n \in Memory, \A c \in Blocks \ {b} : n.index[c] = mem.index[c],
           NEW e \in Entries, n.index[b] = e, e.data, e.undo,
           e.nFile = FileOf(mem.index, b), e.nPos = PosOf(mem.index, b),
           \/ n.dirtyBlocks = mem.dirtyBlocks /\ n.dirtyFiles = mem.dirtyFiles /\ e = mem.index[b]
           \/ n.dirtyBlocks = mem.dirtyBlocks \cup {b} /\ n.dirtyFiles = mem.dirtyFiles \cup {FileOf(mem.index, b)},
           n.vinfo = mem.vinfo, n.nLastBlockFile = mem.nLastBlockFile,
           n.view = mem.view \cup {b}, n.viewBest = b, n.tip = mem.tip,
           n.flush.pc = "begin", n.flush.prune = {}, ~(n.flush.manual > 0), n.flush.newTip = b
    PROVE  OnDisk(d, safe, damage) /\ InMemory(n, d, safe, damage)
<1>1. /\ mem \in Memory /\ disk \in Storage /\ mem.flush.pc = "none"
      /\ mem.viewBest = mem.tip /\ InMemory(mem, disk, safe, damage) /\ OnDisk(disk, safe, damage)
  BY DEF IInv, TypeOK, Idle, InMemory, MemFlush
<1>2. /\ HasData(n.index, b) /\ HasUndo(n.index, b) /\ Known(n.index, b) /\ Known(mem.index, b)
      /\ \A c \in Blocks \ {b} :
            /\ HasData(n.index, c) <=> HasData(mem.index, c)
            /\ HasUndo(n.index, c) <=> HasUndo(mem.index, c)
            /\ Known(n.index, c) <=> Known(mem.index, c)
  BY NoneAssumption DEF HasData, HasUndo, Known
<1>3. \A c \in Blocks : HasData(mem.index, c) => FileOf(n.index, c) = FileOf(mem.index, c) /\ PosOf(n.index, c) = PosOf(mem.index, c)
  BY DEF FileOf, PosOf, SizeOf, HighOf
<1>4. \A c \in Blocks : /\ HasData(n.index, c) <=> HasData(mem.index, c)
                        /\ HasUndo(mem.index, c) => HasUndo(n.index, c)
  BY <1>2
<1>5. OnDisk(d, safe, damage)
  <2>1. DiskPlaces(d, safe) /\ DiskData(d, safe, damage)
    BY <1>1 DEF OnDisk, DiskPlaces, DiskData, At
  <2>2. DiskUndo(d, safe, damage)
    BY <1>1 DEF OnDisk, DiskUndo, Noted
  <2>3. DiskCoins(d, safe, damage) /\ DiskIndex(d, safe, damage)
    BY <1>1 DEF OnDisk, DiskCoins, DiskIndex
  <2> QED
    BY <2>1, <2>2, <2>3 DEF OnDisk
<1>6. MemPlaces(n, d)
  <2>0. Located(mem.index, mem.vinfo, mem.nLastBlockFile)
    BY <1>1 DEF InMemory, MemPlaces
  <2>1. Located(n.index, n.vinfo, n.nLastBlockFile)
    <3>1. \A c \in Blocks : HasData(n.index, c) =>
             /\ PosOf(n.index, c) < SizeOf(n.vinfo, FileOf(n.index, c))
             /\ nHeight[c] =< HighOf(n.vinfo, FileOf(n.index, c))
      BY <1>3, <1>4, <2>0 DEF Located
    <3>2. \A c, a \in Blocks :
             HasData(n.index, c) /\ HasData(n.index, a)
             /\ FileOf(n.index, c) = FileOf(n.index, a) /\ PosOf(n.index, c) = PosOf(n.index, a) => c = a
      BY <1>3, <1>4, <2>0 DEF Located
    <3>3. \A c \in Blocks : HasUndo(n.index, c) => HasData(n.index, c)
      BY <1>2, <2>0 DEF Located
    <3> QED
      BY <2>0, <3>1, <3>2, <3>3 DEF Located
  <2>2. \A c \in Blocks : HasData(d.db.index, c) =>
          \/ /\ HasData(n.index, c)
             /\ FileOf(n.index, c) = FileOf(d.db.index, c) /\ PosOf(n.index, c) = PosOf(d.db.index, c)
          \/ Forgotten(n, FileOf(d.db.index, c))
    <3>1. \A c \in Blocks : HasData(disk.db.index, c) =>
             \/ /\ HasData(mem.index, c)
                /\ FileOf(mem.index, c) = FileOf(disk.db.index, c) /\ PosOf(mem.index, c) = PosOf(disk.db.index, c)
             \/ Forgotten(mem, FileOf(disk.db.index, c))
      BY <1>1 DEF InMemory, MemPlaces
    <3>2. \A g : Forgotten(mem, g) => Forgotten(n, g)
      BY DEF Forgotten
    <3> QED
      BY <1>3, <1>4, <3>1, <3>2
  <2> QED
    BY <1>1, <2>1, <2>2 DEF InMemory, MemPlaces, Forgotten
<1>7. MemDirty(n, d)
  <2>1. \A c \in mem.dirtyBlocks :
           c \in Blocks /\ Known(mem.index, c) /\ (HasData(mem.index, c) => FileOf(mem.index, c) \in mem.dirtyFiles)
    BY <1>1 DEF Memory, InMemory, MemDirty
  <2>2. \A c \in n.dirtyBlocks :
           Known(n.index, c) /\ (HasData(n.index, c) => FileOf(n.index, c) \in n.dirtyFiles)
    <3> SUFFICES ASSUME NEW c \in n.dirtyBlocks
                 PROVE  Known(n.index, c) /\ (HasData(n.index, c) => FileOf(n.index, c) \in n.dirtyFiles)
      OBVIOUS
    <3>1. CASE c = b
      <4>1. b \in mem.dirtyBlocks => FileOf(mem.index, b) \in mem.dirtyFiles
        BY <2>1
      <4>2. FileOf(mem.index, b) \in n.dirtyFiles
        BY <3>1, <4>1
      <4> QED
        BY <1>2, <1>3, <3>1, <4>2
    <3>2. CASE c # b
      <4>1. c \in mem.dirtyBlocks
        BY <3>2
      <4>2. mem.dirtyFiles \subseteq n.dirtyFiles
        OBVIOUS
      <4> QED
        BY <1>2, <1>3, <2>1, <3>2, <4>1, <4>2
    <3> QED
      BY <3>1, <3>2
  <2>3. SizeOf(mem.vinfo, FileOf(mem.index, b)) # 0
    <3>1. PosOf(mem.index, b) < SizeOf(mem.vinfo, FileOf(mem.index, b))
      BY <1>1 DEF InMemory, MemPlaces, Located
    <3> QED
      BY SMTT(60), <1>1, <1>2, <3>1, MemoryTypes
  <2>4. ASSUME NEW c \in Blocks, HasData(d.db.index, c), FileOf(d.db.index, c) \in n.dirtyFiles,
               SizeOf(n.vinfo, FileOf(d.db.index, c)) = 0
        PROVE  c \in n.dirtyBlocks
    <3>1. HasData(disk.db.index, c) /\ FileOf(disk.db.index, c) \in mem.dirtyFiles
             /\ SizeOf(mem.vinfo, FileOf(disk.db.index, c)) = 0 => c \in mem.dirtyBlocks
      BY <1>1 DEF InMemory, MemDirty
    <3>2. FileOf(disk.db.index, c) # FileOf(mem.index, b)
      BY <2>3, <2>4
    <3> QED
      BY SMTT(60), <2>4, <3>1, <3>2
  <2> QED
    BY <2>2, <2>4 DEF MemDirty
<1>8. MemPrune(n, d) /\ MemFlush(n)
  BY DEF MemPrune, MemFlush
<1>9. MemData(n, d, safe, damage)
  <2> SUFFICES ASSUME "block" \notin damage, NEW c \in Blocks, HasData(n.index, c)
               PROVE  /\ At(d, c, n.index[c])
                      /\ FileOf(n.index, c) < mem.nLastBlockFile => At(safe, c, n.index[c])
    BY DEF MemData
  <2>1. /\ At(disk, c, mem.index[c])
        /\ FileOf(mem.index, c) < mem.nLastBlockFile => At(safe, c, mem.index[c])
    BY <1>1, <1>4 DEF InMemory, MemData
  <2>2. FileOf(n.index, c) = FileOf(mem.index, c) /\ PosOf(n.index, c) = PosOf(mem.index, c)
    BY <1>3, <1>4
  <2> QED
    BY <2>1, <2>2 DEF At, FileOf, PosOf, SizeOf, HighOf
<1>10. MemUndo(n, d, safe, damage)
  <2> SUFFICES ASSUME "undo" \notin damage, NEW c \in Blocks, HasUndo(n.index, c)
               PROVE  Noted(d, c, n.index[c])
    BY DEF MemUndo
  <2>1. HasUndo(mem.index, c) => Noted(disk, c, mem.index[c])
    BY <1>1 DEF InMemory, MemUndo
  <2>2. HasUndo(mem.index, c) \/ c = b
    BY <1>2
  <2> QED
    BY SMTT(60), <2>1, <2>2 DEF Noted, FileOf, PosOf, SizeOf, HighOf
<1>11. MemCoins(n, damage)
  <2>1. ChainTo[b] = ChainTo[mem.tip] \cup {b}
    BY SMTT(60), Chains
  <2> QED
    BY SMTT(60), <1>1, <2>1 DEF InMemory, MemCoins
<1>12. MemIndex(n, d, damage)
  <2>1. Genesis \in Blocks /\ \A c \in Blocks \ {Genesis} : Parent[c] \in Blocks
    BY TreeAssumption
  <2>2. Closed(mem.index) => Closed(n.index)
    BY <1>2, <2>1 DEF Closed
  <2>3. ASSUME "index" \notin damage, NEW c \in Blocks, c \notin n.dirtyBlocks
        PROVE  n.index[c] = d.db.index[c]
    <3>1. c \notin mem.dirtyBlocks /\ n.index[c] = mem.index[c]
      BY <2>3
    <3> QED
      BY SMTT(60), <1>1, <2>3, <3>1 DEF InMemory, MemIndex
  <2> QED
    BY <1>1, <1>2, <2>2, <2>3 DEF InMemory, MemIndex
<1> QED
  BY <1>5, <1>6, <1>7, <1>8, <1>9, <1>10, <1>11, <1>12 DEF InMemory

\* AbortNode.
LEMMA AbortedInMemory ==
    ASSUME NEW m \in Memory, NEW d, NEW s, NEW dmg, InMemory(m, d, s, dmg),
           NEW n, n = [m EXCEPT !.aborting = TRUE]
    PROVE  n \in Memory /\ n.aborting = TRUE /\ n.tip = m.tip /\ InMemory(n, d, s, dmg)
<1>1. n \in Memory /\ n.aborting = TRUE
  BY DEF Memory
<1>2. /\ n.index = m.index /\ n.vinfo = m.vinfo /\ n.nLastBlockFile = m.nLastBlockFile
      /\ n.dirtyBlocks = m.dirtyBlocks /\ n.dirtyFiles = m.dirtyFiles /\ n.view = m.view
      /\ n.viewBest = m.viewBest /\ n.tip = m.tip /\ n.flush = m.flush
  BY DEF Memory
<1>3. MemPlaces(n, d) /\ MemDirty(n, d) /\ MemPrune(n, d)
  BY <1>2 DEF InMemory, MemPlaces, MemDirty, MemPrune, Forgotten
<1>4. MemFlush(n)
  BY <1>1, <1>2 DEF InMemory, MemFlush
<1>5. MemData(n, d, s, dmg) /\ MemUndo(n, d, s, dmg) /\ MemCoins(n, dmg) /\ MemIndex(n, d, dmg)
  BY <1>2 DEF InMemory, MemData, MemUndo, MemCoins, MemIndex
<1> QED
  BY <1>1, <1>2, <1>3, <1>4, <1>5 DEF InMemory

\* ConnectTip, with the undo data written, there before, or refused.
LEMMA ConnectIInv ==
    ASSUME IInv, NEW b \in Blocks, ConnectTip(b)
    PROVE  IInv'
<1>1. /\ Idle /\ ~mem.aborting /\ b \in Blocks \ {Genesis} /\ Parent[b] = mem.tip
      /\ UNCHANGED <<safe, phase, damage>> /\ troubles' \in 0 .. MaxTroubles
      /\ mem \in Memory /\ disk \in Storage /\ safe \in Storage /\ phase = "up"
      /\ mem.tip \in Blocks
  <2>1. Idle /\ ~mem.aborting /\ b # Genesis /\ Parent[b] = mem.tip /\ UNCHANGED <<safe, phase, damage>>
    BY DEF ConnectTip
  <2>2. UNCHANGED troubles \/ Trouble
    BY DEF ConnectTip
  <2>3. troubles' \in 0 .. MaxTroubles
    BY SMTT(60), <2>2, BoundAssumption DEF Trouble, IInv, TypeOK
  <2>4. mem \in Memory /\ disk \in Storage /\ safe \in Storage /\ phase = "up" /\ mem.tip \in Blocks
    BY <2>1 DEF IInv, TypeOK, Memory, Idle
  <2> QED
    BY <2>1, <2>3, <2>4
<1>2. HasData(mem.index, b)
  <2>1. PICK c \in MostWork : b \in ChainTo[c]
    BY DEF ConnectTip
  <2>2. b \notin ChainTo[mem.tip]
    BY <1>1, ChainHeights
  <2> QED
    BY <2>1, <2>2 DEF MostWork, Candidates
<1>3. mem.index[b] \in Entries /\ FileOf(mem.index, b) \in Files
  BY <1>1, <1>2, MemoryTypes DEF HasData
<1>4. PICK fl \in Flushes :
        /\ fl = BeginFlush("IF_NEEDED", 0, b, FALSE)
        /\ fl.pc = "begin" /\ fl.manual = 0 /\ ~(fl.manual > 0) /\ fl.prune = {} /\ fl.newTip = b
  <2>1. "IF_NEEDED" \in Modes
    BY DEF Modes
  <2> QED
    BY <2>1, BeginFlushFalse
<1>5. CASE /\ disk' = [disk EXCEPT !.rev = @ \cup {<<FileOf(mem.index, b), b>>}]
           /\ \E allocates \in BOOLEAN :
                 mem' = [UndoWritten(b, allocates) EXCEPT !.view = @ \cup {b}, !.viewBest = b, !.flush = fl]
  <2>1. PICK allocates \in BOOLEAN :
          mem' = [UndoWritten(b, allocates) EXCEPT !.view = @ \cup {b}, !.viewBest = b, !.flush = fl]
    BY <1>5
  <2> DEFINE e == [mem.index[b] EXCEPT !.undo = TRUE]
  <2>2. /\ e \in Entries /\ e.undo /\ e.data
        /\ e.nFile = FileOf(mem.index, b) /\ e.nPos = PosOf(mem.index, b)
    BY <1>2, <1>3 DEF Entries, HasData, FileOf, PosOf, SizeOf, HighOf
  <2>3. mem' = [mem EXCEPT !.index = [mem.index EXCEPT ![b] = e], !.dirtyBlocks = mem.dirtyBlocks \cup {b},
                           !.dirtyFiles = mem.dirtyFiles \cup {FileOf(mem.index, b)},
                           !.fCheckForPruning = mem.fCheckForPruning \/ allocates,
                           !.view = mem.view \cup {b}, !.viewBest = b, !.flush = fl]
    BY <1>1, <2>1 DEF UndoWritten, Memory, FileOf, PosOf, SizeOf, HighOf
  <2> HIDE DEF e
  <2>4. [mem.index EXCEPT ![b] = e] \in [Blocks -> Entries \cup {None}]
        /\ mem.dirtyFiles \cup {FileOf(mem.index, b)} \in SUBSET Files
    BY <1>1, <1>3, <2>2 DEF Memory
  <2>5. mem' \in Memory
    BY <1>1, <2>3, <2>4 DEF Memory
  <2>6. /\ mem'.index = [mem.index EXCEPT ![b] = e] /\ mem'.dirtyBlocks = mem.dirtyBlocks \cup {b}
        /\ mem'.dirtyFiles = mem.dirtyFiles \cup {FileOf(mem.index, b)} /\ mem'.vinfo = mem.vinfo
        /\ mem'.nLastBlockFile = mem.nLastBlockFile /\ mem'.view = mem.view \cup {b} /\ mem'.viewBest = b
        /\ mem'.tip = mem.tip /\ mem'.flush = fl
    BY <1>1, <2>3 DEF Memory
  <2>7. mem'.index[b] = e /\ \A c \in Blocks \ {b} : mem'.index[c] = mem.index[c]
    BY <1>1, <2>6 DEF Memory
  <2>8. /\ disk' \in Storage /\ disk'.db = disk.db /\ disk'.coins = disk.coins /\ disk'.blk = disk.blk
        /\ disk'.rev = disk.rev \cup {<<FileOf(mem.index, b), b>>}
    <3>1. PICK R \in SUBSET (Files \X Blocks) :
            R = disk.rev \cup {<<FileOf(mem.index, b), b>>} /\ disk' = [disk EXCEPT !.rev = R]
      <4>1. disk.rev \cup {<<FileOf(mem.index, b), b>>} \in SUBSET (Files \X Blocks)
        BY SMTT(60), <1>1, <1>3 DEF Storage
      <4>2. disk' = [disk EXCEPT !.rev = disk.rev \cup {<<FileOf(mem.index, b), b>>}]
        BY <1>1, <1>5 DEF Storage
      <4> QED
        BY <4>1, <4>2
    <3> QED
      BY <1>1, <3>1 DEF Storage
  <2>9. disk.rev \subseteq disk'.rev /\ <<FileOf(mem.index, b), b>> \in disk'.rev
    BY <2>8
  <2>10. OnDisk(disk', safe, damage) /\ InMemory(mem', disk', safe, damage)
    <3>1. /\ mem'.flush.pc = "begin" /\ mem'.flush.prune = {} /\ ~(mem'.flush.manual > 0)
          /\ mem'.flush.newTip = b
      BY <1>4, <2>6
    <3>2. b \in Blocks \ {Genesis} /\ Idle /\ ~mem.aborting /\ Parent[b] = mem.tip
      BY <1>1
    <3> QED
      BY <1>2, <2>2, <2>5, <2>6, <2>7, <2>8, <2>9, <3>1, <3>2, ConnectedInMemory
  <2> QED
    BY <1>1, <2>5, <2>8, <2>10 DEF IInv, TypeOK
<1>6. CASE /\ HasUndo(mem.index, b)
           /\ mem' = [mem EXCEPT !.view = @ \cup {b}, !.viewBest = b, !.flush = fl]
           /\ UNCHANGED disk
  <2>1. mem' \in Memory
    BY <1>1, <1>6 DEF Memory
  <2>2. /\ mem'.index = mem.index /\ mem'.dirtyBlocks = mem.dirtyBlocks
        /\ mem'.dirtyFiles = mem.dirtyFiles /\ mem'.vinfo = mem.vinfo
        /\ mem'.nLastBlockFile = mem.nLastBlockFile /\ mem'.view = mem.view \cup {b} /\ mem'.viewBest = b
        /\ mem'.tip = mem.tip /\ mem'.flush = fl
    BY <1>1, <1>6 DEF Memory
  <2>3. PICK e \in Entries : /\ e = mem.index[b] /\ mem'.index[b] = e /\ e.data /\ e.undo
                             /\ e.nFile = FileOf(mem.index, b) /\ e.nPos = PosOf(mem.index, b)
    BY <1>2, <1>3, <1>6, <2>2 DEF HasData, HasUndo, FileOf, PosOf, SizeOf, HighOf
  <2>4. /\ \A c \in Blocks \ {b} : mem'.index[c] = mem.index[c]
        /\ disk'.db = disk.db /\ disk'.coins = disk.coins /\ disk'.blk = disk.blk /\ disk.rev \subseteq disk'.rev
    BY <1>6, <2>2
  <2>5. OnDisk(disk', safe, damage) /\ InMemory(mem', disk', safe, damage)
    <3>1. /\ mem'.flush.pc = "begin" /\ mem'.flush.prune = {} /\ ~(mem'.flush.manual > 0)
          /\ mem'.flush.newTip = b
      BY <1>4, <2>2
    <3>2. b \in Blocks \ {Genesis} /\ Idle /\ ~mem.aborting /\ Parent[b] = mem.tip /\ HasUndo(mem.index, b)
      BY <1>1, <1>6
    <3> QED
      BY <1>2, <2>1, <2>2, <2>3, <2>4, <3>1, <3>2, ConnectedInMemory
  <2> QED
    BY <1>1, <1>6, <2>1, <2>5 DEF IInv, TypeOK
<1>7. CASE mem' = [mem EXCEPT !.aborting = TRUE] /\ UNCHANGED disk
  <2>1. mem' \in Memory /\ InMemory(mem', disk, safe, damage)
    BY <1>1, <1>7, AbortedInMemory DEF IInv
  <2> QED
    BY <1>1, <1>7, <2>1 DEF IInv, TypeOK
<1> QED
  BY <1>4, <1>5, <1>6, <1>7 DEF ConnectTip, FileOf, PosOf, SizeOf, HighOf

\* DisconnectTip.
LEMMA DisconnectIInv ==
    ASSUME IInv, DisconnectTip
    PROVE  IInv'
<1>1. /\ Idle /\ ~mem.aborting /\ mem.viewBest = mem.tip
      /\ UNCHANGED <<disk, safe, phase, troubles, damage>>
      /\ mem \in Memory /\ disk \in Storage /\ safe \in Storage /\ phase = "up"
      /\ mem.tip \in Blocks /\ mem.flush.pc = "none" /\ InMemory(mem, disk, safe, damage)
  BY DEF DisconnectTip, IInv, TypeOK, Idle, Memory
<1>2. mem.tip # Genesis
  <2>1. PICK c \in MostWork : mem.tip \notin ChainTo[c] /\ c \in Blocks
    BY DEF DisconnectTip, MostWork, Candidates
  <2> QED
    BY <2>1, GenesisFirst
<1>3. PICK t \in Blocks : t = Parent[mem.tip]
  BY <1>1, <1>2, TreeAssumption
<1>4. PICK fl \in Flushes :
        /\ fl = BeginFlush("IF_NEEDED", 0, t, FALSE)
        /\ fl.pc = "begin" /\ fl.manual = 0 /\ ~(fl.manual > 0) /\ fl.prune = {} /\ fl.newTip = t
  <2>1. "IF_NEEDED" \in Modes
    BY DEF Modes
  <2> QED
    BY <2>1, BeginFlushFalse
<1>5. CASE mem' = [mem EXCEPT !.view = @ \ {mem.tip}, !.viewBest = t, !.flush = fl]
  <2>1. mem' \in Memory
    BY <1>1, <1>5 DEF Memory
  <2>2. /\ mem'.index = mem.index /\ mem'.dirtyBlocks = mem.dirtyBlocks
        /\ mem'.dirtyFiles = mem.dirtyFiles /\ mem'.vinfo = mem.vinfo
        /\ mem'.nLastBlockFile = mem.nLastBlockFile /\ mem'.view = mem.view \ {mem.tip} /\ mem'.viewBest = t
        /\ mem'.tip = mem.tip /\ mem'.flush = fl
    BY <1>1, <1>5 DEF Memory
  <2>3. MemPlaces(mem', disk) /\ MemDirty(mem', disk)
    <3>1. MemPlaces(mem, disk) /\ MemDirty(mem, disk)
      BY <1>1 DEF InMemory
    <3>2. \A g : Forgotten(mem', g) <=> Forgotten(mem, g)
      BY <2>2 DEF Forgotten
    <3>3. MemPlaces(mem', disk)
      BY <2>2, <3>1, <3>2 DEF MemPlaces
    <3> QED
      BY <2>2, <3>1, <3>3 DEF MemDirty
  <2>4. MemPrune(mem', disk) /\ MemFlush(mem')
    BY <1>4, <2>2 DEF MemPrune, MemFlush
  <2>5. MemData(mem', disk, safe, damage) /\ MemUndo(mem', disk, safe, damage)
    BY <1>1, <1>4, <2>2 DEF InMemory, MemData, MemUndo
  <2>6. MemCoins(mem', damage)
    <3>1. ChainTo[mem.tip] = ChainTo[t] \cup {mem.tip} /\ mem.tip \notin ChainTo[t]
      BY <1>1, <1>2, <1>3, Chains, ChainHeights
    <3> QED
      BY <1>1, <2>2, <3>1 DEF InMemory, MemCoins
  <2>7. MemIndex(mem', disk, damage)
    BY <1>1, <1>2, <1>3, <2>2 DEF InMemory, MemIndex, Closed
  <2>8. InMemory(mem', disk, safe, damage)
    BY <2>3, <2>4, <2>5, <2>6, <2>7 DEF InMemory
  <2> QED
    BY <1>1, <2>1, <2>8 DEF IInv, TypeOK
<1>6. CASE mem' = [mem EXCEPT !.aborting = TRUE]
  <2>1. mem' \in Memory /\ InMemory(mem', disk, safe, damage)
    BY <1>1, <1>6, AbortedInMemory
  <2> QED
    BY <1>1, <2>1 DEF IInv, TypeOK
<1> QED
  BY <1>3, <1>4, <1>5, <1>6 DEF DisconnectTip

-----------------------------------------------------------------------------
(* FlushStateToDisk *)

\* std::min of two heights.
LEMMA MinOfTwo ==
    ASSUME NEW x \in Nat, NEW y \in Nat
    PROVE  Min({x, y}) \in Nat /\ Min({x, y}) =< x /\ Min({x, y}) =< y
<1>1. \E z \in {x, y} : \A w \in {x, y} : z =< w
  BY SMTT(60)
<1> QED
  BY <1>1 DEF Min

\* Only files before the last one are pruned, and none with a block above the limit.
LEMMA FilesToPruneFacts ==
    ASSUME mem \in Memory, NEW S \in FilesToPrune
    PROVE  /\ S \subseteq Files
           /\ \A f \in S : /\ f < mem.nLastBlockFile /\ SizeOf(mem.vinfo, f) # 0
                           /\ HighOf(mem.vinfo, f) =< nLastBlockWeCanPrune
           /\ S # {} => mem.flush.manual > 0 \/ nHeight[mem.tip] > nPruneAfterHeight
<1>1. mem.nLastBlockFile \in Nat /\ mem.nLastBlockFile =< LastFile /\ LastFile \in Nat /\ mem.flush.manual \in Nat
      /\ nLastBlockWeCanPrune \in Nat
  <2>1. mem.tip \in Blocks /\ mem.flush.manual \in Nat /\ mem.nLastBlockFile \in Files
    BY DEF Memory, Flushes
  <2>2. nHeight[mem.tip] - MIN_BLOCKS_TO_KEEP \in Int
    BY SMTT(60), <2>1, Heights, BoundAssumption
  <2> QED
    BY SMTT(60), <2>1, <2>2, UIntType, FileAssumption DEF nLastBlockWeCanPrune, Files
<1>2. ASSUME NEW limit \in Nat, limit =< nLastBlockWeCanPrune, NEW f \in Prunable(limit)
      PROVE  /\ f \in Files /\ f < mem.nLastBlockFile /\ SizeOf(mem.vinfo, f) # 0
             /\ HighOf(mem.vinfo, f) =< nLastBlockWeCanPrune
  <2>1. f \in Files /\ f < mem.nLastBlockFile /\ SizeOf(mem.vinfo, f) # 0 /\ HighOf(mem.vinfo, f) =< limit
    BY SMTT(60), <1>1, <1>2 DEF Prunable, Files, FileOf, PosOf, SizeOf, HighOf
  <2>2. HighOf(mem.vinfo, f) \in Nat
    BY <2>1, MemoryTypes
  <2> QED
    BY SMTT(60), <1>1, <1>2, <2>1, <2>2
<1>3. CASE mem.flush.manual > 0
  <2>1. S = Prunable(Min({mem.flush.manual, nLastBlockWeCanPrune}))
    BY <1>3 DEF FilesToPrune
  <2>2. Min({mem.flush.manual, nLastBlockWeCanPrune}) \in Nat
        /\ Min({mem.flush.manual, nLastBlockWeCanPrune}) =< nLastBlockWeCanPrune
    BY <1>1, MinOfTwo
  <2> QED
    BY <1>2, <1>3, <2>1, <2>2
<1>4. CASE ~(mem.flush.manual > 0) /\ mem.fCheckForPruning /\ nHeight[mem.tip] > nPruneAfterHeight
  <2>1. S \subseteq Prunable(nLastBlockWeCanPrune)
    BY <1>4 DEF FilesToPrune
  <2>2. nLastBlockWeCanPrune =< nLastBlockWeCanPrune
    BY SMTT(60), <1>1
  <2> QED
    BY <1>1, <1>2, <1>4, <2>1, <2>2
<1>5. CASE ~(mem.flush.manual > 0) /\ ~(mem.fCheckForPruning /\ nHeight[mem.tip] > nPruneAfterHeight)
  BY <1>5 DEF FilesToPrune
<1> QED
  BY <1>3, <1>4, <1>5

\* What PruneOneBlockFile leaves of the index and of vinfoBlockFile.
LEMMA PrunedFacts ==
    ASSUME mem \in Memory, NEW S \in SUBSET Files
    PROVE  /\ Pruned(S) \in Memory
           /\ \A c \in Blocks : Known(Pruned(S).index, c) <=> Known(mem.index, c)
           /\ \A c \in Blocks : HasData(Pruned(S).index, c) <=> HasData(mem.index, c) /\ FileOf(mem.index, c) \notin S
           /\ \A c \in Blocks : HasUndo(Pruned(S).index, c) <=> HasUndo(mem.index, c) /\ FileOf(mem.index, c) \notin S
           /\ \A c \in Blocks : c \notin InFiles(S) => Pruned(S).index[c] = mem.index[c]
           /\ \A f \in S : SizeOf(Pruned(S).vinfo, f) = 0
           /\ \A f \in Files \ S : Pruned(S).vinfo[f] = mem.vinfo[f]
           /\ Pruned(S).dirtyBlocks = mem.dirtyBlocks \cup InFiles(S)
           /\ Pruned(S).dirtyFiles = mem.dirtyFiles \cup S
           /\ Pruned(S).nLastBlockFile = mem.nLastBlockFile /\ Pruned(S).view = mem.view
           /\ Pruned(S).viewBest = mem.viewBest /\ Pruned(S).tip = mem.tip
           /\ Pruned(S).aborting = mem.aborting /\ Pruned(S).flush = mem.flush
<1> DEFINE gone == [nFile |-> 0, nPos |-> 0, data |-> FALSE, undo |-> FALSE]
           I == [b \in Blocks |-> IF b \in InFiles(S) THEN gone ELSE mem.index[b]]
           V == [f \in Files |-> IF f \in S THEN EmptyInfo ELSE mem.vinfo[f]]
           n == Pruned(S)
<1>1. gone \in Entries /\ gone.data = FALSE /\ gone.undo = FALSE
  BY SMTT(60), FileAssumption DEF Entries, Files, Positions
<1>2. EmptyInfo \in FileInfos /\ EmptyInfo.nSize = 0
  BY SMTT(60), FileAssumption DEF EmptyInfo, FileInfos
<1>3. gone # None
  BY <1>1, NoneAssumption
<1> HIDE DEF gone
<1>4. I \in [Blocks -> Entries \cup {None}] /\ \A c \in Blocks : I[c] = IF c \in InFiles(S) THEN gone ELSE mem.index[c]
  BY <1>1 DEF Memory
<1>5. V \in [Files -> FileInfos] /\ \A f \in Files : V[f] = IF f \in S THEN EmptyInfo ELSE mem.vinfo[f]
  BY <1>2 DEF Memory
<1>6. n = [mem EXCEPT !.index = I, !.vinfo = V, !.dirtyBlocks = mem.dirtyBlocks \cup InFiles(S),
                      !.dirtyFiles = mem.dirtyFiles \cup S,
                      !.fCheckForPruning = mem.fCheckForPruning /\ mem.flush.manual > 0,
                      !.fHavePruned = mem.fHavePruned \/ S # {}]
  BY DEF Pruned, gone, Memory
<1> HIDE DEF I, V, n
<1>7. InFiles(S) \subseteq Blocks
  BY DEF InFiles
<1>8. n \in Memory
  BY <1>4, <1>5, <1>6, <1>7 DEF Memory
<1>9. /\ n.index = I /\ n.vinfo = V /\ n.dirtyBlocks = mem.dirtyBlocks \cup InFiles(S)
      /\ n.dirtyFiles = mem.dirtyFiles \cup S /\ n.nLastBlockFile = mem.nLastBlockFile /\ n.view = mem.view
      /\ n.viewBest = mem.viewBest /\ n.tip = mem.tip /\ n.aborting = mem.aborting /\ n.flush = mem.flush
  BY <1>6 DEF Memory
<1>10. \A c \in Blocks : /\ Known(I, c) <=> Known(mem.index, c)
                         /\ HasData(I, c) <=> HasData(mem.index, c) /\ FileOf(mem.index, c) \notin S
                         /\ HasUndo(I, c) <=> HasUndo(mem.index, c) /\ FileOf(mem.index, c) \notin S
  BY <1>1, <1>3, <1>4 DEF Known, HasData, HasUndo, InFiles, FileOf, PosOf, SizeOf, HighOf
<1> QED
  BY <1>2, <1>4, <1>5, <1>8, <1>9, <1>10 DEF n, FileOf, PosOf, SizeOf, HighOf

\* PruneOneBlockFile for files before the last one: memory forgets them, and what
\* it has to write of them is dirty.
LEMMA PrunedInMemory ==
    ASSUME IInv, NEW S \in SUBSET Files,
           \A f \in S : f < mem.nLastBlockFile /\ SizeOf(mem.vinfo, f) # 0,
           mem.flush.pc = "begin",
           NEW d, d.db = disk.db, d.coins = disk.coins, d.blk = disk.blk, d.rev = disk.rev,
           NEW n \in Memory, SameButFlush(Pruned(S), n),
           \/ n.flush = mem.flush
           \/ n.flush.pc = "files" /\ n.flush.prune = S /\ ~(n.flush.manual > 0) /\ n.flush.newTip = mem.flush.newTip
    PROVE  OnDisk(d, safe, damage) /\ InMemory(n, d, safe, damage)
<1>1. /\ mem \in Memory /\ disk \in Storage /\ InMemory(mem, disk, safe, damage) /\ OnDisk(disk, safe, damage)
  BY DEF IInv, TypeOK
<1>2. /\ \A c \in Blocks : Known(n.index, c) <=> Known(mem.index, c)
      /\ \A c \in Blocks : HasData(n.index, c) <=> HasData(mem.index, c) /\ FileOf(mem.index, c) \notin S
      /\ \A c \in Blocks : HasUndo(n.index, c) <=> HasUndo(mem.index, c) /\ FileOf(mem.index, c) \notin S
      /\ \A c \in Blocks : c \notin InFiles(S) => n.index[c] = mem.index[c]
  <2> DEFINE I == Pruned(S).index
  <2>1. n.index = I
    BY DEF SameButFlush
  <2>2. /\ \A c \in Blocks : Known(I, c) <=> Known(mem.index, c)
        /\ \A c \in Blocks : HasData(I, c) <=> HasData(mem.index, c) /\ FileOf(mem.index, c) \notin S
        /\ \A c \in Blocks : HasUndo(I, c) <=> HasUndo(mem.index, c) /\ FileOf(mem.index, c) \notin S
        /\ \A c \in Blocks : c \notin InFiles(S) => I[c] = mem.index[c]
    BY <1>1, PrunedFacts
  <2> HIDE DEF I
  <2> QED
    BY <2>1, <2>2
<1>3. /\ \A f \in S : SizeOf(n.vinfo, f) = 0
      /\ \A f \in Files \ S : n.vinfo[f] = mem.vinfo[f]
      /\ n.dirtyBlocks = mem.dirtyBlocks \cup InFiles(S) /\ n.dirtyFiles = mem.dirtyFiles \cup S
      /\ n.nLastBlockFile = mem.nLastBlockFile /\ n.view = mem.view
      /\ n.viewBest = mem.viewBest /\ n.tip = mem.tip /\ n.aborting = mem.aborting
  <2> DEFINE p == Pruned(S)
  <2>1. /\ n.vinfo = p.vinfo /\ n.nLastBlockFile = p.nLastBlockFile
        /\ n.dirtyBlocks = p.dirtyBlocks /\ n.dirtyFiles = p.dirtyFiles /\ n.view = p.view
        /\ n.viewBest = p.viewBest /\ n.aborting = p.aborting /\ n.tip = p.tip
    BY DEF SameButFlush
  <2>2. /\ \A f \in S : SizeOf(p.vinfo, f) = 0
        /\ \A f \in Files \ S : p.vinfo[f] = mem.vinfo[f]
        /\ p.dirtyBlocks = mem.dirtyBlocks \cup InFiles(S) /\ p.dirtyFiles = mem.dirtyFiles \cup S
        /\ p.nLastBlockFile = mem.nLastBlockFile /\ p.view = mem.view
        /\ p.viewBest = mem.viewBest /\ p.tip = mem.tip /\ p.aborting = mem.aborting
    BY <1>1, PrunedFacts
  <2> HIDE DEF p
  <2> QED
    BY <2>1, <2>2
<1>4. \A c \in Blocks : HasData(n.index, c) =>
         /\ HasData(mem.index, c) /\ n.index[c] = mem.index[c] /\ FileOf(mem.index, c) \in Files \ S
  BY <1>1, <1>2, MemoryTypes DEF InFiles, HasData, FileOf, PosOf, SizeOf, HighOf
<1>5. OnDisk(d, safe, damage)
  <2>1. DiskPlaces(d, safe) /\ DiskData(d, safe, damage) /\ DiskUndo(d, safe, damage)
    BY <1>1 DEF OnDisk, DiskPlaces, DiskData, DiskUndo, At, Noted
  <2>2. DiskCoins(d, safe, damage) /\ DiskIndex(d, safe, damage)
    BY <1>1 DEF OnDisk, DiskCoins, DiskIndex
  <2> QED
    BY <2>1, <2>2 DEF OnDisk
<1>6. \A f \in Files : Forgotten(mem, f) \/ f \in S => Forgotten(n, f)
  BY <1>3 DEF Forgotten, FileOf, PosOf, SizeOf, HighOf
<1>7. MemPlaces(n, d)
  <2>0. Located(mem.index, mem.vinfo, mem.nLastBlockFile)
    BY <1>1 DEF InMemory, MemPlaces
  <2>1. Located(n.index, n.vinfo, n.nLastBlockFile)
    <3>1. \A c \in Blocks : HasData(n.index, c) =>
             /\ PosOf(n.index, c) < SizeOf(n.vinfo, FileOf(n.index, c))
             /\ nHeight[c] =< HighOf(n.vinfo, FileOf(n.index, c))
      <4> SUFFICES ASSUME NEW c \in Blocks, HasData(n.index, c)
                   PROVE  /\ PosOf(n.index, c) < SizeOf(n.vinfo, FileOf(n.index, c))
                          /\ nHeight[c] =< HighOf(n.vinfo, FileOf(n.index, c))
        OBVIOUS
      <4>1. HasData(mem.index, c) /\ n.index[c] = mem.index[c] /\ FileOf(mem.index, c) \in Files \ S
        BY <1>4
      <4>2. n.vinfo[FileOf(mem.index, c)] = mem.vinfo[FileOf(mem.index, c)]
        BY <1>3, <4>1
      <4>3. /\ PosOf(mem.index, c) < SizeOf(mem.vinfo, FileOf(mem.index, c))
            /\ nHeight[c] =< HighOf(mem.vinfo, FileOf(mem.index, c))
        BY <2>0, <4>1 DEF Located
      <4> QED
        BY <4>1, <4>2, <4>3 DEF FileOf, PosOf, SizeOf, HighOf
    <3>2. \A c, a \in Blocks :
             HasData(n.index, c) /\ HasData(n.index, a)
             /\ FileOf(n.index, c) = FileOf(n.index, a) /\ PosOf(n.index, c) = PosOf(n.index, a) => c = a
      BY <1>4, <2>0 DEF Located, FileOf, PosOf, SizeOf, HighOf
    <3>3. \A c \in Blocks : HasUndo(n.index, c) => HasData(n.index, c)
      BY <1>2, <2>0 DEF Located
    <3>4. \A f \in Files : f > n.nLastBlockFile => SizeOf(n.vinfo, f) = 0
      BY SMTT(60), <1>3, <2>0 DEF Located, FileOf, PosOf, SizeOf, HighOf
    <3> QED
      BY <3>1, <3>2, <3>3, <3>4 DEF Located
  <2>2. ASSUME NEW c \in Blocks, HasData(d.db.index, c)
        PROVE  \/ /\ HasData(n.index, c)
                  /\ FileOf(n.index, c) = FileOf(d.db.index, c) /\ PosOf(n.index, c) = PosOf(d.db.index, c)
               \/ Forgotten(n, FileOf(d.db.index, c))
    <3>1. \/ /\ HasData(mem.index, c)
             /\ FileOf(mem.index, c) = FileOf(d.db.index, c) /\ PosOf(mem.index, c) = PosOf(d.db.index, c)
          \/ Forgotten(mem, FileOf(d.db.index, c))
      BY <1>1, <2>2 DEF InMemory, MemPlaces
    <3>2. FileOf(d.db.index, c) \in Files
      BY <1>1, <2>2, StorageTypes DEF HasData
    <3>3. CASE Forgotten(mem, FileOf(d.db.index, c)) \/ FileOf(d.db.index, c) \in S
      BY <1>6, <3>2, <3>3
    <3>4. CASE HasData(mem.index, c) /\ FileOf(d.db.index, c) \notin S /\ ~Forgotten(mem, FileOf(d.db.index, c))
      <4>1. HasData(n.index, c)
        BY <1>2, <3>1, <3>4
      <4> QED
        BY <1>4, <3>1, <3>4, <4>1 DEF FileOf, PosOf, SizeOf, HighOf
    <3> QED
      BY <3>1, <3>3, <3>4
  <2>3. \A f \in Files : SizeOf(d.db.vinfo, f) =< SizeOf(n.vinfo, f) \/ Forgotten(n, f)
    BY <1>1, <1>3, <1>6 DEF InMemory, MemPlaces, FileOf, PosOf, SizeOf, HighOf
  <2>4. d.db.last =< n.nLastBlockFile
    BY <1>1, <1>3 DEF InMemory, MemPlaces
  <2> QED
    BY <2>1, <2>2, <2>3, <2>4 DEF MemPlaces
<1>8. MemDirty(n, d)
  <2>1. ASSUME NEW c \in n.dirtyBlocks
        PROVE  Known(n.index, c) /\ (HasData(n.index, c) => FileOf(n.index, c) \in n.dirtyFiles)
    <3>1. c \in Blocks /\ Known(mem.index, c)
      BY <1>1, <1>3 DEF InMemory, MemDirty, InFiles, Memory
    <3>2. ASSUME HasData(n.index, c) PROVE FileOf(n.index, c) \in n.dirtyFiles
      <4>1. c \notin InFiles(S) /\ HasData(mem.index, c) /\ n.index[c] = mem.index[c]
        BY <1>4, <3>1, <3>2 DEF InFiles, FileOf, PosOf, SizeOf, HighOf
      <4> QED
        BY <1>1, <1>3, <4>1 DEF InMemory, MemDirty, FileOf, PosOf, SizeOf, HighOf
    <3> QED
      BY <1>2, <3>1, <3>2
  <2>2. ASSUME NEW c \in Blocks, HasData(d.db.index, c), FileOf(d.db.index, c) \in n.dirtyFiles,
               SizeOf(n.vinfo, FileOf(d.db.index, c)) = 0
        PROVE  c \in n.dirtyBlocks
    <3>1. FileOf(d.db.index, c) \in Files
      BY <1>1, <2>2, StorageTypes DEF HasData
    <3>2. CASE FileOf(d.db.index, c) \in S
      <4>1. ~Forgotten(mem, FileOf(d.db.index, c))
        BY <3>2 DEF Forgotten
      <4>2. HasData(mem.index, c) /\ FileOf(mem.index, c) = FileOf(d.db.index, c)
        BY <1>1, <2>2, <4>1 DEF InMemory, MemPlaces
      <4> QED
        BY <1>3, <3>2, <4>2 DEF InFiles, HasData, FileOf, PosOf, SizeOf, HighOf
    <3>3. CASE FileOf(d.db.index, c) \notin S
      <4>1. FileOf(d.db.index, c) \in mem.dirtyFiles
        BY <1>3, <2>2, <3>3
      <4>2. SizeOf(mem.vinfo, FileOf(d.db.index, c)) = 0
        BY <1>3, <2>2, <3>1, <3>3 DEF SizeOf
      <4>3. c \in mem.dirtyBlocks
        BY <1>1, <2>2, <4>1, <4>2 DEF InMemory, MemDirty
      <4> QED
        BY <1>3, <4>3
    <3> QED
      BY <3>2, <3>3
  <2> QED
    BY <2>1, <2>2 DEF MemDirty
<1>9. MemPrune(n, d)
  BY <1>1, <1>3 DEF MemPrune, InMemory, MemFlush
<1>10. MemFlush(n)
  BY <1>1, <1>3 DEF InMemory, MemFlush
<1>11. MemData(n, d, safe, damage)
  <2> SUFFICES ASSUME "block" \notin damage, NEW c \in Blocks, HasData(n.index, c)
               PROVE  /\ At(d, c, n.index[c])
                      /\ FileOf(n.index, c) < mem.nLastBlockFile => At(safe, c, n.index[c])
    BY <1>3 DEF MemData
  <2> QED
    BY <1>1, <1>4 DEF InMemory, MemData, At, FileOf, PosOf, SizeOf, HighOf
<1>12. MemUndo(n, d, safe, damage)
  <2> SUFFICES ASSUME "undo" \notin damage, NEW c \in Blocks, HasUndo(n.index, c)
               PROVE  Noted(d, c, n.index[c])
    BY DEF MemUndo
  <2>1. HasUndo(mem.index, c) /\ n.index[c] = mem.index[c]
    BY <1>2 DEF InFiles, FileOf, PosOf, SizeOf, HighOf
  <2> QED
    BY <1>1, <2>1 DEF InMemory, MemUndo, Noted
<1>13. MemCoins(n, damage) /\ MemIndex(n, d, damage)
  <2>1. Closed(mem.index) => Closed(n.index)
    BY <1>2, TreeAssumption DEF Closed
  <2>2. Known(mem.index, mem.viewBest) => Known(n.index, n.viewBest)
    BY <1>1, <1>2, <1>3 DEF Memory
  <2>3. ASSUME "index" \notin damage, NEW c \in Blocks, c \notin n.dirtyBlocks
        PROVE  n.index[c] = d.db.index[c]
    BY <1>1, <1>2, <1>3, <2>3 DEF InMemory, MemIndex
  <2> QED
    BY <1>1, <1>3, <2>1, <2>2, <2>3 DEF InMemory, MemCoins, MemIndex
<1> QED
  BY <1>5, <1>7, <1>8, <1>9, <1>10, <1>11, <1>12, <1>13 DEF InMemory

\* UpdateTip after a flush that succeeded: the coins are at the new tip.
LEMMA SucceedsIInv ==
    ASSUME NEW m \in Memory, m.flush.pc # "none", disk' \in Storage, safe' \in Storage,
           OnDisk(disk', safe', damage'),
           NEW w, SameButFlush(w, m), InMemory(w, disk', safe', damage'), MemFlush(m),
           phase = "up", troubles' \in 0 .. MaxTroubles,
           damage' \subseteq {"block", "undo", "index", "coins", "pruned"},
           FlushSucceeds(m)
    PROVE  IInv'
<1>1. m.flush.newTip \in Blocks /\ (~m.aborting => m.flush.newTip = m.viewBest)
  BY DEF Memory, Flushes, MemFlush
<1> QED
  BY <1>1, ReturnIInv DEF FlushSucceeds, TipAfterFlush

\* AbortNode after a flush that failed: the tip stays behind the coins.
LEMMA FailsIInv ==
    ASSUME NEW m \in Memory, disk' \in Storage, safe' \in Storage, OnDisk(disk', safe', damage'),
           NEW w \in Memory, SameButFlush(w, m), InMemory(w, disk', safe', damage'),
           phase = "up", troubles \in 0 .. MaxTroubles,
           damage' \subseteq {"block", "undo", "index", "coins", "pruned"},
           FlushFails(m)
    PROVE  IInv'
<1>1. troubles' \in 0 .. MaxTroubles
  BY SMTT(60), BoundAssumption DEF FlushFails, Trouble
<1>2. PICK n : n = [m EXCEPT !.aborting = TRUE] /\ Return(n, m.tip)
  BY DEF FlushFails, TipAfterFailure
<1>3. n \in Memory /\ n.aborting = TRUE /\ m.tip \in Blocks
  BY <1>2 DEF Memory
<1>4. PICK v : v = [w EXCEPT !.aborting = TRUE]
  OBVIOUS
<1>5. InMemory(v, disk', safe', damage')
  BY <1>4, AbortedInMemory
<1>6. SameButFlush(v, n)
  BY <1>2, <1>4 DEF SameButFlush, Memory
<1> QED
  BY <1>1, <1>2, <1>3, <1>5, <1>6, ReturnIInv

\* FlushStateToDisk chooses what to prune and what to write.
LEMMA FlushBeginsIInv ==
    ASSUME IInv, FlushBegins
    PROVE  IInv'
<1>1. /\ phase = "up" /\ mem.flush.pc = "begin" /\ UNCHANGED <<safe, troubles, damage>>
      /\ mem \in Memory /\ disk \in Storage /\ safe \in Storage /\ troubles \in 0 .. MaxTroubles
      /\ damage \subseteq {"block", "undo", "index", "coins", "pruned"}
  BY DEF FlushBegins, IInv, TypeOK
<1>2. PICK S \in FilesToPrune :
      \E extent \in IF S # {} THEN {"full"} ELSE Extent(mem.flush.mode) :
          /\ disk' = WriteFlag(S)
          /\ IF extent = "nothing"
             THEN FlushSucceeds(Pruned(S))
             ELSE /\ mem' = [Pruned(S) EXCEPT !.flush.prune = S, !.flush.mode = "NONE", !.flush.manual = 0,
                                              !.flush.full = extent = "full", !.flush.pc = "files"]
                  /\ UNCHANGED phase
  BY DEF FlushBegins
<1>3. PICK extent \in IF S # {} THEN {"full"} ELSE Extent(mem.flush.mode) :
          /\ disk' = WriteFlag(S)
          /\ IF extent = "nothing"
             THEN FlushSucceeds(Pruned(S))
             ELSE /\ mem' = [Pruned(S) EXCEPT !.flush.prune = S, !.flush.mode = "NONE", !.flush.manual = 0,
                                              !.flush.full = extent = "full", !.flush.pc = "files"]
                  /\ UNCHANGED phase
  BY <1>2
<1>4. S \in SUBSET Files /\ \A f \in S : f < mem.nLastBlockFile /\ SizeOf(mem.vinfo, f) # 0
  BY <1>1, FilesToPruneFacts
<1>5. PICK m \in Memory : m = Pruned(S) /\ m.flush = mem.flush
  BY SMTT(60), <1>1, <1>4, PrunedFacts
<1>6. /\ disk' \in Storage /\ disk'.db = disk.db /\ disk'.coins = disk.coins
      /\ disk'.blk = disk.blk /\ disk'.rev = disk.rev
  BY <1>1, <1>3 DEF WriteFlag, Storage
<1>7. CASE extent = "nothing"
  <2>1. OnDisk(disk', safe, damage) /\ InMemory(m, disk', safe, damage)
    BY <1>1, <1>4, <1>5, <1>6, PrunedInMemory DEF SameButFlush
  <2>2. FlushSucceeds(m)
    BY <1>3, <1>5, <1>7
  <2>3. MemFlush(m) /\ SameButFlush(m, m)
    BY <2>1 DEF InMemory, SameButFlush
  <2> QED
    BY <1>1, <1>5, <1>6, <2>1, <2>2, <2>3, SucceedsIInv
<1>8. CASE extent # "nothing"
  <2>1. PICK fl \in Flushes :
          /\ mem' = [m EXCEPT !.flush = fl] /\ fl.pc = "files" /\ fl.prune = S /\ fl.manual = 0
          /\ fl.newTip = mem.flush.newTip
    <3> DEFINE fl == [m.flush EXCEPT !.prune = S, !.mode = "NONE", !.manual = 0, !.full = (extent = "full"), !.pc = "files"]
    <3>1. m.flush \in Flushes
      BY DEF Memory
    <3>2. fl \in Flushes /\ fl.pc = "files" /\ fl.prune = S /\ fl.manual = 0 /\ fl.newTip = m.flush.newTip
      BY <1>4, <3>1 DEF Flushes, Modes
    <3>3. mem' = [m EXCEPT !.flush.prune = S, !.flush.mode = "NONE", !.flush.manual = 0,
                           !.flush.full = extent = "full", !.flush.pc = "files"]
      BY <1>3, <1>5, <1>8
    <3>4. mem' = [m EXCEPT !.flush = fl]
      BY <3>1, <3>3 DEF Memory, Flushes
    <3> HIDE DEF fl
    <3> QED
      BY <1>5, <3>2, <3>4
  <2>2. mem' \in Memory /\ SameButFlush(m, mem') /\ mem'.flush = fl
    BY <2>1 DEF Memory, SameButFlush
  <2>3. ~(mem'.flush.manual > 0)
    BY SMTT(60), <2>1, <2>2
  <2>4. OnDisk(disk', safe, damage) /\ InMemory(mem', disk', safe, damage)
    BY <1>1, <1>4, <1>5, <1>6, <2>1, <2>2, <2>3, PrunedInMemory
  <2>5. UNCHANGED phase
    BY <1>3, <1>8
  <2> QED
    BY <1>1, <1>6, <2>2, <2>4, <2>5 DEF IInv, TypeOK
<1> QED
  BY <1>7, <1>8

\* FlushBlockFile.
LEMMA FlushFilesIInv ==
    ASSUME IInv, FlushFiles
    PROVE  IInv'
<1>1. /\ phase = "up" /\ mem.flush.pc = "files" /\ UNCHANGED <<disk, damage>>
      /\ mem \in Memory /\ disk \in Storage /\ safe \in Storage /\ troubles \in 0 .. MaxTroubles
      /\ damage \subseteq {"block", "undo", "index", "coins", "pruned"}
      /\ InMemory(mem, disk, safe, damage) /\ OnDisk(disk, safe, damage) /\ mem.nLastBlockFile \in Files
  BY MemoryTypes DEF FlushFiles, IInv, TypeOK
<1>2. CASE UNCHANGED <<disk, safe>> /\ FlushFails(mem)
  <2>1. SameButFlush(mem, mem)
    BY DEF SameButFlush
  <2> QED
    BY <1>1, <1>2, <2>1, FailsIInv
<1>3. CASE /\ safe' = FlushBlockFile(mem.nLastBlockFile, safe)
           /\ mem' = [mem EXCEPT !.flush.pc = "index"] /\ UNCHANGED <<phase, troubles>>
  <2>1. mem.flush \in Flushes
    BY <1>1 DEF Memory
  <2>2. PICK fl \in Flushes :
          /\ mem' = [mem EXCEPT !.flush = fl] /\ fl.pc = "index" /\ fl.prune = mem.flush.prune
          /\ fl.manual = mem.flush.manual /\ fl.newTip = mem.flush.newTip
    <3> DEFINE fl == [mem.flush EXCEPT !.pc = "index"]
    <3>1. /\ fl \in Flushes /\ fl.pc = "index" /\ fl.prune = mem.flush.prune
          /\ fl.manual = mem.flush.manual /\ fl.newTip = mem.flush.newTip
      BY <2>1 DEF Flushes
    <3>2. mem' = [mem EXCEPT !.flush = fl]
      BY <1>1, <1>3, <2>1 DEF Memory, Flushes
    <3> HIDE DEF fl
    <3> QED
      BY <3>1, <3>2
  <2>3. mem' \in Memory /\ SameButFlush(mem, mem') /\ mem'.flush = fl
    BY <1>1, <2>2 DEF Memory, SameButFlush
  <2>4. PICK l \in Files : l = mem.nLastBlockFile /\ l \in Nat /\ safe' = FlushBlockFile(l, safe)
    BY <1>1, <1>3, MemoryTypes
  <2>5. safe' \in Storage /\ safe'.db = safe.db /\ safe'.coins = safe.coins
    <3>1. FlushBlockFile(l, safe) \in Storage
      BY <1>1, FlushBlockFileFacts
    <3>2. FlushBlockFile(l, safe).db = safe.db /\ FlushBlockFile(l, safe).coins = safe.coins
      BY <1>1, FlushBlockFileFacts
    <3> QED
      BY <2>4, <3>1, <3>2
  <2>6. safe'.rev = safe.rev \cup RevOf(l, disk)
    <3>1. FlushBlockFile(l, safe).rev = safe.rev \cup RevOf(l, disk)
      BY SMTT(60), <1>1, FlushBlockFileFacts
    <3> QED
      BY <2>4, <3>1
  <2>7. \A g \in Files : safe'.blk[g] = IF g = l THEN disk.blk[g] ELSE safe.blk[g]
    <3>1. \A g \in Files : FlushBlockFile(l, safe).blk[g] = IF g = l THEN disk.blk[g] ELSE safe.blk[g]
      BY SMTT(60), <1>1, FlushBlockFileFacts
    <3> QED
      BY <2>4, <3>1
  <2>8. OnDisk(disk, safe', damage)
    <3>1. DiskPlaces(disk, safe')
      BY <1>1, <2>5 DEF OnDisk, DiskPlaces
    <3>2. DiskData(disk, safe', damage)
      <4> SUFFICES ASSUME "block" \notin damage, NEW c \in Blocks, HasData(disk.db.index, c)
                   PROVE  At(disk, c, disk.db.index[c]) /\ At(safe', c, disk.db.index[c])
        BY DEF DiskData
      <4>1. At(disk, c, disk.db.index[c]) /\ At(safe, c, disk.db.index[c])
        BY <1>1 DEF OnDisk, DiskData
      <4>2. FileOf(disk.db.index, c) \in Files
        BY <1>1, StorageTypes DEF HasData
      <4> QED
        BY <2>7, <4>1, <4>2 DEF At, FileOf, PosOf, SizeOf, HighOf
    <3>3. DiskUndo(disk, safe', damage)
      BY <1>1, <2>6 DEF OnDisk, DiskUndo, Noted
    <3>4. DiskCoins(disk, safe', damage) /\ DiskIndex(disk, safe', damage)
      BY <1>1, <2>5 DEF OnDisk, DiskCoins, DiskIndex
    <3> QED
      BY <3>1, <3>2, <3>3, <3>4 DEF OnDisk
  <2>9. \A c \in Blocks : HasData(mem.index, c) =>
           /\ FileOf(mem.index, c) \in Files /\ FileOf(mem.index, c) \in Nat /\ FileOf(mem.index, c) =< l
    <3> SUFFICES ASSUME NEW c \in Blocks, HasData(mem.index, c)
                 PROVE  /\ FileOf(mem.index, c) \in Files /\ FileOf(mem.index, c) \in Nat /\ FileOf(mem.index, c) =< l
      OBVIOUS
    <3>1. FileOf(mem.index, c) \in Files /\ FileOf(mem.index, c) \in Nat /\ PosOf(mem.index, c) \in Nat
      BY <1>1, MemoryTypes DEF HasData
    <3>2. PosOf(mem.index, c) < SizeOf(mem.vinfo, FileOf(mem.index, c))
      BY <1>1 DEF InMemory, MemPlaces, Located
    <3>3. SizeOf(mem.vinfo, FileOf(mem.index, c)) # 0
      BY SMTT(60), <3>1, <3>2
    <3>4. ~(FileOf(mem.index, c) > l)
      BY <1>1, <2>4, <3>1, <3>3 DEF InMemory, MemPlaces, Located
    <3> QED
      BY SMTT(60), <2>4, <3>1, <3>4
  <2>10. InMemory(mem', disk, safe', damage)
    <3>1. MemPlaces(mem', disk) /\ MemDirty(mem', disk)
      BY <1>1, <2>3 DEF InMemory, MemPlaces, MemDirty, Forgotten, SameButFlush
    <3>2. MemPrune(mem', disk)
      BY <1>1, <2>2, <2>3 DEF InMemory, MemPrune, SameButFlush
    <3>3. MemFlush(mem')
      BY <1>1, <2>2, <2>3 DEF InMemory, MemFlush, SameButFlush
    <3>4. MemData(mem', disk, safe', damage)
      <4> SUFFICES ASSUME "block" \notin damage, NEW c \in Blocks, HasData(mem.index, c)
                   PROVE  At(disk, c, mem.index[c]) /\ At(safe', c, mem.index[c])
        BY <2>3 DEF MemData, SameButFlush
      <4>1. At(disk, c, mem.index[c]) /\ (FileOf(mem.index, c) < l => At(safe, c, mem.index[c]))
        BY <1>1, <2>4 DEF InMemory, MemData
      <4>2. FileOf(mem.index, c) \in Files /\ (FileOf(mem.index, c) < l \/ FileOf(mem.index, c) = l)
        BY SMTT(60), <2>4, <2>9
      <4> QED
        BY <2>7, <4>1, <4>2 DEF At, FileOf, PosOf, SizeOf, HighOf
    <3>5. MemUndo(mem', disk, safe', damage)
      <4> SUFFICES ASSUME "undo" \notin damage, NEW c \in Blocks, HasUndo(mem.index, c)
                   PROVE  /\ Noted(disk, c, mem.index[c])
                          /\ Noted(safe', c, mem.index[c]) \/ FileOf(mem.index, c) < l
        BY <2>3, <2>4 DEF MemUndo, SameButFlush
      <4>1. Noted(disk, c, mem.index[c]) /\ HasData(mem.index, c)
        BY <1>1 DEF InMemory, MemUndo, MemPlaces, Located
      <4>2. FileOf(mem.index, c) < l \/ FileOf(mem.index, c) = l
        BY SMTT(60), <2>4, <2>9, <4>1
      <4> QED
        BY <2>6, <4>1, <4>2 DEF Noted, RevOf, FileOf, PosOf, SizeOf, HighOf
    <3>6. MemCoins(mem', damage) /\ MemIndex(mem', disk, damage)
      BY <1>1, <2>3 DEF InMemory, MemCoins, MemIndex, SameButFlush
    <3> QED
      BY <3>1, <3>2, <3>3, <3>4, <3>5, <3>6 DEF InMemory
  <2> QED
    BY <1>1, <1>3, <2>3, <2>5, <2>8, <2>10 DEF IInv, TypeOK
<1> QED
  BY <1>2, <1>3 DEF FlushFiles

\* WriteBatchSync writes an index, file infos and the last file.
LEMMA BatchType ==
    ASSUME mem \in Memory, disk \in Storage
    PROVE  /\ Batch \in [index : [Blocks -> Entries \cup {None}], vinfo : [Files -> FileInfos], last : Files]
           /\ \A b \in Blocks : Batch.index[b] = IF b \in mem.dirtyBlocks THEN mem.index[b] ELSE disk.db.index[b]
           /\ \A f \in Files : Batch.vinfo[f] = IF f \in mem.dirtyFiles THEN mem.vinfo[f] ELSE disk.db.vinfo[f]
           /\ Batch.last = mem.nLastBlockFile
<1> DEFINE I == [b \in Blocks |-> IF b \in mem.dirtyBlocks THEN mem.index[b] ELSE disk.db.index[b]]
           V == [f \in Files |-> IF f \in mem.dirtyFiles THEN mem.vinfo[f] ELSE disk.db.vinfo[f]]
<1>1. Batch = [index |-> I, vinfo |-> V, last |-> mem.nLastBlockFile]
  BY DEF Batch, BatchedInfo
<1>2. /\ mem.index \in [Blocks -> Entries \cup {None}] /\ disk.db.index \in [Blocks -> Entries \cup {None}]
      /\ mem.vinfo \in [Files -> FileInfos] /\ disk.db.vinfo \in [Files -> FileInfos] /\ mem.nLastBlockFile \in Files
  BY DEF Memory, Storage
<1>3. I \in [Blocks -> Entries \cup {None}] /\ V \in [Files -> FileInfos]
  BY <1>2
<1>4. /\ \A b \in Blocks : I[b] = IF b \in mem.dirtyBlocks THEN mem.index[b] ELSE disk.db.index[b]
      /\ \A f \in Files : V[f] = IF f \in mem.dirtyFiles THEN mem.vinfo[f] ELSE disk.db.vinfo[f]
  OBVIOUS
<1> HIDE DEF I, V
<1> QED
  BY <1>1, <1>2, <1>3, <1>4

\* What the batch has data of is, in memory too, where the batch says, or in a file that
\* memory has forgotten and that the batch leaves alone.
LEMMA BatchPlaces ==
    ASSUME mem \in Memory, disk \in Storage, InMemory(mem, disk, safe, damage), OnDisk(disk, safe, damage),
           NEW c \in Blocks, HasData(Batch.index, c)
    PROVE  \/ /\ c \in mem.dirtyBlocks /\ Batch.index[c] = mem.index[c] /\ HasData(mem.index, c)
              /\ FileOf(mem.index, c) \in mem.dirtyFiles
           \/ /\ c \notin mem.dirtyBlocks /\ Batch.index[c] = disk.db.index[c] /\ HasData(disk.db.index, c)
              /\ HasData(mem.index, c)
              /\ FileOf(mem.index, c) = FileOf(disk.db.index, c) /\ PosOf(mem.index, c) = PosOf(disk.db.index, c)
           \/ /\ c \notin mem.dirtyBlocks /\ Batch.index[c] = disk.db.index[c] /\ HasData(disk.db.index, c)
              /\ Forgotten(mem, FileOf(disk.db.index, c)) /\ FileOf(disk.db.index, c) \notin mem.dirtyFiles
<1>1. CASE c \in mem.dirtyBlocks
  <2>1. Batch.index[c] = mem.index[c]
    BY <1>1, BatchType
  <2>2. HasData(mem.index, c)
    BY <2>1 DEF HasData, Known
  <2> QED
    BY <1>1, <2>1, <2>2 DEF InMemory, MemDirty
<1>2. CASE c \notin mem.dirtyBlocks
  <2>1. Batch.index[c] = disk.db.index[c]
    BY <1>2, BatchType
  <2>2. HasData(disk.db.index, c)
    BY <2>1 DEF HasData, Known
  <2>3. \/ /\ HasData(mem.index, c)
           /\ FileOf(mem.index, c) = FileOf(disk.db.index, c) /\ PosOf(mem.index, c) = PosOf(disk.db.index, c)
        \/ Forgotten(mem, FileOf(disk.db.index, c))
    BY <2>2 DEF InMemory, MemPlaces
  <2>4. Forgotten(mem, FileOf(disk.db.index, c)) => FileOf(disk.db.index, c) \notin mem.dirtyFiles
    BY <1>2, <2>2 DEF InMemory, MemDirty, Forgotten
  <2> QED
    BY <1>2, <2>1, <2>2, <2>3, <2>4
<1> QED
  BY <1>1, <1>2

\* The batch is in step with itself, though it mixes new entries with old ones.
LEMMA BatchLocated ==
    ASSUME mem \in Memory, disk \in Storage, InMemory(mem, disk, safe, damage), OnDisk(disk, safe, damage)
    PROVE  Located(Batch.index, Batch.vinfo, Batch.last)
<1>1. /\ Located(mem.index, mem.vinfo, mem.nLastBlockFile)
      /\ Located(disk.db.index, disk.db.vinfo, disk.db.last)
  BY DEF InMemory, MemPlaces, OnDisk, DiskPlaces
<1>2. ASSUME NEW c \in Blocks, HasData(Batch.index, c)
      PROVE  /\ PosOf(Batch.index, c) < SizeOf(Batch.vinfo, FileOf(Batch.index, c))
             /\ nHeight[c] =< HighOf(Batch.vinfo, FileOf(Batch.index, c))
  <2>1. CASE c \in mem.dirtyBlocks
    <3>1. /\ Batch.index[c] = mem.index[c] /\ HasData(mem.index, c) /\ FileOf(mem.index, c) \in mem.dirtyFiles
          /\ FileOf(mem.index, c) \in Files
      BY <1>2, <2>1, BatchPlaces, MemoryTypes DEF HasData
    <3>2. Batch.vinfo[FileOf(mem.index, c)] = mem.vinfo[FileOf(mem.index, c)]
      BY <3>1, BatchType
    <3> QED
      BY <1>1, <3>1, <3>2 DEF Located, FileOf, PosOf, SizeOf, HighOf
  <2>2. CASE c \notin mem.dirtyBlocks
    <3>1. /\ Batch.index[c] = disk.db.index[c] /\ HasData(disk.db.index, c) /\ FileOf(disk.db.index, c) \in Files
      BY <1>2, <2>2, BatchPlaces, StorageTypes DEF HasData
    <3>2. CASE FileOf(disk.db.index, c) \notin mem.dirtyFiles
      <4>1. Batch.vinfo[FileOf(disk.db.index, c)] = disk.db.vinfo[FileOf(disk.db.index, c)]
        BY <3>1, <3>2, BatchType
      <4> QED
        BY <1>1, <3>1, <4>1 DEF Located, FileOf, PosOf, SizeOf, HighOf
    <3>3. CASE FileOf(disk.db.index, c) \in mem.dirtyFiles
      <4>1. Batch.vinfo[FileOf(disk.db.index, c)] = mem.vinfo[FileOf(disk.db.index, c)]
        BY <3>1, <3>3, BatchType
      <4>2. /\ HasData(mem.index, c)
            /\ FileOf(mem.index, c) = FileOf(disk.db.index, c) /\ PosOf(mem.index, c) = PosOf(disk.db.index, c)
        BY <1>2, <2>2, <3>3, BatchPlaces
      <4>3. /\ PosOf(mem.index, c) < SizeOf(mem.vinfo, FileOf(mem.index, c))
            /\ nHeight[c] =< HighOf(mem.vinfo, FileOf(mem.index, c))
        BY <1>1, <4>2 DEF Located
      <4> QED
        BY <3>1, <4>1, <4>2, <4>3 DEF FileOf, PosOf, SizeOf, HighOf
    <3> QED
      BY <3>2, <3>3
  <2> QED
    BY <2>1, <2>2
<1>3. ASSUME NEW c \in Blocks, NEW a \in Blocks, HasData(Batch.index, c), HasData(Batch.index, a),
             FileOf(Batch.index, c) = FileOf(Batch.index, a), PosOf(Batch.index, c) = PosOf(Batch.index, a)
      PROVE  c = a
  <2>0. \A b \in Blocks : HasData(mem.index, b) => SizeOf(mem.vinfo, FileOf(mem.index, b)) # 0
    <3> SUFFICES ASSUME NEW b \in Blocks, HasData(mem.index, b) PROVE SizeOf(mem.vinfo, FileOf(mem.index, b)) # 0
      OBVIOUS
    <3>1. PosOf(mem.index, b) < SizeOf(mem.vinfo, FileOf(mem.index, b))
      BY <1>1 DEF Located
    <3>2. PosOf(mem.index, b) \in Nat
      BY MemoryTypes DEF HasData
    <3> QED
      BY SMTT(60), <3>1, <3>2
  <2>1. CASE c \in mem.dirtyBlocks /\ a \in mem.dirtyBlocks
    <3>1. /\ Batch.index[c] = mem.index[c] /\ HasData(mem.index, c)
          /\ Batch.index[a] = mem.index[a] /\ HasData(mem.index, a)
      BY <1>3, <2>1, BatchPlaces
    <3> QED
      BY <1>1, <1>3, <3>1 DEF Located, FileOf, PosOf, SizeOf, HighOf
  <2>2. CASE c \notin mem.dirtyBlocks /\ a \notin mem.dirtyBlocks
    <3>1. /\ Batch.index[c] = disk.db.index[c] /\ HasData(disk.db.index, c)
          /\ Batch.index[a] = disk.db.index[a] /\ HasData(disk.db.index, a)
      BY <1>3, <2>2, BatchPlaces
    <3> QED
      BY <1>1, <1>3, <3>1 DEF Located, FileOf, PosOf, SizeOf, HighOf
  <2>3. ASSUME NEW x \in Blocks, NEW y \in Blocks, x \in mem.dirtyBlocks, y \notin mem.dirtyBlocks,
               HasData(Batch.index, x), HasData(Batch.index, y),
               FileOf(Batch.index, x) = FileOf(Batch.index, y), PosOf(Batch.index, x) = PosOf(Batch.index, y)
        PROVE  x = y
    <3>1. Batch.index[x] = mem.index[x] /\ HasData(mem.index, x)
      BY <2>3, BatchPlaces
    <3>2. Batch.index[y] = disk.db.index[y]
      BY <2>3, BatchPlaces
    <3>3. ~Forgotten(mem, FileOf(disk.db.index, y))
      BY <2>0, <2>3, <3>1, <3>2 DEF Forgotten, FileOf, PosOf, SizeOf, HighOf
    <3>4. /\ HasData(mem.index, y)
          /\ FileOf(mem.index, y) = FileOf(disk.db.index, y) /\ PosOf(mem.index, y) = PosOf(disk.db.index, y)
      BY <2>3, <3>3, BatchPlaces
    <3> QED
      BY <1>1, <2>3, <3>1, <3>2, <3>4 DEF Located, FileOf, PosOf, SizeOf, HighOf
  <2> QED
    BY <1>3, <2>1, <2>2, <2>3
<1>4. ASSUME NEW f \in Files, f > Batch.last
      PROVE  SizeOf(Batch.vinfo, f) = 0
  <2>1. f \in Nat /\ mem.nLastBlockFile \in Nat /\ disk.db.last \in Nat /\ Batch.last = mem.nLastBlockFile
    BY MemoryTypes, StorageTypes, BatchType
  <2>2. disk.db.last =< mem.nLastBlockFile
    BY DEF InMemory, MemPlaces
  <2>3. SizeOf(mem.vinfo, f) = 0 /\ SizeOf(disk.db.vinfo, f) = 0
    BY SMTT(60), <1>1, <1>4, <2>1, <2>2 DEF Located
  <2> QED
    BY <2>3, BatchType DEF FileOf, PosOf, SizeOf, HighOf
<1>5. ASSUME NEW c \in Blocks, HasUndo(Batch.index, c)
      PROVE  HasData(Batch.index, c)
  BY <1>1, <1>5, BatchType DEF Located, HasData, HasUndo, Known
<1> QED
  BY <1>2, <1>3, <1>4, <1>5 DEF Located

\* The dirty sets are emptied before the batch is written.
LEMMA CleanFacts ==
    ASSUME mem \in Memory
    PROVE  /\ Clean \in Memory /\ Clean.dirtyBlocks = {} /\ Clean.dirtyFiles = {}
           /\ Clean.index = mem.index /\ Clean.vinfo = mem.vinfo /\ Clean.nLastBlockFile = mem.nLastBlockFile
           /\ Clean.view = mem.view /\ Clean.viewBest = mem.viewBest /\ Clean.aborting = mem.aborting
           /\ Clean.tip = mem.tip /\ Clean.flush = mem.flush
BY DEF Clean, Memory

\* After WriteBatchSync the index on disk is true of the files.
LEMMA IndexWrittenOnDisk ==
    ASSUME IInv, mem.flush.pc = "index", damage \subseteq damage',
           disk'.db = Batch, disk'.coins = disk.coins, disk'.blk = disk.blk, disk'.rev = disk.rev,
           safe'.db = Batch, safe'.coins = safe.coins, safe'.blk = safe.blk, safe'.rev = safe.rev
    PROVE  OnDisk(disk', safe', damage')
<1>1. /\ mem \in Memory /\ disk \in Storage /\ InMemory(mem, disk, safe, damage) /\ OnDisk(disk, safe, damage)
  BY DEF IInv, TypeOK
<1>2. DiskPlaces(disk', safe')
  BY <1>1, BatchLocated DEF DiskPlaces
<1>3. DiskData(disk', safe', damage')
  <2> SUFFICES ASSUME "block" \notin damage, NEW c \in Blocks, HasData(Batch.index, c)
               PROVE  At(disk, c, Batch.index[c]) /\ At(safe, c, Batch.index[c])
    BY DEF DiskData, At
  <2>1. CASE c \in mem.dirtyBlocks
    <3>1. Batch.index[c] = mem.index[c] /\ HasData(mem.index, c)
      BY <1>1, <2>1, BatchPlaces
    <3> QED
      BY <1>1, <3>1 DEF InMemory, MemData
  <2>2. CASE c \notin mem.dirtyBlocks
    <3>1. Batch.index[c] = disk.db.index[c] /\ HasData(disk.db.index, c)
      BY <1>1, <2>2, BatchPlaces
    <3> QED
      BY <1>1, <3>1 DEF OnDisk, DiskData
  <2> QED
    BY <2>1, <2>2
<1>4. DiskUndo(disk', safe', damage')
  <2>0. Batch.last = mem.nLastBlockFile
    BY <1>1, BatchType
  <2> SUFFICES ASSUME "undo" \notin damage, NEW c \in Blocks, HasUndo(Batch.index, c)
               PROVE  /\ Noted(disk, c, Batch.index[c])
                      /\ Noted(safe, c, Batch.index[c]) \/ FileOf(Batch.index, c) < mem.nLastBlockFile
    BY <2>0 DEF DiskUndo, Noted
  <2>1. CASE c \in mem.dirtyBlocks
    <3>1. Batch.index[c] = mem.index[c]
      BY <1>1, <2>1, BatchType
    <3>2. HasUndo(mem.index, c)
      BY <3>1 DEF HasUndo, Known
    <3> QED
      BY <1>1, <3>1, <3>2 DEF InMemory, MemUndo, FileOf, PosOf, SizeOf, HighOf
  <2>2. CASE c \notin mem.dirtyBlocks
    <3>1. Batch.index[c] = disk.db.index[c]
      BY <1>1, <2>2, BatchType
    <3>2. HasUndo(disk.db.index, c) /\ Known(disk.db.index, c)
      BY <3>1 DEF HasUndo, Known
    <3>3. /\ Noted(disk, c, disk.db.index[c])
          /\ Noted(safe, c, disk.db.index[c]) \/ FileOf(disk.db.index, c) < disk.db.last
      BY <1>1, <3>2 DEF OnDisk, DiskUndo
    <3>4. FileOf(disk.db.index, c) \in Nat /\ disk.db.last \in Nat /\ mem.nLastBlockFile \in Nat
          /\ disk.db.last =< mem.nLastBlockFile
      BY <1>1, <3>2, StorageTypes, MemoryTypes DEF InMemory, MemPlaces
    <3>5. FileOf(disk.db.index, c) < disk.db.last => FileOf(disk.db.index, c) < mem.nLastBlockFile
      BY SMTT(60), <3>4
    <3> QED
      BY <3>1, <3>3, <3>5 DEF FileOf, PosOf, SizeOf, HighOf
  <2> QED
    BY <2>1, <2>2
<1>5. DiskCoins(disk', safe', damage')
  BY <1>1 DEF OnDisk, DiskCoins
<1>6. DiskIndex(disk', safe', damage')
  <2> SUFFICES ASSUME "index" \notin damage
               PROVE  Closed(Batch.index) /\ Known(Batch.index, disk.coins.best) /\ Known(Batch.index, safe.coins.best)
    BY DEF DiskIndex
  <2>1. disk.coins.best \in Blocks /\ safe.coins.best \in Blocks
    BY DEF IInv, TypeOK, Storage
  <2>2. \A c \in Blocks : Batch.index[c] = mem.index[c]
    BY <1>1, BatchType DEF InMemory, MemIndex
  <2>3. \A c \in Blocks : Known(disk.db.index, c) => Known(mem.index, c)
    BY <1>1 DEF InMemory, MemIndex, MemDirty, Known
  <2>4. Closed(Batch.index)
    BY <1>1, <2>2, TreeAssumption DEF InMemory, MemIndex, Closed, Known
  <2>5. Known(disk.db.index, disk.coins.best) /\ Known(disk.db.index, safe.coins.best)
    BY <1>1 DEF OnDisk, DiskIndex
  <2> QED
    BY <2>1, <2>2, <2>3, <2>4, <2>5 DEF Known
<1> QED
  BY <1>2, <1>3, <1>4, <1>5, <1>6 DEF OnDisk

\* After WriteBatchSync memory is in step with the new index.
LEMMA IndexWrittenInMemory ==
    ASSUME IInv, mem.flush.pc = "index", damage \subseteq damage',
           disk'.db = Batch, disk'.blk = disk.blk, disk'.rev = disk.rev,
           safe'.blk = safe.blk, safe'.rev = safe.rev,
           NEW w, SameButFlush(Clean, w), w.flush.pc = "coins", w.flush.prune = mem.flush.prune,
           w.flush.manual = mem.flush.manual, w.flush.newTip = mem.flush.newTip
    PROVE  InMemory(w, disk', safe', damage')
<1>1. /\ mem \in Memory /\ disk \in Storage /\ InMemory(mem, disk, safe, damage) /\ OnDisk(disk, safe, damage)
  BY DEF IInv, TypeOK
<1>2. /\ w.dirtyBlocks = {} /\ w.dirtyFiles = {}
      /\ w.index = mem.index /\ w.vinfo = mem.vinfo /\ w.nLastBlockFile = mem.nLastBlockFile
      /\ w.view = mem.view /\ w.viewBest = mem.viewBest /\ w.aborting = mem.aborting /\ w.tip = mem.tip
  BY <1>1, CleanFacts DEF SameButFlush
<1>3. MemPlaces(w, disk')
  <2>1. Batch.last =< w.nLastBlockFile
    BY SMTT(60), <1>1, <1>2, BatchType, MemoryTypes
  <2>2. ASSUME NEW f \in Files
        PROVE  SizeOf(Batch.vinfo, f) =< SizeOf(w.vinfo, f) \/ Forgotten(w, f)
    <3>1. SizeOf(mem.vinfo, f) =< SizeOf(mem.vinfo, f)
      BY SMTT(60), <1>1, MemoryTypes
    <3>2. Batch.vinfo[f] = mem.vinfo[f] \/ Batch.vinfo[f] = disk.db.vinfo[f]
      BY <1>1, BatchType
    <3> QED
      BY <1>1, <1>2, <3>1, <3>2 DEF InMemory, MemPlaces, Forgotten, FileOf, PosOf, SizeOf, HighOf
  <2>3. ASSUME NEW c \in Blocks, HasData(Batch.index, c)
        PROVE  \/ /\ HasData(w.index, c)
                  /\ FileOf(w.index, c) = FileOf(Batch.index, c) /\ PosOf(w.index, c) = PosOf(Batch.index, c)
               \/ Forgotten(w, FileOf(Batch.index, c))
    BY <1>1, <1>2, <2>3, BatchPlaces DEF Forgotten, FileOf, PosOf, SizeOf, HighOf
  <2> QED
    BY <1>1, <1>2, <2>1, <2>2, <2>3 DEF InMemory, MemPlaces
<1>4. MemDirty(w, disk')
  BY <1>2 DEF MemDirty
<1>5. MemPrune(w, disk')
  <2> SUFFICES ASSUME NEW f \in mem.flush.prune
               PROVE  SizeOf(mem.vinfo, f) = 0 /\ f < mem.nLastBlockFile /\ SizeOf(Batch.vinfo, f) = 0
    BY <1>2 DEF MemPrune
  <2>1. SizeOf(mem.vinfo, f) = 0 /\ f < mem.nLastBlockFile /\ f \in mem.dirtyFiles
    BY <1>1 DEF InMemory, MemPrune
  <2>2. f \in Files
    BY <1>1, <2>1 DEF Memory
  <2> QED
    BY <1>1, <2>1, <2>2, BatchType DEF FileOf, PosOf, SizeOf, HighOf
<1>6. MemFlush(w)
  BY <1>1, <1>2 DEF InMemory, MemFlush
<1>7. MemData(w, disk', safe', damage') /\ MemUndo(w, disk', safe', damage')
  BY <1>1, <1>2 DEF InMemory, MemData, MemUndo, At, Noted
<1>8. MemCoins(w, damage') /\ MemIndex(w, disk', damage')
  <2>1. "index" \notin damage => \A c \in Blocks : Batch.index[c] = mem.index[c]
    BY <1>1, BatchType DEF InMemory, MemIndex
  <2> QED
    BY <1>1, <1>2, <2>1 DEF InMemory, MemCoins, MemIndex
<1> QED
  BY <1>3, <1>4, <1>5, <1>6, <1>7, <1>8 DEF InMemory

\* WriteBatchSync, done or refused.
LEMMA FlushIndexIInv ==
    ASSUME IInv, FlushIndex
    PROVE  IInv'
<1>1. /\ phase = "up" /\ mem.flush.pc = "index"
      /\ mem \in Memory /\ disk \in Storage /\ safe \in Storage /\ troubles \in 0 .. MaxTroubles
      /\ damage \subseteq {"block", "undo", "index", "coins", "pruned"}
      /\ InMemory(mem, disk, safe, damage) /\ OnDisk(disk, safe, damage)
  BY DEF FlushIndex, IInv, TypeOK
<1>2. CASE /\ disk' = [disk EXCEPT !.db = Batch]
           /\ safe' = [safe EXCEPT !.db = Batch, !.pruned = disk.pruned]
           /\ IF mem.flush.full
              THEN mem' = [Clean EXCEPT !.flush.pc = "coins"] /\ UNCHANGED phase
              ELSE FlushSucceeds(Clean)
           /\ damage' = IF StaleCoinsPruned THEN damage \cup {"pruned"} ELSE damage
           /\ UNCHANGED troubles
  <2>1. PICK db \in [index : [Blocks -> Entries \cup {None}], vinfo : [Files -> FileInfos], last : Files] : db = Batch
    BY <1>1, BatchType
  <2>2. /\ disk' \in Storage /\ disk'.db = Batch /\ disk'.coins = disk.coins /\ disk'.blk = disk.blk
        /\ disk'.rev = disk.rev
    BY <1>1, <1>2, <2>1 DEF Storage
  <2>3. /\ safe' \in Storage /\ safe'.db = Batch /\ safe'.coins = safe.coins /\ safe'.blk = safe.blk
        /\ safe'.rev = safe.rev
    BY <1>1, <1>2, <2>1 DEF Storage
  <2>4. damage \subseteq damage' /\ damage' \subseteq {"block", "undo", "index", "coins", "pruned"}
    BY <1>1, <1>2
  <2>5. OnDisk(disk', safe', damage')
    BY <1>1, <2>2, <2>3, <2>4, IndexWrittenOnDisk
  <2>6. PICK w \in Memory : /\ w = [Clean EXCEPT !.flush.pc = "coins"] /\ SameButFlush(Clean, w)
                            /\ w.flush.pc = "coins" /\ w.flush.prune = mem.flush.prune
                            /\ w.flush.manual = mem.flush.manual /\ w.flush.newTip = mem.flush.newTip
    <3>1. PICK m \in Memory : m = Clean /\ m.flush = mem.flush
      BY <1>1, CleanFacts
    <3> DEFINE w == [m EXCEPT !.flush.pc = "coins"]
               fl == [m.flush EXCEPT !.pc = "coins"]
    <3>2. m.flush \in Flushes
      BY DEF Memory
    <3>3. /\ fl \in Flushes /\ fl.pc = "coins" /\ fl.prune = m.flush.prune
          /\ fl.manual = m.flush.manual /\ fl.newTip = m.flush.newTip
      BY <3>2 DEF Flushes
    <3>4. w = [m EXCEPT !.flush = fl]
      BY <3>2 DEF Memory, Flushes
    <3> HIDE DEF fl, w
    <3>5. w \in Memory /\ SameButFlush(m, w) /\ w.flush = fl
      BY <3>3, <3>4 DEF Memory, SameButFlush
    <3> QED
      BY <3>1, <3>3, <3>5 DEF w
  <2>7. InMemory(w, disk', safe', damage')
    BY <1>1, <2>2, <2>3, <2>4, <2>6, IndexWrittenInMemory
  <2>8. CASE mem.flush.full
    BY <1>1, <1>2, <2>2, <2>3, <2>4, <2>5, <2>6, <2>7, <2>8 DEF IInv, TypeOK
  <2>9. CASE ~mem.flush.full
    <3>1. FlushSucceeds(Clean) /\ troubles' \in 0 .. MaxTroubles
      BY <1>1, <1>2, <2>9
    <3>2. PICK m \in Memory : m = Clean /\ m.flush.pc # "none" /\ SameButFlush(w, m) /\ MemFlush(m)
      <4>1. Clean \in Memory /\ Clean.flush.pc # "none"
        BY <1>1, CleanFacts
      <4>2. SameButFlush(w, Clean)
        BY <2>6 DEF SameButFlush
      <4>3. MemFlush(Clean)
        BY <1>1, CleanFacts DEF InMemory, MemFlush
      <4> QED
        BY <4>1, <4>2, <4>3
    <3> QED
      BY <1>1, <2>2, <2>3, <2>4, <2>5, <2>7, <3>1, <3>2, SucceedsIInv
  <2> QED
    BY <2>8, <2>9
<1>3. CASE UNCHANGED <<disk, safe>> /\ FlushFails(Clean) /\ damage' = damage \cup {"index"}
  <2>1. PICK m \in Memory : m = Clean
    BY <1>1, CleanFacts
  <2>2. PICK w \in Memory : SameButFlush(m, w) /\ w.flush = [m.flush EXCEPT !.prune = {}]
    <3>1. PICK fl \in Flushes : fl = [m.flush EXCEPT !.prune = {}]
      BY DEF Memory, Flushes
    <3> DEFINE w == [m EXCEPT !.flush = fl]
    <3>2. w \in Memory /\ SameButFlush(m, w) /\ w.flush = fl
      BY DEF Memory, SameButFlush
    <3> QED
      BY <3>1, <3>2
  <2>3. /\ w.dirtyBlocks = {} /\ w.dirtyFiles = {}
        /\ w.index = mem.index /\ w.vinfo = mem.vinfo /\ w.nLastBlockFile = mem.nLastBlockFile
        /\ w.view = mem.view /\ w.viewBest = mem.viewBest /\ w.aborting = mem.aborting /\ w.tip = mem.tip
        /\ m.flush = mem.flush
    BY <1>1, <2>1, <2>2, CleanFacts DEF SameButFlush
  <2>4. /\ w.flush.pc = "index" /\ w.flush.prune = {} /\ w.flush.manual = mem.flush.manual
        /\ w.flush.newTip = mem.flush.newTip
    <3>1. mem.flush \in Flushes
      BY <1>1 DEF Memory
    <3> QED
      BY SMTT(60), <1>1, <2>2, <2>3, <3>1 DEF Flushes
  <2>5. InMemory(w, disk, safe, damage')
    <3>1. MemPlaces(w, disk) /\ MemDirty(w, disk) /\ MemPrune(w, disk)
      BY <1>1, <2>3, <2>4 DEF InMemory, MemPlaces, MemDirty, MemPrune, Forgotten
    <3>2. MemFlush(w)
      BY <1>1, <2>3, <2>4 DEF InMemory, MemFlush
    <3>3. MemData(w, disk, safe, damage') /\ MemUndo(w, disk, safe, damage')
      BY <1>1, <1>3, <2>3, <2>4 DEF InMemory, MemData, MemUndo
    <3>4. MemCoins(w, damage') /\ MemIndex(w, disk, damage')
      BY <1>1, <1>3, <2>3 DEF InMemory, MemCoins, MemIndex
    <3> QED
      BY <3>1, <3>2, <3>3, <3>4 DEF InMemory
  <2>6. OnDisk(disk, safe, damage')
    BY <1>1, <1>3, MoreDamage
  <2>7. SameButFlush(w, m)
    BY <2>2 DEF SameButFlush
  <2>8. damage' \subseteq {"block", "undo", "index", "coins", "pruned"} /\ FlushFails(m)
    BY <1>1, <1>3, <2>1
  <2> QED
    BY <1>1, <1>3, <2>5, <2>6, <2>7, <2>8, FailsIInv
<1> QED
  BY <1>2, <1>3 DEF FlushIndex

\* A block file and its undo file are removed.
LEMMA UnlinkedFacts ==
    ASSUME NEW d \in Storage, NEW f \in Files
    PROVE  /\ Unlinked(f, d) \in Storage
           /\ Unlinked(f, d).db = d.db /\ Unlinked(f, d).coins = d.coins
           /\ \A g \in Files \ {f} : Unlinked(f, d).blk[g] = d.blk[g]
           /\ Unlinked(f, d).rev = d.rev \ RevOf(f, d)
<1>1. PICK B \in [Files -> [Positions -> Blocks \cup {None}]], R \in SUBSET (Files \X Blocks) :
        /\ B = [d.blk EXCEPT ![f] = [p \in Positions |-> None]] /\ R = d.rev \ RevOf(f, d)
  <2>1. [p \in Positions |-> None] \in [Positions -> Blocks \cup {None}]
    OBVIOUS
  <2>2. [d.blk EXCEPT ![f] = [p \in Positions |-> None]] \in [Files -> [Positions -> Blocks \cup {None}]]
    BY <2>1 DEF Storage
  <2>3. d.rev \ RevOf(f, d) \in SUBSET (Files \X Blocks)
    BY DEF Storage
  <2> QED
    BY <2>2, <2>3
<1>2. Unlinked(f, d) = [d EXCEPT !.blk = B, !.rev = R]
  BY <1>1 DEF Unlinked, Storage
<1>3. /\ Unlinked(f, d) \in Storage /\ Unlinked(f, d).db = d.db /\ Unlinked(f, d).coins = d.coins
      /\ Unlinked(f, d).blk = B /\ Unlinked(f, d).rev = R
  BY <1>2 DEF Storage
<1>4. \A g \in Files \ {f} : B[g] = d.blk[g]
  BY <1>1 DEF Storage
<1> QED
  BY <1>1, <1>3, <1>4

\* UnlinkPrunedFiles: nothing that either index has data of is in the file.
LEMMA FlushUnlinkIInv ==
    ASSUME IInv, FlushUnlink
    PROVE  IInv'
<1>1. /\ phase = "up" /\ mem.flush.pc = "coins" /\ UNCHANGED <<phase, troubles, damage>>
      /\ mem \in Memory /\ disk \in Storage /\ safe \in Storage
      /\ InMemory(mem, disk, safe, damage) /\ OnDisk(disk, safe, damage)
  BY DEF FlushUnlink, IInv, TypeOK
<1>2. mem.flush \in Flushes /\ mem.flush.prune \in SUBSET Files /\ mem.flush.prune \subseteq Nat
  BY <1>1, MemoryTypes DEF Memory, Flushes
<1>3. PICK f \in Files : /\ f \in mem.flush.prune /\ disk' = Unlinked(f, disk) /\ safe' = Unlinked(f, safe)
                         /\ mem' = [mem EXCEPT !.flush.prune = @ \ {f}]
  BY <1>2 DEF FlushUnlink, Lowest
<1>4. /\ disk' \in Storage /\ disk'.db = disk.db /\ disk'.coins = disk.coins
      /\ \A g \in Files \ {f} : disk'.blk[g] = disk.blk[g]
  BY <1>1, <1>3, UnlinkedFacts
<1>5. /\ safe' \in Storage /\ safe'.db = safe.db /\ safe'.coins = safe.coins
      /\ \A g \in Files \ {f} : safe'.blk[g] = safe.blk[g]
  BY <1>1, <1>3, UnlinkedFacts
<1>6. ASSUME NEW g, g # f, NEW c
      PROVE  /\ <<g, c>> \in disk.rev => <<g, c>> \in disk'.rev
             /\ <<g, c>> \in safe.rev => <<g, c>> \in safe'.rev
  <2>1. disk'.rev = disk.rev \ RevOf(f, disk) /\ safe'.rev = safe.rev \ RevOf(f, safe)
    BY <1>1, <1>3, UnlinkedFacts
  <2> QED
    BY <1>6, <2>1 DEF RevOf
<1>7. SizeOf(mem.vinfo, f) = 0 /\ SizeOf(disk.db.vinfo, f) = 0
  BY <1>1, <1>3 DEF InMemory, MemPrune
<1>8. \A c \in Blocks : HasData(disk.db.index, c) => FileOf(disk.db.index, c) \in Files \ {f}
  <2> SUFFICES ASSUME NEW c \in Blocks, HasData(disk.db.index, c) PROVE FileOf(disk.db.index, c) \in Files \ {f}
    OBVIOUS
  <2>1. FileOf(disk.db.index, c) \in Files /\ PosOf(disk.db.index, c) \in Nat
    BY <1>1, StorageTypes DEF HasData
  <2>2. PosOf(disk.db.index, c) < SizeOf(disk.db.vinfo, FileOf(disk.db.index, c))
    BY <1>1 DEF OnDisk, DiskPlaces, Located
  <2> QED
    BY SMTT(60), <1>7, <2>1, <2>2
<1>9. \A c \in Blocks : HasData(mem.index, c) => FileOf(mem.index, c) \in Files \ {f}
  <2> SUFFICES ASSUME NEW c \in Blocks, HasData(mem.index, c) PROVE FileOf(mem.index, c) \in Files \ {f}
    OBVIOUS
  <2>1. FileOf(mem.index, c) \in Files /\ PosOf(mem.index, c) \in Nat
    BY <1>1, MemoryTypes DEF HasData
  <2>2. PosOf(mem.index, c) < SizeOf(mem.vinfo, FileOf(mem.index, c))
    BY <1>1 DEF InMemory, MemPlaces, Located
  <2> QED
    BY SMTT(60), <1>7, <2>1, <2>2
<1>10. /\ \A c \in Blocks : HasUndo(disk.db.index, c) => HasData(disk.db.index, c)
       /\ \A c \in Blocks : HasUndo(mem.index, c) => HasData(mem.index, c)
  BY <1>1 DEF OnDisk, DiskPlaces, InMemory, MemPlaces, Located
<1>11. OnDisk(disk', safe', damage)
  <2>1. DiskPlaces(disk', safe')
    BY <1>1, <1>4, <1>5 DEF OnDisk, DiskPlaces
  <2>2. DiskData(disk', safe', damage)
    <3> SUFFICES ASSUME "block" \notin damage, NEW c \in Blocks, HasData(disk.db.index, c)
                 PROVE  At(disk', c, disk.db.index[c]) /\ At(safe', c, disk.db.index[c])
      BY <1>4 DEF DiskData
    <3>1. At(disk, c, disk.db.index[c]) /\ At(safe, c, disk.db.index[c])
      BY <1>1 DEF OnDisk, DiskData
    <3> QED
      BY <1>4, <1>5, <1>8, <3>1 DEF At, FileOf
  <2>3. DiskUndo(disk', safe', damage)
    <3> SUFFICES ASSUME "undo" \notin damage, NEW c \in Blocks, HasUndo(disk.db.index, c)
                 PROVE  /\ Noted(disk', c, disk.db.index[c])
                        /\ Noted(safe', c, disk.db.index[c]) \/ FileOf(disk.db.index, c) < disk.db.last
      BY <1>4 DEF DiskUndo
    <3>1. FileOf(disk.db.index, c) # f
      BY <1>8, <1>10
    <3> QED
      BY <1>1, <1>6, <3>1 DEF OnDisk, DiskUndo, Noted, FileOf, PosOf, SizeOf, HighOf
  <2>4. DiskCoins(disk', safe', damage) /\ DiskIndex(disk', safe', damage)
    BY <1>1, <1>4, <1>5 DEF OnDisk, DiskCoins, DiskIndex
  <2> QED
    BY <2>1, <2>2, <2>3, <2>4 DEF OnDisk
<1>12. PICK fl \in Flushes :
         /\ mem' = [mem EXCEPT !.flush = fl] /\ fl.pc = "coins" /\ fl.prune = mem.flush.prune \ {f}
         /\ fl.manual = mem.flush.manual /\ fl.newTip = mem.flush.newTip
  <2> DEFINE fl == [mem.flush EXCEPT !.prune = mem.flush.prune \ {f}]
  <2>1. /\ fl \in Flushes /\ fl.pc = "coins" /\ fl.prune = mem.flush.prune \ {f}
        /\ fl.manual = mem.flush.manual /\ fl.newTip = mem.flush.newTip
    BY <1>1, <1>2 DEF Flushes
  <2>2. mem' = [mem EXCEPT !.flush = fl]
    BY <1>1, <1>2, <1>3 DEF Memory, Flushes
  <2> HIDE DEF fl
  <2> QED
    BY <2>1, <2>2
<1>13. mem' \in Memory /\ SameButFlush(mem, mem') /\ mem'.flush = fl
  BY <1>1, <1>12 DEF Memory, SameButFlush
<1>14. InMemory(mem', disk', safe', damage)
  <2>1. MemPlaces(mem', disk') /\ MemDirty(mem', disk')
    <3>1. MemPlaces(mem, disk) /\ MemDirty(mem, disk)
      BY <1>1 DEF InMemory
    <3>2. \A g : Forgotten(mem', g) <=> Forgotten(mem, g)
      BY <1>13 DEF Forgotten, SameButFlush
    <3>3. MemPlaces(mem', disk')
      BY <1>4, <1>13, <3>1, <3>2 DEF MemPlaces, SameButFlush
    <3> QED
      BY <1>4, <1>13, <3>1, <3>3 DEF MemDirty, SameButFlush
  <2>2. MemPrune(mem', disk')
    BY SMTT(60), <1>1, <1>4, <1>12, <1>13 DEF InMemory, MemPrune, SameButFlush
  <2>3. MemFlush(mem')
    BY <1>1, <1>12, <1>13 DEF InMemory, MemFlush, SameButFlush
  <2>4. MemData(mem', disk', safe', damage)
    <3> SUFFICES ASSUME "block" \notin damage, NEW c \in Blocks, HasData(mem.index, c)
                 PROVE  /\ At(disk', c, mem.index[c])
                        /\ FileOf(mem.index, c) < mem.nLastBlockFile => At(safe', c, mem.index[c])
      BY <1>12, <1>13 DEF MemData, SameButFlush
    <3>1. FileOf(mem.index, c) \in Files \ {f}
      BY <1>9
    <3>2. At(disk, c, mem.index[c]) /\ (FileOf(mem.index, c) < mem.nLastBlockFile => At(safe, c, mem.index[c]))
      BY <1>1 DEF InMemory, MemData
    <3> QED
      BY <1>4, <1>5, <3>1, <3>2 DEF At, FileOf, PosOf, SizeOf, HighOf
  <2>5. MemUndo(mem', disk', safe', damage)
    <3> SUFFICES ASSUME "undo" \notin damage, NEW c \in Blocks, HasUndo(mem.index, c)
                 PROVE  Noted(disk', c, mem.index[c])
      BY <1>12, <1>13 DEF MemUndo, SameButFlush
    <3>1. FileOf(mem.index, c) # f
      BY <1>9, <1>10
    <3> QED
      BY <1>1, <1>6, <3>1 DEF InMemory, MemUndo, Noted, FileOf, PosOf, SizeOf, HighOf
  <2>6. MemCoins(mem', damage) /\ MemIndex(mem', disk', damage)
    BY <1>1, <1>4, <1>13 DEF InMemory, MemCoins, MemIndex, SameButFlush
  <2> QED
    BY <2>1, <2>2, <2>3, <2>4, <2>5, <2>6 DEF InMemory
<1> QED
  BY <1>1, <1>4, <1>5, <1>11, <1>13, <1>14 DEF IInv, TypeOK

\* pcoinsTip->Flush(), done or refused, or thrown out of with the cache emptied.
LEMMA FlushCoinsIInv ==
    ASSUME IInv, FlushCoins
    PROVE  IInv'
<1>1. /\ phase = "up" /\ mem.flush.pc = "coins"
      /\ mem \in Memory /\ disk \in Storage /\ safe \in Storage /\ troubles \in 0 .. MaxTroubles
      /\ damage \subseteq {"block", "undo", "index", "coins", "pruned"}
      /\ InMemory(mem, disk, safe, damage) /\ OnDisk(disk, safe, damage)
  BY DEF FlushCoins, IInv, TypeOK
<1>2. SameButFlush(mem, mem)
  BY DEF SameButFlush
<1>3. CASE /\ disk' = [disk EXCEPT !.coins = [applied |-> mem.view, best |-> mem.viewBest]]
           /\ \E c \in {safe.coins, disk.coins} : safe' = [safe EXCEPT !.coins = c]
           /\ FlushSucceeds(mem)
           /\ UNCHANGED <<troubles, damage>>
  <2>1. PICK c \in {safe.coins, disk.coins} : safe' = [safe EXCEPT !.coins = c]
    BY <1>3
  <2>2. PICK x \in [applied : SUBSET Blocks, best : Blocks] :
          x = [applied |-> mem.view, best |-> mem.viewBest] /\ x.applied = mem.view /\ x.best = mem.viewBest
    <3> DEFINE x == [applied |-> mem.view, best |-> mem.viewBest]
    <3>1. mem.view \in SUBSET Blocks /\ mem.viewBest \in Blocks
      BY <1>1 DEF Memory
    <3>2. x \in [applied : SUBSET Blocks, best : Blocks] /\ x.applied = mem.view /\ x.best = mem.viewBest
      BY <3>1
    <3> QED
      BY <3>2
  <2>3. /\ disk' \in Storage /\ disk'.db = disk.db /\ disk'.coins = x /\ disk'.blk = disk.blk
        /\ disk'.rev = disk.rev
    BY <1>1, <1>3, <2>2 DEF Storage
  <2>4. /\ safe' \in Storage /\ safe'.db = safe.db /\ safe'.coins = c /\ safe'.blk = safe.blk
        /\ safe'.rev = safe.rev
    BY <1>1, <2>1 DEF Storage
  <2>5. OnDisk(disk', safe', damage)
    <3>1. DiskPlaces(disk', safe') /\ DiskData(disk', safe', damage) /\ DiskUndo(disk', safe', damage)
      BY <1>1, <2>3, <2>4 DEF OnDisk, DiskPlaces, DiskData, DiskUndo, At, Noted
    <3>2. DiskCoins(disk', safe', damage)
      BY SMTT(60), <1>1, <2>1, <2>2, <2>3, <2>4 DEF OnDisk, DiskCoins, InMemory, MemCoins
    <3>3. DiskIndex(disk', safe', damage)
      <4> SUFFICES ASSUME "index" \notin damage
                   PROVE  /\ Closed(disk.db.index)
                          /\ Known(disk.db.index, mem.viewBest) /\ Known(disk.db.index, c.best)
        BY <2>2, <2>3, <2>4 DEF DiskIndex
      <4>1. mem.dirtyBlocks = {} /\ mem.viewBest \in Blocks
        BY <1>1 DEF InMemory, MemFlush, Memory
      <4>2. mem.index[mem.viewBest] = disk.db.index[mem.viewBest] /\ Known(mem.index, mem.viewBest)
        BY <1>1, <4>1 DEF InMemory, MemIndex
      <4> QED
        BY <1>1, <2>1, <4>2 DEF OnDisk, DiskIndex, Known
    <3> QED
      BY <3>1, <3>2, <3>3 DEF OnDisk
  <2>6. InMemory(mem, disk', safe', damage)
    <3>1. MemPlaces(mem, disk') /\ MemDirty(mem, disk') /\ MemPrune(mem, disk') /\ MemFlush(mem)
      BY <1>1, <2>3 DEF InMemory, MemPlaces, MemDirty, MemPrune
    <3>2. MemData(mem, disk', safe', damage) /\ MemUndo(mem, disk', safe', damage)
      BY <1>1, <2>3, <2>4 DEF InMemory, MemData, MemUndo, At, Noted
    <3>3. MemCoins(mem, damage) /\ MemIndex(mem, disk', damage)
      BY <1>1, <2>3 DEF InMemory, MemCoins, MemIndex
    <3> QED
      BY <3>1, <3>2, <3>3 DEF InMemory
  <2>7. mem.flush.pc # "none" /\ MemFlush(mem) /\ FlushSucceeds(mem) /\ UNCHANGED <<troubles, damage>>
    BY <1>1, <1>3 DEF InMemory
  <2> QED
    BY <1>1, <1>2, <2>3, <2>4, <2>5, <2>6, <2>7, SucceedsIInv
<1>4. CASE UNCHANGED <<disk, safe, damage>> /\ FlushFails(mem)
  BY <1>1, <1>2, <1>4, FailsIInv
<1>5. CASE /\ UNCHANGED <<disk, safe>> /\ FlushFails([mem EXCEPT !.view = disk.coins.applied])
           /\ damage' = damage \cup {"coins"}
  <2>1. PICK m \in Memory :
          /\ m = [mem EXCEPT !.view = disk.coins.applied]
          /\ m.index = mem.index /\ m.vinfo = mem.vinfo /\ m.nLastBlockFile = mem.nLastBlockFile
          /\ m.dirtyBlocks = mem.dirtyBlocks /\ m.dirtyFiles = mem.dirtyFiles
          /\ m.viewBest = mem.viewBest /\ m.aborting = mem.aborting /\ m.tip = mem.tip /\ m.flush = mem.flush
    <3> DEFINE m == [mem EXCEPT !.view = disk.coins.applied]
    <3>1. disk.coins.applied \in SUBSET Blocks
      BY <1>1 DEF Storage
    <3>2. m \in Memory
      BY <1>1, <3>1 DEF Memory
    <3>3. /\ m.index = mem.index /\ m.vinfo = mem.vinfo /\ m.nLastBlockFile = mem.nLastBlockFile
          /\ m.dirtyBlocks = mem.dirtyBlocks /\ m.dirtyFiles = mem.dirtyFiles
          /\ m.viewBest = mem.viewBest /\ m.aborting = mem.aborting /\ m.tip = mem.tip /\ m.flush = mem.flush
      BY <1>1 DEF Memory
    <3> HIDE DEF m
    <3> QED
      BY <3>2, <3>3 DEF m
  <2>2. InMemory(m, disk, safe, damage')
    <3>1. MemPlaces(m, disk) /\ MemDirty(m, disk) /\ MemPrune(m, disk) /\ MemFlush(m)
      BY <1>1, <2>1 DEF InMemory, MemPlaces, MemDirty, MemPrune, MemFlush, Forgotten
    <3>2. MemData(m, disk, safe, damage') /\ MemUndo(m, disk, safe, damage')
      BY <1>1, <1>5, <2>1 DEF InMemory, MemData, MemUndo
    <3>3. MemCoins(m, damage') /\ MemIndex(m, disk, damage')
      BY <1>1, <1>5, <2>1 DEF InMemory, MemCoins, MemIndex
    <3> QED
      BY <3>1, <3>2, <3>3 DEF InMemory
  <2>3. OnDisk(disk, safe, damage')
    BY <1>1, <1>5, MoreDamage
  <2>4. SameButFlush(m, m) /\ FlushFails(m) /\ damage' \subseteq {"block", "undo", "index", "coins", "pruned"}
    BY <1>1, <1>5, <2>1 DEF SameButFlush
  <2> QED
    BY <1>1, <1>5, <2>2, <2>3, <2>4, FailsIInv
<1> QED
  BY <1>3, <1>4, <1>5 DEF FlushCoins

-----------------------------------------------------------------------------
(* What the invariant shows *)

\* Every step keeps the invariant.
LEMMA NextIInv == IInv /\ [Next]_vars => IInv'
<1> SUFFICES ASSUME IInv, [Next]_vars PROVE IInv'
  OBVIOUS
<1>1. CASE UNCHANGED vars
  BY <1>1 DEF vars, IInv, TypeOK
<1>2. ASSUME NEW b \in Blocks, AcceptBlock(b) \/ ConnectTip(b) PROVE IInv'
  BY <1>2, AcceptIInv, ConnectIInv
<1>3. CASE DisconnectTip \/ CallFlush \/ Shutdown \/ \E h \in 1 .. Cardinality(Blocks) : PruneBlockchain(h)
  BY <1>3, DisconnectIInv, CallIInv
<1>4. CASE FlushBegins \/ FlushFiles \/ FlushIndex \/ FlushUnlink \/ FlushCoins
  BY <1>4, FlushBeginsIInv, FlushFilesIInv, FlushIndexIInv, FlushUnlinkIInv, FlushCoinsIInv
<1>5. CASE Killed \/ AssertionFails \/ PowerFails \/ Start
  BY <1>5, EndIInv, PowerFailsIInv, StartIInv
<1> QED
  BY <1>1, <1>2, <1>3, <1>4, <1>5 DEF Next

\* The invariant holds in every reachable state.
LEMMA SpecIInv == Spec => []IInv
<1> QED
  BY InitIInv, NextIInv, PTL DEF Spec

\* DataSafe: FlushStateToDisk and FindBlockPos commit a block file before the index
\* that points into it is written, and UnlinkPrunedFiles comes after it; for any tree,
\* any file size and any number of crashes.
THEOREM BlocksSurvive == Spec => []DataSafe
<1>1. IInv => DataSafe
  <2> SUFFICES ASSUME IInv, "block" \notin damage, NEW b \in Blocks, HasData(safe.db.index, b)
               PROVE  BlockReadable(safe.db.index, b, safe)
    BY DEF DataSafe, IInv
  <2> QED
    BY DEF IInv, OnDisk, DiskPlaces, DiskData, At, BlockReadable
<1> QED
  BY <1>1, SpecIInv, PTL

\* UndoSafe: of the undo data that the index speaks of, FlushBlockFile commits what
\* belongs to the last file.
THEOREM UndoSurvives == Spec => []UndoSafe
<1>1. IInv => UndoSafe
  <2> SUFFICES ASSUME IInv, "undo" \notin damage, NEW b \in Blocks, HasUndo(safe.db.index, b),
                      ~UndoReadable(safe.db.index, b, safe)
               PROVE  FileOf(safe.db.index, b) < safe.db.last
    BY DEF UndoSafe, FileOf, PosOf, SizeOf, HighOf
  <2> QED
    BY DEF IInv, OnDisk, DiskPlaces, DiskUndo, Noted, UndoReadable
<1> QED
  BY <1>1, SpecIInv, PTL

\* CoinsInIndex: the coins on disk, and those that would survive, are of one chain,
\* and FlushStateToDisk has written the index entries of all of it before them.
THEOREM CoinsWithinIndex == Spec => []CoinsInIndex
<1>1. IInv => CoinsInIndex
  <2> SUFFICES ASSUME IInv, NEW d \in {disk, safe}
               PROVE  /\ "coins" \notin damage => d.coins.applied = ChainTo[d.coins.best]
                      /\ "index" \notin damage => \A b \in ChainTo[d.coins.best] : Known(d.db.index, b)
    BY DEF CoinsInIndex
  <2>1. "coins" \notin damage => d.coins.applied = ChainTo[d.coins.best]
    BY DEF IInv, OnDisk, DiskCoins
  <2>2. ASSUME "index" \notin damage PROVE \A b \in ChainTo[d.coins.best] : Known(d.db.index, b)
    <3>1. d.db = disk.db /\ Closed(disk.db.index) /\ Known(disk.db.index, d.coins.best) /\ d.coins.best \in Blocks
      BY <2>2 DEF IInv, TypeOK, OnDisk, DiskPlaces, DiskIndex, Storage
    <3> DEFINE S == {b \in Blocks : Known(disk.db.index, b)}
    <3>2. \A b \in S \ {Genesis} : b \in Blocks => Parent[b] \in S
      BY <3>1, TreeAssumption DEF Closed
    <3>3. d.coins.best \in S
      BY <3>1
    <3> HIDE DEF S
    <3>4. ChainTo[d.coins.best] \subseteq S
      BY <3>1, <3>2, <3>3, ChainInClosed
    <3> QED
      BY <3>1, <3>4 DEF S
  <2> QED
    BY <2>1, <2>2
<1> QED
  BY <1>1, SpecIInv, PTL

\* CoinsAtTip: what ConnectBlock and DisconnectBlock assert of the coins' best block.
THEOREM CoinsFollowTip == Spec => []CoinsAtTip
<1>1. IInv => CoinsAtTip
  BY DEF IInv, InMemory, MemFlush, MemCoins, CoinsAtTip, Idle
<1> QED
  BY <1>1, SpecIInv, PTL

=============================================================================
