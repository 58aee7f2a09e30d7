------------------------ MODULE MiningThreadsProofs ------------------------
(***************************************************************************)
(* Proof that no MiningThread is destroyed under its thread and that no    *)
(* change of the kind goes unnoticed, for any number of callers, queries,  *)
(* threads to start and kinds.                                             *)
(*                                                                         *)
(* A thread learns of a change by recreateBlock, or somebody still has to  *)
(* tell it.  That the caller who tells them goes through all threads rests *)
(* on the mutex: when it is free, the objects alive are those of the       *)
(* vector, so the invariant has to say who is alive and not in the vector. *)
(***************************************************************************)
EXTENDS MiningThreads, SequenceTheorems, TLAPS

\* The provers may take a minute; Zenon is the one to try where a leaf names none.
USE ZenonT(60)

PCs == Holding \cup {"idle", "restart", "stop", "start", "change", "way", "count"}

\* The vector holds each object once, and every object that is alive, but for the
\* one whose constructor runs.  What a caller works on is there.
Vector ==
    /\ \A i, j \in DOMAIN miningThreads : miningThreads[i] = miningThreads[j] => i = j
    /\ \A m \in alive : \/ m \in ToSet(miningThreads)
                        \/ \E c \in Callers : pc[c] = "construct" /\ Last(left[c]) = m
    /\ \A c \in Callers :
          /\ pc[c] \in {"join", "join+"} => miningThreads # <<>>
          /\ pc[c] \in {"assign", "flag"} => left[c] # <<>>
          /\ pc[c] = "construct" =>
                left[c] # <<>> /\ Last(left[c]) \in alive \ ToSet(miningThreads)

Places == pc \in [Callers \cup Queries -> PCs]

IInv == Places /\ Vector /\ OutlivesThread /\ KindNotMissed
-----------------------------------------------------------------------------
LEMMA InitIInv == Init => IInv
<1> SUFFICES ASSUME Init PROVE IInv
  OBVIOUS
<1>1. Unmade \in Objects
  BY MaximumIsKind DEF Unmade, Objects
<1>a. miningThreads \in Seq(alive) /\ alive \subseteq Miners /\ left \in [Callers -> Seq(Miners)]
  BY SMTT(60) DEF Init
<1>b. o \in [Miners -> Objects] /\ arg \in [Callers -> Kinds \cup {Live}]
      /\ currentWayForNewCoins \in Kinds /\ terminated \in BOOLEAN
  BY <1>1, MaximumIsKind DEF Init
<1>c. /\ \A c \in Callers : (miningThreads_mutex = c) <=> pc[c] \in Holding
      /\ \A q \in Queries : (cs_main = q) <=> pc[q] = "count"
  BY CallersAssumption DEF Init, Holding
<1>2. TypeOK
  BY <1>a, <1>b, <1>c DEF TypeOK
<1>3. Places /\ OutlivesThread
  BY <1>2 DEF Init, Places, PCs, OutlivesThread, Unmade
<1>4. Vector /\ KindNotMissed
  BY SMTT(60) DEF Init, Vector, KindNotMissed
<1> QED
  BY <1>3, <1>4 DEF IInv

\* At most one caller has the mutex.
LEMMA Exclusion ==
    ASSUME IInv, NEW c \in Callers, NEW d \in Callers, pc[c] \in Holding, pc[d] \in Holding
    PROVE  c = d
BY DEF IInv, OutlivesThread, TypeOK

-----------------------------------------------------------------------------
(* Steps that leave the objects and the vector alone *)

LEMMA CallIInv ==
    ASSUME IInv, NEW c \in Callers,
           \/ \E generate \in BOOLEAN : GenerateCoins(c, generate)
           \/ ChangeKind(c) \/ SetWay(c)
    PROVE  IInv'
<1> USE DEF IInv, OutlivesThread
<1>1. /\ UNCHANGED <<miningThreads, miningThreads_mutex, cs_main, alive, o, left, terminated>>
      /\ \E from, to \in PCs \ Holding : Go(c, from, to) /\ (from = "change" => to = "change")
  BY DEF GenerateCoins, ChangeKind, SetWay, PCs, Holding, Go
<1>2. PICK from \in PCs \ Holding, to \in PCs \ Holding : Go(c, from, to) /\ (from = "change" => to = "change")
  BY <1>1
<1>3. currentWayForNewCoins' \in Kinds /\ arg' \in [Callers -> Kinds \cup {Live}]
  BY DEF GenerateCoins, ChangeKind, SetWay, kind, TypeOK
<1>4. pc' = [pc EXCEPT ![c] = to] /\ pc[c] = from /\ c \notin Queries
  BY <1>2, CallersAssumption DEF Go
<1>5. TypeOK' /\ Places'
  BY <1>1, <1>2, <1>3, <1>4 DEF TypeOK, Places
<1>6. Vector'
  BY <1>1, <1>4 DEF Vector, Places, Holding
<1>7. KindNotMissed'
  BY SMTT(60), <1>1, <1>4, <1>2 DEF KindNotMissed, ToBeTold, Places, Holding
<1> QED
  BY <1>1, <1>5, <1>6, <1>7

LEMMA LockIInv ==
    ASSUME IInv, NEW c \in Callers, LockClear(c) \/ LockCreate(c)
    PROVE  IInv'
<1> USE DEF IInv, OutlivesThread
<1>1. PICK from \in {"restart", "stop", "start"}, to \in {"clear", "clear+", "create"} :
         Lock(c, from, to)
  BY DEF LockClear, LockCreate
<1>2. /\ UNCHANGED <<miningThreads, cs_main, currentWayForNewCoins, alive, o, arg, left, terminated>>
      /\ pc' = [pc EXCEPT ![c] = to] /\ pc[c] = from /\ c \notin Queries
      /\ miningThreads_mutex = None /\ miningThreads_mutex' = c
  BY <1>1, CallersAssumption DEF Lock, Go, IsFree
<1>3. \A d \in Callers : pc[d] \notin Holding
  BY <1>2, CallersAssumption DEF TypeOK
<1>4. TypeOK' /\ Places'
  BY <1>2, <1>3 DEF TypeOK, Places, Holding, PCs
<1>5. Vector'
  BY <1>2 DEF Vector, Places
<1>6. KindNotMissed'
  BY <1>2 DEF KindNotMissed, ToBeTold, Places
<1> QED
  BY <1>2, <1>4, <1>5, <1>6

LEMMA ReleaseIInv ==
    ASSUME IInv, NEW c \in Callers, Cleared(c) \/ Created(c) \/ Told(c)
    PROVE  IInv'
<1> USE DEF IInv, OutlivesThread
<1>1. /\ UNCHANGED <<miningThreads, cs_main, currentWayForNewCoins, alive, o, arg, terminated>>
      /\ miningThreads_mutex' = None /\ c \notin Queries
      /\ left' = left \/ left' = [left EXCEPT ![c] = <<>>]
  BY CallersAssumption DEF Cleared, Created, Told, Go, Places
<1>2. PICK to \in {"idle", "start", "change", "way"} :
        /\ pc' = [pc EXCEPT ![c] = to] /\ pc[c] \in {"clear", "clear+", "create", "tell"}
        /\ pc[c] = "create" => to = "change"
        /\ pc[c] = "tell" => left[c] = <<>>
  BY DEF Cleared, Created, Told, Go
<1>3. left' \in [Callers -> Seq(Miners)] /\ \A d \in Callers \ {c} : left'[d] = left[d]
  <2>1. left \in [Callers -> Seq(Miners)] /\ <<>> \in Seq(Miners)
    BY SMTT(60) DEF TypeOK
  <2> QED
    BY <1>1, <2>1
<1>4. \A d \in Callers \ {c} : pc[d] \notin Holding /\ pc'[d] = pc[d]
  BY <1>2, Exclusion DEF Holding, Places
<1>5. TypeOK' /\ Places'
  BY SMTT(60), <1>1, <1>2, <1>3, <1>4, CallersAssumption DEF TypeOK, Places, Holding, PCs
<1>6. Vector'
  BY <1>1, <1>2, <1>3, <1>4 DEF Vector, Places, Holding
<1>7. KindNotMissed'
  <2> SUFFICES ASSUME NEW m \in alive, ToBeTold(m) PROVE ToBeTold(m)'
    BY <1>1 DEF KindNotMissed
  <2>1. ToSet(<<>>) = {}
    BY SMTT(60) DEF ToSet
  <2> QED
    BY <1>1, <1>2, <1>3, <1>4, <2>1 DEF ToBeTold, Places
<1> QED
  BY <1>1, <1>5, <1>6, <1>7

LEMMA QueryIInv ==
    ASSUME IInv, NEW q \in Queries, getgenerate(q) \/ HowManyMiningThreads(q)
    PROVE  IInv'
<1> USE DEF IInv, OutlivesThread
<1>1. /\ UNCHANGED <<miningThreads, miningThreads_mutex, currentWayForNewCoins, alive, o, arg,
                     left, terminated>>
      /\ q \notin Callers
  BY CallersAssumption DEF getgenerate, HowManyMiningThreads
<1>2. /\ pc' = [pc EXCEPT ![q] = IF pc[q] = "idle" THEN "count" ELSE "idle"]
      /\ pc[q] = "idle" => cs_main = None /\ cs_main' = q
      /\ pc[q] # "idle" => pc[q] = "count" /\ cs_main' = None
  BY DEF getgenerate, HowManyMiningThreads, Go
<1>3. \A c \in Callers : pc'[c] = pc[c]
  BY <1>1, <1>2 DEF Places
<1>4. TypeOK' /\ Places'
  <2>1. Places'
    BY <1>2 DEF Places, PCs
  <2>2. \A r \in Queries : (cs_main' = r) <=> pc'[r] = "count"
    BY <1>2, CallersAssumption DEF Places, TypeOK
  <2> QED
    BY <1>1, <1>3, <2>1, <2>2 DEF TypeOK
<1>5. Vector' /\ KindNotMissed'
  BY SMTT(60), <1>1, <1>3 DEF Vector, KindNotMissed, ToBeTold
<1> QED
  BY <1>1, <1>4, <1>5

-----------------------------------------------------------------------------
(* Steps of the threads *)

LEMMA MineIInv ==
    ASSUME IInv, NEW m \in Miners, MineBlocks(m)
    PROVE  IInv'
<1> USE DEF IInv, OutlivesThread
<1>1. /\ UNCHANGED <<miningThreads, miningThreads_mutex, cs_main, currentWayForNewCoins, alive,
                     pc, arg, left>>
      /\ terminated' \in BOOLEAN
  BY DEF MineBlocks, Begin, ScriptForMining, TestScript, NoScript, LoopTop, Assemble, TakeFlag,
         ReadKind, Found, Abandon, UsesDropped, ProcessBlockFound, Mine, TypeOK
<1>2. o \in [Miners -> Objects] /\ o[m] \in Objects
  BY DEF TypeOK
<1>3. \E new \in Objects :
        /\ o' = [o EXCEPT ![m] = new] /\ o[m].at \notin {"none", "done"}
        /\ new.at \in {"scan", "found"} =>
              \/ new.used = new.kind
              \/ /\ o[m].at \in {"scan", "found"} /\ new.used = o[m].used
                 /\ new.kind = o[m].kind /\ new.recreateBlock = o[m].recreateBlock
  <2>1. CASE Begin(m) \/ TestScript(m) \/ Found(m) \/ Abandon(m) \/ ProcessBlockFound(m)
    <3>1. PICK at \in {"script", "top", "found", "done"} :
            /\ o' = [o EXCEPT ![m] = [o[m] EXCEPT !.at = at]] /\ o[m].at \notin {"none", "done"}
            /\ at = "found" => o[m].at = "scan"
      BY <2>1 DEF Begin, TestScript, Found, Abandon, ProcessBlockFound, Mine, UnlessFinished
    <3>2. [o[m] EXCEPT !.at = at] \in Objects
      BY <1>2 DEF Objects
    <3> QED
      BY <1>2, <3>1, <3>2 DEF Objects
  <2>2. CASE ScriptForMining(m)
    <3>1. [o[m] EXCEPT !.at = "test", !.script = HasScript] \in Objects
      BY <1>2, ScriptAssumption DEF Objects
    <3> QED
      BY <1>2, <2>2, <3>1 DEF ScriptForMining, Mine, Objects
  <2>3. CASE NoScript(m)
    <3>1. [o[m] EXCEPT !.finished = TRUE] \in Objects
      BY <1>2 DEF Objects
    <3> QED
      BY <1>2, <2>3, <3>1 DEF NoScript, Objects
  <2>4. CASE LoopTop(m)
    <3>1. [o[m] EXCEPT !.at = UnlessFinished(m, "assemble"), !.candidate = FALSE,
                       !.used = Maximum] \in Objects
      BY <1>2, MaximumIsKind DEF Objects, UnlessFinished
    <3> QED
      BY <1>2, <2>4, <3>1 DEF LoopTop, Mine, Objects, UnlessFinished
  <2>5. CASE Assemble(m)
    <3>1. PICK next \in {"fresh", "assemble"} :
            Mine(m, "assemble", [o[m] EXCEPT !.at = UnlessFinished(m, next),
                                             !.candidate = (next = "fresh")])
      BY <2>5 DEF Assemble
    <3>2. [o[m] EXCEPT !.at = UnlessFinished(m, next), !.candidate = (next = "fresh")] \in Objects
      BY <1>2 DEF Objects, UnlessFinished
    <3> QED
      BY <1>2, <3>1, <3>2 DEF Mine, Objects, UnlessFinished
  <2>6. CASE TakeFlag(m)
    <3>1. [o[m] EXCEPT !.at = "kind", !.recreateBlock = FALSE] \in Objects
      BY <1>2 DEF Objects
    <3> QED
      BY <1>2, <2>6, <3>1 DEF TakeFlag, Mine, Objects
  <2>7. CASE ReadKind(m)
    <3>1. [o[m] EXCEPT !.at = "scan", !.used = o[m].kind] \in Objects
      BY <1>2 DEF Objects
    <3> QED
      BY <1>2, <2>7, <3>1 DEF ReadKind, Mine, Objects
  <2>8. CASE UsesDropped(m)
    BY <1>2, <2>8 DEF UsesDropped, Objects
  <2> QED
    BY <2>1, <2>2, <2>3, <2>4, <2>5, <2>6, <2>7, <2>8 DEF MineBlocks
<1>4. TypeOK' /\ Places'
  BY <1>1, <1>3 DEF TypeOK, Places
<1>5. Vector'
  BY <1>1 DEF Vector
<1>6. \A n \in Miners \ alive : o'[n].at \in {"none", "done"}
  BY <1>2, <1>3
<1>7. KindNotMissed'
  <2> SUFFICES ASSUME NEW n \in alive, o'[n].at \in {"scan", "found"}, o'[n].used # o'[n].kind
               PROVE  o'[n].recreateBlock \/ ToBeTold(n)
    BY <1>1 DEF KindNotMissed, ToBeTold
  <2>1. /\ o[n].at \in {"scan", "found"} /\ o[n].used # o[n].kind
        /\ o[n].recreateBlock = o'[n].recreateBlock
    BY <1>2, <1>3 DEF TypeOK
  <2> QED
    BY <2>1 DEF KindNotMissed
<1> QED
  BY <1>1, <1>4, <1>5, <1>6, <1>7

-----------------------------------------------------------------------------
(* Facts about sequences *)

LEMMA HeadIn ==
    ASSUME NEW S, NEW s \in Seq(S), s # <<>>
    PROVE  /\ Head(s) \in S /\ Head(s) \in ToSet(s) /\ Tail(s) \in Seq(S)
           /\ Head(s) = s[1] /\ 1 \in DOMAIN s
BY SMTT(60) DEF ToSet

LEMMA LastIn ==
    ASSUME NEW S, NEW s \in Seq(S), s # <<>>
    PROVE  Last(s) \in S /\ Last(s) \in ToSet(s)
BY SMTT(60) DEF ToSet, Last

LEMMA SeqOver ==
    ASSUME NEW S, NEW T, NEW s \in Seq(S), \A i \in DOMAIN s : s[i] \in T
    PROVE  s \in Seq(T)
<1>1. Len(s) \in Nat /\ s \in [1 .. Len(s) -> S] /\ DOMAIN s = 1 .. Len(s)
  BY LenProperties
<1>2. s \in [1 .. Len(s) -> T]
  BY <1>1
<1> QED
  BY SMTT(60), <1>1, <1>2, SeqDef

LEMMA TailSet ==
    ASSUME NEW S, NEW s \in Seq(S), s # <<>>
    PROVE  /\ \A x \in ToSet(s) : x # Head(s) => x \in ToSet(Tail(s))
           /\ \A i \in DOMAIN Tail(s) : i + 1 \in DOMAIN s /\ i + 1 # 1 /\ Tail(s)[i] = s[i + 1]
<1>1. /\ Len(s) \in Nat \ {0} /\ DOMAIN s = 1 .. Len(s) /\ Len(Tail(s)) = Len(s) - 1
      /\ DOMAIN Tail(s) = 1 .. (Len(s) - 1)
      /\ \A i \in 1 .. (Len(s) - 1) : Tail(s)[i] = s[i + 1]
  BY SMTT(60)
<1>2. ASSUME NEW x \in ToSet(s), x # Head(s) PROVE x \in ToSet(Tail(s))
  <2>1. PICK i \in DOMAIN s : x = s[i]
    BY <1>2 DEF ToSet
  <2>2. i # 1
    BY SMTT(60), <1>2, <2>1
  <2>3. i - 1 \in DOMAIN Tail(s) /\ Tail(s)[i - 1] = x
    BY SMTT(60), <1>1, <2>1, <2>2
  <2> QED
    BY <2>3 DEF ToSet
<1> QED
  BY SMTT(60), <1>1, <1>2

LEMMA AppendSet ==
    ASSUME NEW S, NEW s \in Seq(S), NEW x \in S
    PROVE  /\ Append(s, x) \in Seq(S) /\ Append(s, x) # <<>>
           /\ Last(Append(s, x)) = x
           /\ \A y \in ToSet(s) \cup {x} : y \in ToSet(Append(s, x))
           /\ \A i \in DOMAIN Append(s, x) :
                 \/ i = Len(s) + 1 /\ Append(s, x)[i] = x
                 \/ i \in DOMAIN s /\ Append(s, x)[i] = s[i]
<1>1. /\ Len(s) \in Nat /\ DOMAIN s = 1 .. Len(s) /\ DOMAIN Append(s, x) = 1 .. (Len(s) + 1)
      /\ Len(Append(s, x)) = Len(s) + 1 /\ Append(s, x)[Len(s) + 1] = x
      /\ \A i \in DOMAIN s : Append(s, x)[i] = s[i]
      /\ Append(s, x) \in Seq(S) /\ Append(s, x) # <<>>
  BY SMTT(60)
<1>2. Last(Append(s, x)) = x
  BY <1>1 DEF Last
<1>3. ASSUME NEW y \in ToSet(s) \cup {x} PROVE y \in ToSet(Append(s, x))
  <2>1. \E i \in DOMAIN Append(s, x) : Append(s, x)[i] = y
    BY SMTT(60), <1>1, <1>3 DEF ToSet
  <2> QED
    BY <2>1 DEF ToSet
<1>4. ASSUME NEW i \in DOMAIN Append(s, x)
      PROVE  \/ i = Len(s) + 1 /\ Append(s, x)[i] = x
             \/ i \in DOMAIN s /\ Append(s, x)[i] = s[i]
  BY SMTT(60), <1>1
<1> QED
  BY <1>1, <1>2, <1>3, <1>4

-----------------------------------------------------------------------------
(* ChangeKindOfHowManyCoinsToGenerate *)

LEMMA LockChangeIInv ==
    ASSUME IInv, NEW c \in Callers, LockChange(c)
    PROVE  IInv'
<1> USE DEF IInv, OutlivesThread
<1>1. /\ UNCHANGED <<miningThreads, cs_main, currentWayForNewCoins, alive, o, arg, terminated>>
      /\ pc' = [pc EXCEPT ![c] = "tell"] /\ pc[c] = "change" /\ c \notin Queries
      /\ miningThreads_mutex = None /\ miningThreads_mutex' = c
      /\ left' = [left EXCEPT ![c] = miningThreads]
  BY CallersAssumption DEF LockChange, Go, IsFree
<1>2. \A d \in Callers : pc[d] \notin Holding
  BY <1>1, CallersAssumption DEF TypeOK
<1>3. miningThreads \in Seq(Miners)
  BY SMTT(60) DEF TypeOK
<1>4. left' \in [Callers -> Seq(Miners)] /\ left'[c] = miningThreads
  BY <1>1, <1>3 DEF TypeOK
<1>5. TypeOK' /\ Places'
  BY <1>1, <1>2, <1>4 DEF TypeOK, Places, Holding, PCs
<1>6. \A d \in Callers : pc'[d] \notin Holding \/ pc'[d] = "tell"
  BY <1>1, <1>2 DEF Places
<1>7. \A m \in alive : m \in ToSet(miningThreads)
  BY <1>2 DEF Vector, Holding
<1>8. Vector'
  BY <1>1, <1>6, <1>7 DEF Vector, Holding
<1>9. KindNotMissed'
  <2>1. pc'[c] = "tell"
    BY <1>1 DEF Places
  <2> QED
    BY <1>1, <1>4, <1>7, <2>1 DEF KindNotMissed, ToBeTold
<1> QED
  BY <1>1, <1>5, <1>8, <1>9

\* The assignment of the string: the caller is not yet done with the object.
LEMMA AssignIInv ==
    ASSUME IInv, NEW c \in Callers, BeginAssign(c) \/ EndAssign(c)
    PROVE  IInv'
<1> USE DEF IInv, OutlivesThread
<1> DEFINE m == Head(left[c])
<1>1. /\ UNCHANGED <<miningThreads, miningThreads_mutex, cs_main, currentWayForNewCoins, alive, arg,
                     left, terminated>>
      /\ c \notin Queries
  BY CallersAssumption DEF BeginAssign, EndAssign
<1>2. PICK to \in {"assign", "flag"}, k \in Kinds \cup {Torn} :
        /\ pc' = [pc EXCEPT ![c] = to] /\ pc[c] \in {"tell", "assign"}
        /\ o' = [o EXCEPT ![m].kind = k]
  <2>1. kind(c) \in Kinds \/ ~EndAssign(c)
    BY DEF kind, TypeOK
  <2> QED
    BY <2>1 DEF BeginAssign, EndAssign, Go
<1>3. left[c] # <<>>
  BY DEF BeginAssign, EndAssign, Go, Vector
<1>4. m \in Miners /\ m \in ToSet(left[c]) /\ o[m] \in Objects
  BY <1>3, HeadIn DEF TypeOK
<1>5. o' \in [Miners -> Objects]
  <2>1. [o[m] EXCEPT !.kind = k] \in Objects
    BY <1>4 DEF Objects
  <2>2. o' = [o EXCEPT ![m] = [o[m] EXCEPT !.kind = k]]
    BY <1>2
  <2> QED
    BY <2>1, <2>2 DEF TypeOK
<1>6. \A n \in Miners : /\ o'[n].at = o[n].at /\ o'[n].used = o[n].used
                        /\ o'[n].recreateBlock = o[n].recreateBlock
                        /\ n # m => o'[n] = o[n]
  BY <1>2, <1>4 DEF TypeOK, Objects
<1>7. TypeOK' /\ Places'
  BY <1>1, <1>2, <1>5 DEF TypeOK, Places, Holding, PCs
<1>8. Vector'
  BY <1>1, <1>2, <1>3 DEF Vector, Places
<1>9. KindNotMissed'
  <2> SUFFICES ASSUME NEW n \in alive, o'[n].at \in {"scan", "found"}, o'[n].used # o'[n].kind
               PROVE  o'[n].recreateBlock \/ ToBeTold(n)'
    BY <1>1 DEF KindNotMissed
  <2>1. n \in Miners
    BY DEF TypeOK
  <2>2. pc'[c] = to
    BY <1>2 DEF Places
  <2>3. CASE n = m
    BY <1>1, <1>4, <2>2, <2>3 DEF ToBeTold
  <2>4. CASE n # m
    <3>1. o[n].recreateBlock \/ ToBeTold(n)
      BY <1>6, <2>1, <2>4 DEF KindNotMissed
    <3>2. ToBeTold(n) => ToBeTold(n)'
      BY <1>1, <1>2, <2>2 DEF ToBeTold, Places
    <3> QED
      BY <1>6, <2>1, <3>1, <3>2
  <2> QED
    BY <2>3, <2>4
<1> QED
  BY <1>1, <1>6, <1>7, <1>8, <1>9

LEMMA SetFlagIInv ==
    ASSUME IInv, NEW c \in Callers, SetFlag(c)
    PROVE  IInv'
<1> USE DEF IInv, OutlivesThread
<1> DEFINE m == Head(left[c])
<1>1. /\ UNCHANGED <<miningThreads, miningThreads_mutex, cs_main, currentWayForNewCoins, alive, arg,
                     terminated>>
      /\ c \notin Queries /\ pc[c] = "flag" /\ pc' = [pc EXCEPT ![c] = "tell"]
      /\ o' = [o EXCEPT ![m] = [o[m] EXCEPT !.recreateBlock = TRUE]]
      /\ left' = [left EXCEPT ![c] = Tail(left[c])]
  BY CallersAssumption DEF SetFlag, Flagged, Go
<1>2. left[c] # <<>>
  BY <1>1 DEF Vector
<1>3. m \in Miners /\ Tail(left[c]) \in Seq(Miners) /\ o[m] \in Objects
  BY <1>2, HeadIn DEF TypeOK
<1>4. left' \in [Callers -> Seq(Miners)] /\ left'[c] = Tail(left[c])
      /\ \A d \in Callers \ {c} : left'[d] = left[d]
  BY <1>1, <1>3 DEF TypeOK
<1>5. o' \in [Miners -> Objects]
  <2>1. [o[m] EXCEPT !.recreateBlock = TRUE] \in Objects
    BY <1>3 DEF Objects
  <2> QED
    BY <1>1, <2>1 DEF TypeOK
<1>6. \A n \in Miners : /\ o'[n].at = o[n].at
                        /\ n # m => o'[n] = o[n]
                        /\ n = m => o'[n].recreateBlock
  BY <1>1, <1>3 DEF TypeOK, Objects
<1>7. TypeOK' /\ Places'
  BY <1>1, <1>4, <1>5 DEF TypeOK, Places, Holding, PCs
<1>8. Vector'
  BY <1>1, <1>4 DEF Vector, Places
<1>9. KindNotMissed'
  <2> SUFFICES ASSUME NEW n \in alive, n # m, ToBeTold(n)
               PROVE  ToBeTold(n)'
    BY <1>1, <1>6 DEF KindNotMissed, TypeOK
  <2>1. n \in ToSet(left[c]) => n \in ToSet(Tail(left[c]))
    BY <1>2, TailSet DEF TypeOK
  <2> QED
    BY <1>1, <1>4, <2>1 DEF ToBeTold, Places
<1> QED
  BY <1>1, <1>6, <1>7, <1>8, <1>9

-----------------------------------------------------------------------------
(* Destroying and making the objects *)

LEMMA EndOfThreadIInv ==
    ASSUME IInv, NEW c \in Callers, EndOfThread(c)
    PROVE  IInv'
<1> USE DEF IInv, OutlivesThread
<1> DEFINE m == Head(miningThreads)
<1>1. /\ UNCHANGED <<miningThreads, miningThreads_mutex, cs_main, currentWayForNewCoins, alive, arg,
                     left, terminated>>
      /\ c \notin Queries /\ miningThreads # <<>>
      /\ o' = [o EXCEPT ![m] = [o[m] EXCEPT !.finished = TRUE, !.candidate = FALSE]]
  <2>1. o \in [Miners -> Objects] /\ m \in Miners
    BY HeadIn DEF TypeOK, EndOfThread
  <2>2. o' = [o EXCEPT ![m].finished = TRUE, ![m].candidate = FALSE]
    BY DEF EndOfThread
  <2>3. o' = [o EXCEPT ![m] = [o[m] EXCEPT !.finished = TRUE, !.candidate = FALSE]]
    BY <2>1, <2>2
  <2> QED
    BY <2>3, CallersAssumption DEF EndOfThread
<1>2. PICK to \in {"join", "join+"} :
        pc' = [pc EXCEPT ![c] = to] /\ pc[c] \in {"clear", "clear+"}
  BY DEF EndOfThread, Go
<1>3. m \in Miners /\ o[m] \in Objects
  BY <1>1, HeadIn DEF TypeOK
<1>4. o' \in [Miners -> Objects]
  <2>1. [o[m] EXCEPT !.finished = TRUE, !.candidate = FALSE] \in Objects
    BY <1>3 DEF Objects
  <2> QED
    BY <1>1, <2>1 DEF TypeOK
<1>5. \A n \in Miners : /\ o'[n].at = o[n].at /\ o'[n].used = o[n].used
                        /\ o'[n].kind = o[n].kind
                        /\ o'[n].recreateBlock = o[n].recreateBlock
  BY <1>1, <1>3 DEF TypeOK, Objects
<1>6. TypeOK' /\ Places'
  BY <1>1, <1>2, <1>4 DEF TypeOK, Places, Holding, PCs
<1>7. Vector'
  BY <1>1, <1>2 DEF Vector, Places
<1>8. KindNotMissed'
  <2>1. \A n \in alive : ToBeTold(n) => ToBeTold(n)'
    BY <1>1, <1>2 DEF ToBeTold, Places
  <2> QED
    BY SMTT(60), <1>1, <1>5, <2>1 DEF KindNotMissed, TypeOK
<1> QED
  BY <1>1, <1>5, <1>6, <1>7, <1>8

LEMMA JoinIInv ==
    ASSUME IInv, NEW c \in Callers, Join(c)
    PROVE  IInv'
<1> USE DEF IInv, OutlivesThread
<1> DEFINE m == Head(miningThreads)
<1>1. /\ UNCHANGED <<miningThreads_mutex, cs_main, currentWayForNewCoins, arg, left, terminated>>
      /\ c \notin Queries /\ o[m].at = "done"
      /\ miningThreads' = Tail(miningThreads) /\ alive' = alive \ {m}
      /\ o' = [o EXCEPT ![m] = [Unmade EXCEPT !.at = o[m].at]]
  BY CallersAssumption DEF Join, Joinable
<1>2. PICK to \in {"clear", "clear+"} :
        pc' = [pc EXCEPT ![c] = to] /\ pc[c] \in {"join", "join+"}
  BY DEF Join, Go
<1>3. miningThreads \in Seq(alive) /\ miningThreads # <<>>
  BY <1>2 DEF Vector, TypeOK
<1>4. m \in alive /\ m \in Miners /\ m = miningThreads[1] /\ 1 \in DOMAIN miningThreads
      /\ Tail(miningThreads) \in Seq(alive)
  BY <1>3, HeadIn DEF TypeOK
<1>5. \A d \in Callers \ {c} : pc[d] \notin Holding /\ pc'[d] = pc[d]
  BY <1>2, Exclusion DEF Holding, Places
<1>6. \A i \in DOMAIN Tail(miningThreads) :
         i + 1 \in DOMAIN miningThreads /\ i + 1 # 1 /\ Tail(miningThreads)[i] = miningThreads[i + 1]
  BY <1>3, TailSet
<1>7. miningThreads' \in Seq(alive')
  <2>1. \A i \in DOMAIN Tail(miningThreads) : Tail(miningThreads)[i] \in alive \ {m}
    BY SMTT(60), <1>3, <1>4, <1>6 DEF Vector
  <2> QED
    BY <1>1, <1>4, <2>1, SeqOver
<1>8. TypeOK' /\ Places'
  <2>1. [Unmade EXCEPT !.at = "done"] \in Objects
    BY MaximumIsKind DEF Unmade, Objects
  <2>2. o' \in [Miners -> Objects]
    BY <1>1, <2>1 DEF TypeOK
  <2>3. Places' /\ alive' \subseteq Miners
    BY <1>1, <1>2 DEF Places, PCs, Holding, TypeOK
  <2> QED
    BY <1>1, <1>2, <1>7, <2>2, <2>3 DEF TypeOK, Places, Holding
<1>9. Vector'
  <2>1. \A i, j \in DOMAIN miningThreads' : miningThreads'[i] = miningThreads'[j] => i = j
    <3> SUFFICES ASSUME NEW i \in DOMAIN Tail(miningThreads), NEW j \in DOMAIN Tail(miningThreads),
                        Tail(miningThreads)[i] = Tail(miningThreads)[j]
                 PROVE  i = j
      BY <1>1
    <3>1. i + 1 = j + 1
      BY SMTT(60), <1>6 DEF Vector
    <3>2. i \in Nat /\ j \in Nat
      BY SMTT(60), <1>4
    <3> QED
      BY SMTT(60), <3>1, <3>2
  <2>2. \A n \in alive' : n \in ToSet(miningThreads)
    BY <1>1, <1>2, <1>5 DEF Vector, Holding
  <2>3. \A n \in alive' : n \in ToSet(miningThreads')
    BY <1>1, <1>3, <2>2, TailSet
  <2> QED
    BY <1>2, <1>5, <2>1, <2>3 DEF Vector, Holding, Places
<1>10. \A n \in Miners \ alive' : o'[n].at \in {"none", "done"}
  <2>1. o'[m].at = "done"
    BY <1>1, <1>4 DEF Unmade, TypeOK
  <2> QED
    BY <1>1, <1>4, <2>1 DEF TypeOK
<1>11. KindNotMissed'
  <2>1. \A n \in alive' : n \in alive /\ o'[n] = o[n]
    BY <1>1 DEF TypeOK
  <2>2. \A n \in alive : ToBeTold(n) => ToBeTold(n)'
    BY <1>1, <1>2 DEF ToBeTold, Places
  <2> QED
    BY <2>1, <2>2 DEF KindNotMissed
<1> QED
  BY <1>8, <1>9, <1>10, <1>11

LEMMA SpawnIInv ==
    ASSUME IInv, NEW c \in Callers, Spawn(c)
    PROVE  IInv'
<1> USE DEF IInv, OutlivesThread
<1>1. PICK m \in Miners \ alive, garbage \in BOOLEAN :
        /\ alive' = alive \cup {m}
        /\ left' = [left EXCEPT ![c] = Append(left[c], m)]
        /\ o' = [o EXCEPT ![m] = [Unmade EXCEPT !.at = "begin", !.kind = Torn,
                     !.finished = garbage, !.recreateBlock = garbage]]
  BY DEF Spawn
<1>2. /\ UNCHANGED <<miningThreads, miningThreads_mutex, cs_main, currentWayForNewCoins, arg,
                     terminated>>
      /\ c \notin Queries /\ pc[c] = "create" /\ pc' = [pc EXCEPT ![c] = "construct"]
  BY CallersAssumption DEF Spawn, Go
<1>3. \A d \in Callers \ {c} : pc[d] \notin Holding /\ pc'[d] = pc[d] /\ left'[d] = left[d]
  BY SMTT(60), <1>1, <1>2, Exclusion DEF Holding, Places, TypeOK
<1>4. /\ Append(left[c], m) \in Seq(Miners) /\ Append(left[c], m) # <<>>
      /\ Last(Append(left[c], m)) = m
  BY SMTT(60), AppendSet DEF TypeOK
<1>5. left' \in [Callers -> Seq(Miners)] /\ left'[c] = Append(left[c], m) /\ pc'[c] = "construct"
  BY <1>1, <1>2, <1>4 DEF TypeOK, Places
<1>6. TypeOK' /\ Places'
  <2>1. [Unmade EXCEPT !.at = "begin", !.kind = Torn, !.finished = garbage,
                       !.recreateBlock = garbage] \in Objects
    BY MaximumIsKind DEF Unmade, Objects
  <2>2. o' \in [Miners -> Objects]
    BY <1>1, <2>1 DEF TypeOK
  <2>3. miningThreads' \in Seq(alive') /\ alive' \subseteq Miners
    BY <1>1, <1>2, SeqMonotonic DEF TypeOK
  <2> QED
    BY <1>2, <1>5, <2>2, <2>3 DEF TypeOK, Places, Holding, PCs
<1>7. Vector'
  <2>1. m \notin ToSet(miningThreads)
    BY SMTT(60), LenProperties DEF TypeOK, ToSet
  <2>2. \A n \in alive : n \in ToSet(miningThreads)
    BY <1>2, <1>3 DEF Vector, Holding
  <2> QED
    BY <1>1, <1>2, <1>3, <1>4, <1>5, <2>1, <2>2 DEF Vector, Holding
<1>8. KindNotMissed'
  BY <1>5 DEF KindNotMissed, ToBeTold
<1>9. \A n \in Miners \ alive' : o'[n].at \in {"none", "done"}
  BY <1>1 DEF TypeOK
<1> QED
  BY <1>6, <1>7, <1>8, <1>9

LEMMA ConstructIInv ==
    ASSUME IInv, NEW c \in Callers, Construct(c)
    PROVE  IInv'
<1> USE DEF IInv, OutlivesThread
<1> DEFINE m == Last(left[c])
<1>1. /\ UNCHANGED <<miningThreads_mutex, cs_main, currentWayForNewCoins, alive, arg, left,
                     terminated>>
      /\ c \notin Queries /\ pc[c] = "construct" /\ pc' = [pc EXCEPT ![c] = "create"]
      /\ miningThreads' = Append(miningThreads, m)
  BY CallersAssumption DEF Construct, Go
<1>2. m \in alive /\ m \notin ToSet(miningThreads) /\ m \in Miners /\ miningThreads \in Seq(alive)
  BY <1>1 DEF Vector, TypeOK
<1>3. o' = [o EXCEPT ![m] = [o[m] EXCEPT !.script = FALSE, !.candidate = FALSE, !.finished = FALSE,
                                         !.recreateBlock = FALSE, !.kind = Maximum]]
  BY <1>2 DEF Construct, TypeOK
<1>4. \A d \in Callers \ {c} : pc[d] \notin Holding /\ pc'[d] = pc[d]
  BY <1>1, Exclusion DEF Holding, Places
<1>5. o' \in [Miners -> Objects] /\ \A n \in Miners : o'[n].at = o[n].at
  <2>1. o[m] \in Objects
    BY <1>2 DEF TypeOK
  <2>2. [o[m] EXCEPT !.script = FALSE, !.candidate = FALSE, !.finished = FALSE,
                     !.recreateBlock = FALSE, !.kind = Maximum] \in Objects
    BY <2>1, MaximumIsKind DEF Objects
  <2>3. [o[m] EXCEPT !.script = FALSE, !.candidate = FALSE, !.finished = FALSE,
                     !.recreateBlock = FALSE, !.kind = Maximum].at = o[m].at
    BY <2>1 DEF Objects
  <2> QED
    BY <1>2, <1>3, <2>2, <2>3 DEF TypeOK
<1>6. TypeOK' /\ Places'
  <2>1. miningThreads' \in Seq(alive')
    BY <1>1, <1>2, AppendSet
  <2> QED
    BY <1>1, <1>5, <2>1 DEF TypeOK, Places, Holding, PCs
<1>7. Vector'
  <2>1. \A i, j \in DOMAIN miningThreads' : miningThreads'[i] = miningThreads'[j] => i = j
    <3>1. \A i \in DOMAIN miningThreads : miningThreads[i] # m
      BY <1>2 DEF ToSet
    <3>2. \A i \in DOMAIN miningThreads' :
             \/ i = Len(miningThreads) + 1 /\ miningThreads'[i] = m
             \/ i \in DOMAIN miningThreads /\ miningThreads'[i] = miningThreads[i]
      BY SMTT(60), <1>1, <1>2, AppendSet
    <3> QED
      BY <3>1, <3>2 DEF Vector
  <2>2. \A n \in alive : n \in ToSet(miningThreads) \/ n = m
    BY <1>1, <1>4 DEF Vector, Holding
  <2>3. \A n \in alive' : n \in ToSet(miningThreads')
    BY <1>1, <1>2, <2>2, AppendSet
  <2>4. pc'[c] = "create"
    BY <1>1 DEF Places
  <2> QED
    BY SMTT(60), <1>4, <2>1, <2>3, <2>4 DEF Vector, Holding
<1>8. KindNotMissed'
  BY <1>1 DEF KindNotMissed, ToBeTold, Places
<1> QED
  BY <1>1, <1>5, <1>6, <1>7, <1>8

-----------------------------------------------------------------------------
LEMMA StutterIInv == IInv /\ UNCHANGED vars => IInv'
BY DEF IInv, Places, Vector, OutlivesThread, TypeOK, KindNotMissed, ToBeTold, vars

\* The invariant holds in every state of MiningThreads.
THEOREM MiningInvariance == Spec => []IInv
<1>1. IInv /\ [Next]_vars => IInv'
  <2> SUFFICES ASSUME IInv, [Next]_vars PROVE IInv'
    OBVIOUS
  <2>1. ASSUME NEW c \in Callers,
               \/ \E generate \in BOOLEAN : GenerateCoins(c, generate)
               \/ ChangeKind(c) \/ Work(c)
        PROVE  IInv'
    BY <2>1, CallIInv, LockIInv, ReleaseIInv, LockChangeIInv, AssignIInv, SetFlagIInv,
       EndOfThreadIInv, JoinIInv, SpawnIInv, ConstructIInv DEF Work
  <2> QED
    BY <2>1, QueryIInv, MineIInv, StutterIInv DEF Next
<1> QED
  BY <1>1, InitIInv, PTL DEF Spec

\* MineBlocks never runs in a MiningThread that ~MiningThread has destroyed, however
\* many calls of GenerateCoins there are at a time and threads in each.
THEOREM ThreadsJoined == Spec => []OutlivesThread
<1>1. IInv => OutlivesThread
  BY DEF IInv
<1> QED
  BY <1>1, MiningInvariance, PTL

\* setKindOfHowManyCoinsToGenerate is never missed: a thread that searches with another
\* kind than its object's has recreateBlock set, or a caller has still to tell it.
THEOREM EveryThreadTold == Spec => []KindNotMissed
<1>1. IInv => KindNotMissed
  BY DEF IInv
<1> QED
  BY <1>1, MiningInvariance, PTL
=============================================================================
