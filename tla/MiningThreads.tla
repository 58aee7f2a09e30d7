---------------------------- MODULE MiningThreads ----------------------------
(***************************************************************************)
(* The life of the internal miner's threads (miner.cpp, miner.h):          *)
(* GenerateCoins ends the present MiningThreads and makes new ones,        *)
(* ChangeKindOfHowManyCoinsToGenerate tells them how many coins to make,   *)
(* getgenerate counts them, and MineBlocks works in each of them.          *)
(*                                                                         *)
(* theThread is the first member that a MiningThread's constructor         *)
(* initialises, so MineBlocks may run before the others have a value:      *)
(* until then they have any.  A string being assigned reads as Torn.       *)
(* Of a block candidate there is only whether it exists, since endOfThread *)
(* drops it before it joins the thread that uses it.  cs_main is here      *)
(* because MineBlocks needs it to assemble and to process a block.  On     *)
(* regtest a thread that found a block ends itself, as in NoScript: that   *)
(* network is left out.                                                    *)
(***************************************************************************)
EXTENDS Naturals, Sequences, SequencesExt

CONSTANTS Callers,    \* threads that call GenerateCoins or change the kind
          Stoppers,   \* the ones that only turn mining off, as Shutdown does
          Queries,    \* threads that call getgenerate
          Miners,     \* room for MiningThread objects
          Kinds,      \* values of kindOfHowManyCoinsToGenerate
          Maximum,    \* the kind that a constructor sets
          Torn, Live, \* a string half assigned; a reference to the global one
          nThreads,   \* threads to start
          HasScript,  \* ScriptForMining provides a script
          None

ASSUME MaximumIsKind == Maximum \in Kinds
ASSUME ScriptAssumption == HasScript \in BOOLEAN
ASSUME CallersAssumption == Callers \cap Queries = {} /\ None \notin Callers \cup Queries

VARIABLES miningThreads,         \* the vector of objects
          miningThreads_mutex,
          cs_main,
          currentWayForNewCoins,
          alive,                 \* objects not yet destroyed
          o,                     \* per object: members and place in MineBlocks
          pc, arg, left,         \* per caller: place, kind, objects to tell
          terminated             \* the process has ended by a fault

vars == <<miningThreads, miningThreads_mutex, cs_main, currentWayForNewCoins,
          alive, o, pc, arg, left, terminated>>

Objects == [at : {"none", "begin", "script", "test", "top", "assemble", "fresh",
                  "kind", "scan", "found", "done"},
            finished : BOOLEAN, recreateBlock : BOOLEAN, script : BOOLEAN,
            candidate : BOOLEAN,
            kind : Kinds \cup {Torn}, used : Kinds \cup {Torn}]

Unmade == [at |-> "none", finished |-> FALSE, recreateBlock |-> FALSE,
           script |-> FALSE, candidate |-> FALSE, kind |-> Maximum, used |-> Maximum]

Init ==
    /\ miningThreads = <<>> /\ miningThreads_mutex = None /\ cs_main = None
    /\ currentWayForNewCoins = Maximum
    /\ alive = {} /\ o = [m \in Miners |-> Unmade]
    /\ pc = [c \in Callers \cup Queries |-> "idle"]
    /\ arg = [c \in Callers |-> Live] /\ left = [c \in Callers |-> <<>>]
    /\ terminated = FALSE

Go(c, from, to) == pc[c] = from /\ pc' = [pc EXCEPT ![c] = to]

\* lock_guard( miningThreads_mutex ) in a caller, and its end.
IsFree == miningThreads_mutex = None
Lock(c, from, to) ==
    /\ Go(c, from, to) /\ IsFree
    /\ miningThreads_mutex' = c
    /\ UNCHANGED <<miningThreads, cs_main, currentWayForNewCoins, alive, o, arg,
                   left, terminated>>

-----------------------------------------------------------------------------
(* GenerateCoins                                                           *)

\* GenerateCoins( generate, nThreads ) is called.
GenerateCoins(c, generate) ==
    /\ c \in Stoppers => ~generate
    /\ Go(c, "idle", IF generate THEN "restart" ELSE "stop")
    /\ UNCHANGED <<miningThreads, miningThreads_mutex, cs_main,
                   currentWayForNewCoins, alive, o, arg, left, terminated>>

LockClear(c) == Lock(c, "restart", "clear+") \/ Lock(c, "stop", "clear")

\* miningThreads.clear() destroys the next object: ~MiningThread() calls
\* endOfThread( false ), which sets finished, drops the candidate ...
EndOfThread(c) ==
    /\ miningThreads # <<>>
    /\ Go(c, "clear", "join") \/ Go(c, "clear+", "join+")
    /\ o' = [o EXCEPT ![Head(miningThreads)].finished = TRUE,
                      ![Head(miningThreads)].candidate = FALSE]
    /\ UNCHANGED <<miningThreads, miningThreads_mutex, cs_main,
                   currentWayForNewCoins, alive, arg, left, terminated>>

\* ... and joins the thread.
NotAwaited(m) == TRUE
Joinable(m) == o[m].at = "done"
Join(c) ==
    LET m == Head(miningThreads) IN
    /\ Go(c, "join", "clear") \/ Go(c, "join+", "clear+")
    /\ Joinable(m)
    /\ miningThreads' = Tail(miningThreads) /\ alive' = alive \ {m}
    /\ o' = [o EXCEPT ![m] = [Unmade EXCEPT !.at = o[m].at]]
    /\ UNCHANGED <<miningThreads_mutex, cs_main, currentWayForNewCoins, arg,
                   left, terminated>>

\* All are destroyed: unlock, and return unless new ones are wanted.
Cleared(c) ==
    /\ miningThreads = <<>>
    /\ Go(c, "clear", "idle") \/ Go(c, "clear+", "start")
    /\ miningThreads_mutex' = None
    /\ UNCHANGED <<miningThreads, cs_main, currentWayForNewCoins, alive, o, arg,
                   left, terminated>>

LockCreate(c) == Lock(c, "start", "create")

\* new MiningThread( i ): the thread starts, the members are not initialised.
Spawn(c) ==
    /\ Go(c, "create", "construct")
    /\ Len(left[c]) < nThreads
    /\ \E m \in Miners \ alive, garbage \in BOOLEAN :
        /\ alive' = alive \cup {m}
        /\ left' = [left EXCEPT ![c] = Append(@, m)]
        /\ o' = [o EXCEPT ![m] = [Unmade EXCEPT !.at = "begin", !.kind = Torn,
                     !.finished = garbage, !.recreateBlock = garbage]]
    /\ UNCHANGED <<miningThreads, miningThreads_mutex, cs_main,
                   currentWayForNewCoins, arg, terminated>>

\* The constructor initialises the members and the object goes into the vector.
Construct(c) ==
    LET m == Last(left[c]) IN
    /\ Go(c, "construct", "create")
    /\ o' = [o EXCEPT ![m].script = FALSE, ![m].candidate = FALSE,
                      ![m].finished = FALSE,
                      ![m].recreateBlock = FALSE, ![m].kind = Maximum]
    /\ miningThreads' = Append(miningThreads, m)
    /\ UNCHANGED <<miningThreads_mutex, cs_main, currentWayForNewCoins, alive,
                   arg, left, terminated>>

\* All are made: unlock, and give them currentWayForNewCoins.
Created(c) ==
    /\ Go(c, "create", "change") /\ Len(left[c]) = nThreads
    /\ miningThreads_mutex' = None
    /\ left' = [left EXCEPT ![c] = <<>>]
    /\ UNCHANGED <<miningThreads, cs_main, currentWayForNewCoins, alive, o, arg,
                   terminated>>

-----------------------------------------------------------------------------
(* ChangeKindOfHowManyCoinsToGenerate                                      *)

ChangeKind(c) ==
    /\ c \notin Stoppers
    /\ Go(c, "idle", "change")
    /\ \E k \in Kinds : arg' = [arg EXCEPT ![c] = k]
    /\ UNCHANGED <<miningThreads, miningThreads_mutex, cs_main,
                   currentWayForNewCoins, alive, o, left, terminated>>

LockChange(c) ==
    /\ Go(c, "change", "tell") /\ IsFree
    /\ miningThreads_mutex' = c
    /\ left' = [left EXCEPT ![c] = miningThreads]
    /\ UNCHANGED <<miningThreads, cs_main, currentWayForNewCoins, alive, o, arg,
                   terminated>>

\* setKindOfHowManyCoinsToGenerate of the next object: assign the string ...
BeginAssign(c) ==
    /\ Go(c, "tell", "assign") /\ left[c] # <<>>
    /\ o' = [o EXCEPT ![Head(left[c])].kind = Torn]
    /\ UNCHANGED <<miningThreads, miningThreads_mutex, cs_main,
                   currentWayForNewCoins, alive, arg, left, terminated>>

kind(c) == IF arg[c] = Live THEN currentWayForNewCoins ELSE arg[c]

EndAssign(c) ==
    /\ Go(c, "assign", "flag")
    /\ o' = [o EXCEPT ![Head(left[c])].kind = kind(c)]
    /\ UNCHANGED <<miningThreads, miningThreads_mutex, cs_main,
                   currentWayForNewCoins, alive, arg, left, terminated>>

\* ... and set recreateBlock.
NotFlagged(m) == o[m]
Flagged(m) == [o[m] EXCEPT !.recreateBlock = TRUE]
SetFlag(c) ==
    /\ Go(c, "flag", "tell")
    /\ o' = [o EXCEPT ![Head(left[c])] = Flagged(Head(left[c]))]
    /\ left' = [left EXCEPT ![c] = Tail(@)]
    /\ UNCHANGED <<miningThreads, miningThreads_mutex, cs_main,
                   currentWayForNewCoins, alive, arg, terminated>>

Told(c) ==
    /\ Go(c, "tell", "way") /\ left[c] = <<>>
    /\ miningThreads_mutex' = None
    /\ UNCHANGED <<miningThreads, cs_main, currentWayForNewCoins, alive, o, arg,
                   left, terminated>>

\* currentWayForNewCoins = kind, without the mutex.
SetWay(c) ==
    /\ Go(c, "way", "idle")
    /\ currentWayForNewCoins' = kind(c)
    /\ arg' = [arg EXCEPT ![c] = Live]
    /\ UNCHANGED <<miningThreads, miningThreads_mutex, cs_main, alive, o, left,
                   terminated>>

-----------------------------------------------------------------------------
(* getgenerate: LOCK( cs_main ), then HowManyMiningThreads()                *)

getgenerate(q) ==
    /\ Go(q, "idle", "count") /\ cs_main = None
    /\ cs_main' = q
    /\ UNCHANGED <<miningThreads, miningThreads_mutex, currentWayForNewCoins,
                   alive, o, arg, left, terminated>>

HowManyMiningThreads(q) ==
    /\ Go(q, "count", "idle") /\ IsFree
    /\ cs_main' = None
    /\ UNCHANGED <<miningThreads, miningThreads_mutex, currentWayForNewCoins,
                   alive, o, arg, left, terminated>>

-----------------------------------------------------------------------------
(* MineBlocks, in the thread of object m                                   *)

Mine(m, from, new) ==
    /\ o[m].at = from /\ o' = [o EXCEPT ![m] = new]
    /\ UNCHANGED <<miningThreads, miningThreads_mutex, cs_main,
                   currentWayForNewCoins, alive, pc, arg, left, terminated>>

\* Where MineBlocks goes on, when it tests finished first.
NeverFinished(m, next) == next
UnlessFinished(m, next) == IF o[m].finished THEN "done" ELSE next

\* if ( finished ) return
Begin(m) ==
    Mine(m, "begin", [o[m] EXCEPT !.at = UnlessFinished(m, "script")])

ScriptForMining(m) ==
    Mine(m, "script", [o[m] EXCEPT !.at = "test", !.script = HasScript])

\* With a script the loop begins.
TestScript(m) == o[m].script /\ Mine(m, "test", [o[m] EXCEPT !.at = "top"])

\* Without one runtime_error is thrown and its handler calls endOfThread(),
\* which joins the thread it runs in: that throws out of the thread.
NoScript(m) ==
    /\ o[m].at = "test" /\ ~o[m].script
    /\ o' = [o EXCEPT ![m].finished = TRUE]
    /\ terminated' = TRUE
    /\ UNCHANGED <<miningThreads, miningThreads_mutex, cs_main,
                   currentWayForNewCoins, alive, pc, arg, left>>

\* The outer loop drops the candidate and waits for peers.
LoopTop(m) ==
    Mine(m, "top", [o[m] EXCEPT !.at = UnlessFinished(m, "assemble"),
                                !.candidate = FALSE, !.used = Maximum])

\* assembleNewBlockCandidate() locks cs_main; it is repeated if it fails.
Assemble(m) ==
    /\ cs_main = None
    /\ \E next \in {"fresh", "assemble"} :
          Mine(m, "assemble", [o[m] EXCEPT !.at = UnlessFinished(m, next),
                                           !.candidate = (next = "fresh")])

TakeFlag(m) ==
    Mine(m, "fresh", [o[m] EXCEPT !.at = "kind", !.recreateBlock = FALSE])

\* newCoinsByKind reads the kind and the search begins.
ReadKind(m) ==
    /\ o[m].candidate
    /\ Mine(m, "kind", [o[m] EXCEPT !.at = "scan", !.used = o[m].kind])

\* The search ends with a solution, or because the thread is finished, the
\* block is to be made anew, or the tip, the mempool or the time has changed.
Found(m) == Mine(m, "scan", [o[m] EXCEPT !.at = "found"])
Abandon(m) == Mine(m, "scan", [o[m] EXCEPT !.at = UnlessFinished(m, "top")])

\* The candidate has been dropped by the thread that destroys the object: before
\* the search a null pointer is followed, in the search one to freed memory.
UsesDropped(m) ==
    /\ o[m].at \in {"kind", "scan", "found"} /\ ~o[m].candidate
    /\ terminated' = TRUE
    /\ UNCHANGED <<miningThreads, miningThreads_mutex, cs_main,
                   currentWayForNewCoins, alive, o, pc, arg, left>>

\* ProcessBlockFound locks cs_main.
ProcessBlockFound(m) ==
    cs_main = None /\ Mine(m, "found", [o[m] EXCEPT !.at = "top"])

MineBlocks(m) ==
    \/ Begin(m) \/ ScriptForMining(m) \/ TestScript(m) \/ NoScript(m)
    \/ LoopTop(m) \/ Assemble(m) \/ TakeFlag(m) \/ ReadKind(m)
    \/ Found(m) \/ Abandon(m) \/ UsesDropped(m) \/ ProcessBlockFound(m)

Work(c) ==
    \/ LockClear(c) \/ EndOfThread(c) \/ Join(c) \/ Cleared(c)
    \/ LockCreate(c) \/ Spawn(c) \/ Construct(c) \/ Created(c)
    \/ LockChange(c) \/ BeginAssign(c) \/ EndAssign(c) \/ SetFlag(c)
    \/ Told(c) \/ SetWay(c)

Next ==
    /\ ~terminated
    /\ \/ \E c \in Callers :
            \/ \E generate \in BOOLEAN : GenerateCoins(c, generate)
            \/ ChangeKind(c) \/ Work(c)
       \/ \E q \in Queries : getgenerate(q) \/ HowManyMiningThreads(q)
       \/ \E m \in Miners : MineBlocks(m)

Spec == Init /\ [][Next]_vars

\* Threads run, and one that waits for a mutex gets it; nobody has to call, and
\* no block has to be found.  A scan ends when it may (the nonces of a round
\* are finite), and a failed assembly succeeds or is given up.
Fairness ==
    /\ \A c \in Callers : SF_vars(~terminated /\ Work(c))
    /\ \A q \in Queries : SF_vars(~terminated /\ HowManyMiningThreads(q))
    /\ \A m \in Miners :
        /\ SF_vars(~terminated /\ (Assemble(m) \/ ProcessBlockFound(m)))
        /\ WF_vars(~terminated /\ (\/ Begin(m) \/ ScriptForMining(m)
                                   \/ TestScript(m) \/ NoScript(m) \/ LoopTop(m)
                                   \/ TakeFlag(m) \/ ReadKind(m) \/ Abandon(m)))
        /\ WF_vars(~terminated /\ o[m].at = "kind" /\ UsesDropped(m))

FairSpec == Spec /\ Fairness

-----------------------------------------------------------------------------
(* Properties                                                              *)

Holding == {"clear", "clear+", "join", "join+", "create", "construct",
            "tell", "assign", "flag"}

TypeOK ==
    /\ miningThreads \in Seq(alive) /\ alive \subseteq Miners
    /\ \A c \in Callers : (miningThreads_mutex = c) <=> pc[c] \in Holding
    /\ \A q \in Queries : (cs_main = q) <=> pc[q] = "count"
    /\ currentWayForNewCoins \in Kinds
    /\ o \in [Miners -> Objects]
    /\ arg \in [Callers -> Kinds \cup {Live}]
    /\ left \in [Callers -> Seq(Miners)]
    /\ terminated \in BOOLEAN

\* ~MiningThread joins: MineBlocks never runs in an object that is destroyed.
OutlivesThread == TypeOK /\ \A m \in Miners \ alive : o[m].at \in {"none", "done"}

\* Somebody still has to tell m its kind: the caller that has just made it, or
\* one that goes through the vector.
ToBeTold(m) ==
    \E c \in Callers : \/ pc[c] \in {"construct", "create", "change"}
                       \/ pc[c] \in {"tell", "assign", "flag"} /\ m \in ToSet(left[c])

\* recreateBlock is taken back before the kind is read, and set after the kind
\* is written: no change of kind goes unnoticed by a thread that mines.
KindNotMissed ==
    \A m \in alive : o[m].at \in {"scan", "found"} /\ o[m].used # o[m].kind
                        => o[m].recreateBlock \/ ToBeTold(m)

\* GenerateCoins returns, and so does the change of kind, unless getgenerate holds
\* cs_main for ever: the threads see finished wherever they are and end, and
\* nothing but getgenerate can keep a caller waiting.
OnlyQueryBlocks ==
    \A c \in Callers :
        [](pc[c] # "idle" => <>(\/ pc[c] = "idle" \/ terminated
                                \/ [](\E q \in Queries : cs_main = q)))

\* setgenerate: "Set to true to turn on generation, false to turn it off".
\* The call returns: every thread it joins sees finished and ends.  This does not
\* hold: the call joins with miningThreads_mutex locked a thread that needs
\* cs_main, which getgenerate keeps locked while it waits for the mutex.
GenerateReturns ==
    \A c \in Callers : pc[c] # "idle" ~> (pc[c] = "idle" \/ terminated)
=============================================================================
