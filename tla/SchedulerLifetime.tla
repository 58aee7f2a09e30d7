------------------------- MODULE SchedulerLifetime -------------------------
(***************************************************************************)
(* The life of the node's CScheduler object.  AppInitMain starts the one   *)
(* service thread and CConnman::Start schedules DumpData on it; at the end *)
(* StopAndJoinThreads stops the scheduler and joins the thread.  The two   *)
(* programs differ in where the object lives: in dogecoin-qt it is a       *)
(* member of DogecoinCore, in dogecoind it is a local variable of the try  *)
(* block that calls AppInitMain.  UsageSpec is any program that follows    *)
(* the usage comment of scheduler.h, as the unit test does.                *)
(***************************************************************************)
EXTENDS Scheduler

VARIABLES main,   \* the thread that runs AppInit or DogecoinCore
          alive   \* the CScheduler object exists

lifeVars == <<main, alive, vars>>

\* AppInitMain, step 4a: the scheduler thread is started.
LifeInit == Init /\ main = "started" /\ alive = TRUE

\* AppInitMain, step 11: connman.Start( scheduler, ... ).
StartConnman ==
    /\ main = "started" /\ main' = "running"
    /\ \E f \in Every : Schedule(f, MaxDelay)
    /\ UNCHANGED alive

\* AppInitMain returns false or throws between the two.
InitFails ==
    /\ main = "started" /\ main' = "running"
    /\ UNCHANGED <<alive, vars>>

\* The try block of dogecoind's AppInit ends before WaitForShutdown.
LeaveTryBlock ==
    /\ main = "running" /\ main' = "waiting"
    /\ alive' = FALSE
    /\ UNCHANGED vars

\* StopAndJoinThreads: stop() ...
StopScheduler(from, drain) ==
    /\ main = from
    /\ Stop(drain)
    /\ main' = "joining"
    /\ UNCHANGED alive

\* The threads that join() waits for.
JoinsNobody == {}
JoinedThreads == Threads

\* ... with its notify_all(), and join().
JoinThread ==
    /\ main = "joining" /\ ~notifyAll
    /\ \A t \in JoinedThreads : pc[t] = "done"
    /\ main' = "joined"
    /\ UNCHANGED <<alive, vars>>

\* DogecoinCore is deleted after its shutdown().
DeleteCore ==
    /\ main = "joined" /\ alive
    /\ alive' = FALSE
    /\ UNCHANGED <<main, vars>>

\* The service thread, the clock and the notifications under way.
Service ==
    /\ \/ \E t \in Threads : serviceQueue(t)
       \/ Tick \/ NotifyOne \/ NotifyAll
    /\ UNCHANGED <<main, alive>>

Common == StartConnman \/ InitFails \/ JoinThread \/ Service

QtNext == Common \/ StopScheduler("running", FALSE) \/ DeleteCore
DaemonNext == Common \/ LeaveTryBlock \/ StopScheduler("waiting", FALSE)

\* Tasks are scheduled from anywhere while the object is in use.
Use ==
    /\ main \in {"started", "joining"}
    /\ \E f \in Tasks, d \in Delays : Schedule(f, d)
    /\ UNCHANGED <<main, alive>>

UsageNext == \/ Use \/ Service \/ JoinThread \/ DeleteCore
             \/ \E drain \in BOOLEAN : StopScheduler("started", drain)

UsageSpec == LifeInit /\ [][UsageNext]_lifeVars /\ Fairness
QtSpec == LifeInit /\ [][QtNext]_lifeVars
DaemonSpec == LifeInit /\ [][DaemonNext]_lifeVars

-----------------------------------------------------------------------------
LifeTypeOK ==
    /\ TypeOK /\ alive \in BOOLEAN
    /\ main \in {"started", "running", "waiting", "joining", "joined"}

\* The usage comment of scheduler.h: "delete s ; // only after the thread is
\* joined".  No thread is inside serviceQueue() of an object that is gone.
DeletedAfterJoin == LifeTypeOK /\ (~alive => \A t \in Threads : pc[t] = "done")
=============================================================================
