----------------------------- MODULE Scheduler -----------------------------
(***************************************************************************)
(* CScheduler (scheduler.h, scheduler.cpp): background tasks that run once *)
(* or periodically on the threads that call serviceQueue().                *)
(*                                                                         *)
(* newTaskMutex is held in serviceQueue() except while a thread waits on   *)
(* newTaskScheduled and while it calls a task, and whoever changes what    *)
(* serviceQueue() tests holds it too, so one critical section is one step. *)
(* notify_one() and notify_all() come after the mutex is released, as      *)
(* steps of their own.                                                     *)
(*                                                                         *)
(* Times are kept as the time that is left: Tick takes one unit off every  *)
(* task and every timed wait, and what is due stays at 0.  The order of    *)
(* taskQueue keeps the order in which due tasks were due.                  *)
(***************************************************************************)
EXTENDS Integers, SequencesExt, FiniteSets

CONSTANTS Threads,   \* threads that call serviceQueue()
          Once,      \* tasks given to scheduleFromNow()
          Every,     \* tasks given to scheduleEvery()
          MaxDelay   \* the longest deltaSeconds, the period of an Every task

ASSUME TasksAssumption == Once \cap Every = {} /\ MaxDelay \in Nat \ {0}
ASSUME ThreadsAssumption == IsFiniteSet(Threads) /\ Threads # {}

Tasks == Once \cup Every
Delays == 0 .. MaxDelay
Forever == -1        \* an untimed wait

VARIABLES taskQueue,                   \* multimap of time and task
          inQueue, stopRequested, stopWhenEmpty,
          pc,         \* where each service thread is
          waitsFor,   \* time left in its wait
          fun,        \* the task it runs, and the time that was left when
          early,      \*   it took the task
          notifyOne,  \* calls of notify_one() that are still to come
          notifyAll,  \* a call of notify_all() is still to come
          calls,      \* tasks that nobody has scheduled yet
          ran,        \* history: tasks whose call has returned
          accepted    \* history: tasks scheduled before stop(true)

vars == <<taskQueue, inQueue, stopRequested, stopWhenEmpty, pc, waitsFor, fun,
          early, notifyOne, notifyAll, calls, ran, accepted>>

\* "start": before serviceQueue; "wait": blocked on newTaskScheduled; "woken":
\* notified, before it locks again; "run": in f(), unlocked; "repeated":
\* Repeat() has put f back, before its notify_one(); "ran": f() has returned,
\* before reverse_lock locks again; "done": serviceQueue returned.
PCs == {"start", "wait", "woken", "run", "repeated", "ran", "done"}

Init ==
    /\ taskQueue = <<>> /\ inQueue = 0
    /\ stopRequested = FALSE /\ stopWhenEmpty = FALSE
    /\ pc = [t \in Threads |-> "start"]
    /\ waitsFor = [t \in Threads |-> Forever]
    /\ fun = [t \in Threads |-> {}] /\ early = [t \in Threads |-> 0]
    /\ notifyOne = 0 /\ notifyAll = FALSE
    /\ calls = Tasks /\ ran = {} /\ accepted = {}

-----------------------------------------------------------------------------
(* schedule, stop and their notifications                                  *)

\* taskQueue.insert: a multimap puts equal keys in order of insertion.
Insert(q, f, delay) ==
    LET notLater == {i \in DOMAIN q : q[i].left =< delay}
    IN  InsertAt(q, Cardinality(notLater) + 1, [f |-> f, left |-> delay])

\* scheduleFromNow and scheduleEvery, each called once for each task.
Schedule(f, delay) ==
    /\ f \in calls
    /\ f \in Every => delay = MaxDelay
    /\ taskQueue' = Insert(taskQueue, f, delay)
    /\ notifyOne' = notifyOne + 1
    /\ calls' = calls \ {f}
    /\ accepted' = IF stopWhenEmpty THEN accepted ELSE accepted \cup {f}
    /\ UNCHANGED <<inQueue, stopRequested, stopWhenEmpty, pc, waitsFor, fun,
                   early, notifyAll, ran>>

\* stop(drain)
Stop(drain) ==
    /\ ~stopRequested /\ ~stopWhenEmpty
    /\ stopWhenEmpty' = drain /\ stopRequested' = ~drain
    /\ notifyAll' = TRUE
    /\ UNCHANGED <<taskQueue, inQueue, pc, waitsFor, fun, early, notifyOne,
                   calls, ran, accepted>>

Waiting == {t \in Threads : pc[t] = "wait"}

\* What notify_one() makes of the program counters p.
AfterNotifyOne(p) ==
    LET waiting == {t \in Threads : p[t] = "wait"}
    IN  IF waiting = {} THEN {p}
        ELSE {[p EXCEPT ![t] = "woken"] : t \in waiting}

NotifyOne ==
    /\ notifyOne > 0
    /\ notifyOne' = notifyOne - 1
    /\ pc' \in AfterNotifyOne(pc)
    /\ UNCHANGED <<taskQueue, inQueue, stopRequested, stopWhenEmpty, waitsFor,
                   fun, early, notifyAll, calls, ran, accepted>>

\* What notify_all() in stop() wakes.
WokenByNothing == {}
WokenByStop == Waiting

NotifyAll ==
    /\ notifyAll
    /\ notifyAll' = FALSE
    /\ pc' = [t \in Threads |-> IF t \in WokenByStop THEN "woken" ELSE pc[t]]
    /\ UNCHANGED <<taskQueue, inQueue, stopRequested, stopWhenEmpty, waitsFor,
                   fun, early, notifyOne, calls, ran, accepted>>

\* A condition variable may wake a thread that nobody notified.
SpuriousWake(t) ==
    /\ t \in Waiting
    /\ pc' = [pc EXCEPT ![t] = "woken"]
    /\ UNCHANGED <<taskQueue, inQueue, stopRequested, stopWhenEmpty, waitsFor,
                   fun, early, notifyOne, notifyAll, calls, ran, accepted>>

-----------------------------------------------------------------------------
(* serviceQueue                                                            *)

StopsAtOnce == stopRequested \/ stopWhenEmpty
isStopping == stopRequested \/ (stopWhenEmpty /\ taskQueue = <<>>)

NoDeadline == Forever
timeToWaitFor == IF taskQueue = <<>> THEN Forever ELSE Head(taskQueue).left

\* inQueue once t, which counts itself as it enters, has left.
InQueueWithout(t) == IF pc[t] = "start" THEN inQueue ELSE inQueue - 1

\* t holds the lock and has found that it has nothing to run: it leaves the
\* loop, with a notification under the lock, or waits for a task or for the
\* time of the first one.
LeaveOrWait(t) ==
    /\ IF isStopping
       THEN /\ inQueue' = InQueueWithout(t)
            /\ waitsFor' = [waitsFor EXCEPT ![t] = Forever]
            /\ pc' \in AfterNotifyOne([pc EXCEPT ![t] = "done"])
       ELSE /\ inQueue' = IF pc[t] = "start" THEN inQueue + 1 ELSE inQueue
            /\ waitsFor' = [waitsFor EXCEPT ![t] = timeToWaitFor]
            /\ pc' = [pc EXCEPT ![t] = "wait"]
    /\ UNCHANGED <<taskQueue, fun, early>>

\* The queue without the task that was taken.
QueueNotErased == taskQueue
QueueErased == Tail(taskQueue)

\* t takes taskQueue.begin() and releases the lock to call it.
TakeFirst(t) ==
    /\ fun' = [fun EXCEPT ![t] = {Head(taskQueue).f}]
    /\ early' = [early EXCEPT ![t] = Head(taskQueue).left]
    /\ taskQueue' = QueueErased
    /\ pc' = [pc EXCEPT ![t] = "run"]
    /\ waitsFor' = [waitsFor EXCEPT ![t] = Forever]
    /\ UNCHANGED inQueue

\* Enter serviceQueue, or come back from a call, at the head of the loop.
Loop(t) ==
    /\ pc[t] \in {"start", "ran"}
    /\ LeaveOrWait(t)
    /\ UNCHANGED <<stopRequested, stopWhenEmpty, notifyOne, notifyAll, calls,
                   ran, accepted>>

\* The deadline of the wait has passed, whether or not t was notified too.
TimedOut(t) == waitsFor[t] = 0

\* A wait returns.  After a timeout t runs the first task unless the queue has
\* been emptied or the scheduler is stopping.
Resume(t) ==
    /\ pc[t] = "woken" \/ (pc[t] = "wait" /\ TimedOut(t))
    /\ IF TimedOut(t) /\ ~isStopping /\ taskQueue # <<>>
       THEN TakeFirst(t) ELSE LeaveOrWait(t)
    /\ UNCHANGED <<stopRequested, stopWhenEmpty, notifyOne, notifyAll, calls,
                   ran, accepted>>

\* f() returns, or it is a periodic task and Repeat() schedules it again, ...
Return(t) ==
    /\ pc[t] = "run"
    /\ IF fun[t] \subseteq Every
       THEN /\ \E f \in fun[t] : taskQueue' = Insert(taskQueue, f, MaxDelay)
            /\ pc' = [pc EXCEPT ![t] = "repeated"]
       ELSE /\ pc' = [pc EXCEPT ![t] = "ran"]
            /\ UNCHANGED taskQueue
    /\ ran' = ran \cup fun[t]
    /\ fun' = [fun EXCEPT ![t] = {}] /\ early' = [early EXCEPT ![t] = 0]
    /\ UNCHANGED <<inQueue, stopRequested, stopWhenEmpty, waitsFor, notifyOne,
                   notifyAll, calls, accepted>>

\* ... which ends with a notification.
Repeat(t) ==
    /\ pc[t] = "repeated"
    /\ pc' \in AfterNotifyOne([pc EXCEPT ![t] = "ran"])
    /\ UNCHANGED <<taskQueue, inQueue, stopRequested, stopWhenEmpty, waitsFor,
                   fun, early, notifyOne, notifyAll, calls, ran, accepted>>

-----------------------------------------------------------------------------
Less(n) == IF n > 0 THEN n - 1 ELSE n

\* The clock.  It need not advance when nothing has a deadline.
Tick ==
    /\ \/ \E i \in DOMAIN taskQueue : taskQueue[i].left > 0
       \/ \E t \in Threads : waitsFor[t] > 0
    /\ taskQueue' = [i \in DOMAIN taskQueue |->
                       [taskQueue[i] EXCEPT !.left = Less(@)]]
    /\ waitsFor' = [t \in Threads |-> Less(waitsFor[t])]
    /\ UNCHANGED <<inQueue, stopRequested, stopWhenEmpty, pc, fun, early,
                   notifyOne, notifyAll, calls, ran, accepted>>

Client == \/ \E f \in Tasks, d \in Delays : Schedule(f, d)
          \/ \E drain \in BOOLEAN : Stop(drain)
          \/ NotifyOne \/ NotifyAll

serviceQueue(t) ==
    Loop(t) \/ Resume(t) \/ Return(t) \/ Repeat(t) \/ SpuriousWake(t)

Next == Client \/ Tick \/ \E t \in Threads : serviceQueue(t)

Spec == Init /\ [][Next]_vars

\* Time passes, notifications that were begun are sent, a thread that can lock
\* newTaskMutex does, and a task returns.  Nothing makes a client call.
Fairness ==
    /\ WF_vars(Tick) /\ WF_vars(NotifyOne) /\ WF_vars(NotifyAll)
    /\ \A t \in Threads : WF_vars(Loop(t)) /\ WF_vars(Resume(t))
    /\ \A t \in Threads : WF_vars(Return(t)) /\ WF_vars(Repeat(t))

FairSpec == Spec /\ Fairness

-----------------------------------------------------------------------------
(* Properties                                                              *)

TypeOK ==
    /\ taskQueue \in Seq([f : Tasks, left : Delays])
    /\ inQueue = Cardinality({t \in Threads : pc[t] \notin {"start", "done"}})
    /\ pc \in [Threads -> PCs]
    /\ waitsFor \in [Threads -> Delays \cup {Forever}]
    /\ \A t \in Threads : fun[t] \subseteq Tasks /\ Cardinality(fun[t]) =< 1
    /\ early \in [Threads -> Delays]
    /\ notifyOne \in Nat /\ notifyAll \in BOOLEAN
    /\ calls \subseteq Tasks /\ ran \subseteq Tasks

\* A task that was scheduled is in the queue or being run, in exactly one
\* place, until it has run; a task that runs once never comes back.
Copies(f) == Cardinality({i \in DOMAIN taskQueue : taskQueue[i].f = f})
             + Cardinality({t \in Threads : f \in fun[t]})

ExactlyOnce ==
    /\ \A f \in Once : Copies(f) = IF f \in calls \cup ran THEN 0 ELSE 1
    /\ \A f \in Every : Copies(f) = IF f \in calls THEN 0 ELSE 1

\* scheduler.h: "Call func at/after time t".
NeverEarly == \A t \in Threads : pc[t] = "run" => early[t] = 0

\* While a thread serves the queue, somebody watches over its first task: a
\* thread that waits no longer than that task's time, one about to look at the
\* queue, or a notification on its way.
FirstTaskWatched ==
    /\ taskQueue # <<>> /\ ~stopRequested
    /\ \E t \in Threads : pc[t] # "done"
    => \/ notifyOne > 0 \/ notifyAll
       \/ \E t \in Threads : pc[t] \in {"start", "woken", "run", "repeated", "ran"}
       \/ \E t \in Waiting : waitsFor[t] \in 0 .. Head(taskQueue).left

\* stop(true) ends the threads "when there is no work left to be done": what
\* was scheduled before it has run when the last thread is done.
DrainRunsAll ==
    (stopWhenEmpty /\ \A t \in Threads : pc[t] = "done") => accepted \subseteq ran

\* A task in the queue is run, unless the scheduler is told to stop; Repeat()
\* puts a periodic task back, so it runs again and again.
TasksRun ==
    \A f \in Tasks :
        (\E i \in DOMAIN taskQueue : taskQueue[i].f = f) ~>
            ((\E t \in Threads : f \in fun[t]) \/ stopRequested \/ stopWhenEmpty)

\* StopAndJoinThreads joins the thread after stop(): all service threads end.
\* After stop(true) they do if no task keeps scheduling itself.
StopEndsThreads ==
    (stopRequested \/ (stopWhenEmpty /\ Every = {})) ~>
        (\A t \in Threads : pc[t] = "done")
=============================================================================
