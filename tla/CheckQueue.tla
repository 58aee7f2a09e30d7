----------------------------- MODULE CheckQueue -----------------------------
(***************************************************************************)
(* The queue that spreads the script checks of a block over threads        *)
(* (checkqueue.h).  A master adds batches of checks and then joins the     *)
(* workers until all of them are done; the conjunction of their results is *)
(* what Wait() returns and what ConnectBlock relies on.                    *)
(*                                                                         *)
(* Loop() runs under CCheckQueue::mutex except while it waits on its       *)
(* condition variable and while it runs a batch, so one critical section   *)
(* is cut only where another thread can get in: Quit() takes no mutex and  *)
(* may fall between the test of fQuit and the wait, hence the step Sleep.  *)
(* A check is a model value, Bad holds the ones whose operator() returns   *)
(* false.  "As the order of booleans doesn't matter", the stack of checks  *)
(* is a set.                                                               *)
(***************************************************************************)
EXTENDS Integers, FiniteSets

CONSTANTS Workers,    \* threads that run ThreadScriptCheck
          Masters,    \* threads that may construct a CCheckQueueControl
          Checks,     \* the checks that masters add
          Bad,        \* the checks that evaluate to false
          nBatchSize, \* most checks taken at once
          None        \* no thread

Threads == Workers \cup Masters

ASSUME ThreadsAssumption ==
    /\ Workers \cap Masters = {}
    /\ None \notin Threads
    /\ IsFiniteSet(Threads)

ASSUME ChecksAssumption == IsFiniteSet(Checks) /\ Bad \subseteq Checks

ASSUME BatchSizeAssumption == nBatchSize \in Nat \ {0}

VARIABLES mutex,        \* the thread that holds CCheckQueue::mutex
          control,      \* the master that holds ControlMutex
          pc,           \* where each thread is
          queue,        \* checks not yet taken
          nTodo,        \* checks not yet accounted for
          nWorkers, nIdleWorkers,
          fAllOk, fQuit,
          vChecks,      \* the batch of a thread, until it is accounted for
          fOk,          \* the result of that batch
          ret,          \* what Wait() returned to a master
          added,        \* history: the checks added since control was taken
          quit          \* progress of the thread that calls Quit()

vars == <<mutex, control, pc, queue, nTodo, nWorkers, nIdleWorkers, fAllOk,
          fQuit, vChecks, fOk, ret, added, quit>>

\* Where a thread is: outside of Loop ("idle", "adding", "returned", and a
\* worker that has ended), before it locks mutex ("enter", "woken"), inside
\* the critical section ("test", "sleep"), blocked on its condition variable
\* ("waiting") or running its batch ("run").
PCs == {"idle", "adding", "enter", "test", "sleep", "waiting", "woken", "run",
        "returned"}

Asleep(p) == pc[p] = "waiting"

\* A thread that nWorkers counts, and one that nIdleWorkers counts.
Counted(p) == \/ pc[p] \in {"test", "sleep", "waiting", "woken", "run"}
              \/ pc[p] = "enter" /\ vChecks[p] # {}
Idle(p) == pc[p] \in {"sleep", "waiting", "woken"}
CountedThreads == {p \in Threads : Counted(p)}
IdleThreads == {p \in Threads : Idle(p)}

Init ==
    /\ mutex = None /\ control = None
    /\ pc = [p \in Threads |-> IF p \in Workers THEN "enter" ELSE "idle"]
    /\ queue = {} /\ nTodo = 0 /\ nWorkers = 0 /\ nIdleWorkers = 0
    /\ fAllOk = TRUE /\ fQuit = FALSE
    /\ vChecks = [p \in Threads |-> {}]
    /\ fOk = [p \in Threads |-> TRUE]
    /\ ret = [m \in Masters |-> TRUE]
    /\ added = {} /\ quit = "none"

-----------------------------------------------------------------------------
(* The master: CCheckQueueControl and Add                                  *)

\* The constructor enters ControlMutex.
Construct(m) ==
    /\ pc[m] = "idle" /\ control = None
    /\ control' = m
    /\ pc' = [pc EXCEPT ![m] = "adding"]
    /\ added' = {}
    /\ UNCHANGED <<mutex, queue, nTodo, nWorkers, nIdleWorkers, fAllOk, fQuit,
                   vChecks, fOk, ret, quit>>

\* The program counters after condWorker is notified: of one thread if k is 1,
\* of all of them if k is larger.
NotifyWorkers(k) ==
    LET asleep == {w \in Workers : Asleep(w)}
        Woken(S) == [p \in Threads |-> IF p \in S THEN "woken" ELSE pc[p]]
    IN  IF k > 1 \/ asleep = {} THEN {Woken(asleep)}
        ELSE {Woken({w}) : w \in asleep}

\* Add(vChecks), one critical section; the master adds a check only once.
Add(m) ==
    /\ pc[m] = "adding" /\ mutex = None
    /\ \E batch \in SUBSET (Checks \ added) :
          /\ batch # {}
          /\ queue' = queue \cup batch
          /\ added' = added \cup batch
          /\ nTodo' = nTodo + Cardinality(batch)
          /\ pc' \in NotifyWorkers(Cardinality(batch))
    /\ UNCHANGED <<mutex, control, nWorkers, nIdleWorkers, fAllOk, fQuit,
                   vChecks, fOk, ret, quit>>

\* Wait(), called by ConnectBlock or, when it leaves early, by the destructor.
CallWait(m) ==
    /\ pc[m] = "adding"
    /\ pc' = [pc EXCEPT ![m] = "enter"]
    /\ UNCHANGED <<mutex, control, queue, nTodo, nWorkers, nIdleWorkers,
                   fAllOk, fQuit, vChecks, fOk, ret, added, quit>>

\* The destructor leaves ControlMutex.
Destruct(m) ==
    /\ pc[m] = "returned" /\ m \in Masters
    /\ control' = None
    /\ pc' = [pc EXCEPT ![m] = "idle"]
    /\ UNCHANGED <<mutex, queue, nTodo, nWorkers, nIdleWorkers, fAllOk, fQuit,
                   vChecks, fOk, ret, added, quit>>

-----------------------------------------------------------------------------
(* Loop(fMaster)                                                           *)

\* nTodo once the batch of p is accounted for.
TodoKept(p) == nTodo
TodoAfter(p) == nTodo - Cardinality(vChecks[p])

\* Does p have to wake the master when todo checks are left?
NeverInforms(p, todo) == FALSE
InformsMaster(p, todo) == todo = 0 /\ p \in Workers

\* Lock mutex and account for the previous batch, or be counted as a worker;
\* the worker that accounts for the last check wakes the master.
Enter(p) ==
    /\ pc[p] = "enter" /\ mutex = None
    /\ mutex' = p
    /\ IF vChecks[p] # {}
       THEN /\ fAllOk' = (fAllOk /\ fOk[p])
            /\ nTodo' = TodoAfter(p)
            /\ pc' = [q \in Threads |->
                        IF q = p THEN "test"
                        ELSE IF /\ InformsMaster(p, TodoAfter(p))
                                /\ q \in Masters /\ Asleep(q)
                             THEN "woken" ELSE pc[q]]
            /\ nWorkers' = nWorkers
       ELSE /\ nWorkers' = nWorkers + 1
            /\ pc' = [pc EXCEPT ![p] = "test"]
            /\ UNCHANGED <<fAllOk, nTodo>>
    /\ vChecks' = [vChecks EXCEPT ![p] = {}]
    /\ UNCHANGED <<control, queue, nIdleWorkers, fQuit, fOk, ret, added, quit>>

\* The verdict that p leaves behind when it returns.
VerdictKept(p) == fAllOk
VerdictAfterReturn(p) == IF p \in Masters THEN TRUE ELSE fAllOk

\* queue.empty(), and all checks are done: the master returns and resets
\* fAllOk; a worker returns if fQuit.
Return(p) ==
    /\ pc[p] = "test" /\ queue = {}
    /\ (p \in Masters \/ fQuit) /\ nTodo = 0
    /\ nWorkers' = nWorkers - 1
    /\ ret' = IF p \in Masters THEN [ret EXCEPT ![p] = fAllOk] ELSE ret
    /\ fAllOk' = VerdictAfterReturn(p)
    /\ pc' = [pc EXCEPT ![p] = "returned"]
    /\ mutex' = None
    /\ UNCHANGED <<control, queue, nTodo, nIdleWorkers, fQuit, vChecks, fOk,
                   added, quit>>

OneMoreIdle == nIdleWorkers + 1

\* queue.empty(), but this thread has to stay: it has read fQuit and is about
\* to wait, still holding mutex.
Stay(p) ==
    /\ pc[p] = "test" /\ queue = {}
    /\ ~((p \in Masters \/ fQuit) /\ nTodo = 0)
    /\ nIdleWorkers' = OneMoreIdle
    /\ pc' = [pc EXCEPT ![p] = "sleep"]
    /\ UNCHANGED <<mutex, control, queue, nTodo, nWorkers, fAllOk, fQuit,
                   vChecks, fOk, ret, added, quit>>

\* cond.wait(lock) releases mutex and blocks in one step.
Sleep(p) ==
    /\ pc[p] = "sleep"
    /\ mutex' = None
    /\ pc' = [pc EXCEPT ![p] = "waiting"]
    /\ UNCHANGED <<control, queue, nTodo, nWorkers, nIdleWorkers, fAllOk,
                   fQuit, vChecks, fOk, ret, added, quit>>

\* A condition variable may wake a thread that nobody notified.
SpuriousWake(p) ==
    /\ Asleep(p)
    /\ pc' = [pc EXCEPT ![p] = "woken"]
    /\ UNCHANGED <<mutex, control, queue, nTodo, nWorkers, nIdleWorkers,
                   fAllOk, fQuit, vChecks, fOk, ret, added, quit>>

\* cond.wait returns with mutex locked again.
Resume(p) ==
    /\ pc[p] = "woken" /\ mutex = None
    /\ mutex' = p
    /\ nIdleWorkers' = nIdleWorkers - 1
    /\ pc' = [pc EXCEPT ![p] = "test"]
    /\ UNCHANGED <<control, queue, nTodo, nWorkers, fAllOk, fQuit, vChecks,
                   fOk, ret, added, quit>>

\* How many checks to take: smaller batches as the queue runs out, at least
\* one, at most nBatchSize.
nNow ==
    LET share == Cardinality(queue) \div (nWorkers + nIdleWorkers + 1)
        most == IF share < nBatchSize THEN share ELSE nBatchSize
    IN  IF most < 1 THEN 1 ELSE most

\* The verdict with which p starts its batch.
VerdictOfLastBatch(p) == fOk[p]
StartVerdict(p) == fAllOk

\* Take a batch and release mutex.
Take(p) ==
    /\ pc[p] = "test" /\ queue # {}
    /\ \E batch \in SUBSET queue :
          /\ Cardinality(batch) = nNow
          /\ vChecks' = [vChecks EXCEPT ![p] = batch]
          /\ queue' = queue \ batch
    /\ fOk' = [fOk EXCEPT ![p] = StartVerdict(p)]
    /\ mutex' = None
    /\ pc' = [pc EXCEPT ![p] = "run"]
    /\ UNCHANGED <<control, nTodo, nWorkers, nIdleWorkers, fAllOk, fQuit, ret,
                   added, quit>>

\* Run the batch, without mutex; no check is run after one has failed.
Run(p) ==
    /\ pc[p] = "run"
    /\ fOk' = [fOk EXCEPT ![p] = fOk[p] /\ vChecks[p] \cap Bad = {}]
    /\ pc' = [pc EXCEPT ![p] = "enter"]
    /\ UNCHANGED <<mutex, control, queue, nTodo, nWorkers, nIdleWorkers,
                   fAllOk, fQuit, vChecks, ret, added, quit>>

-----------------------------------------------------------------------------
(* Quit(): three steps, none of them under mutex                           *)

SetQuit ==
    /\ quit = "none"
    /\ fQuit' = TRUE /\ quit' = "set"
    /\ UNCHANGED <<mutex, control, pc, queue, nTodo, nWorkers, nIdleWorkers,
                   fAllOk, vChecks, fOk, ret, added>>

QuitNotifyWorkers ==
    /\ quit = "set"
    /\ pc' = [p \in Threads |-> IF p \in Workers /\ Asleep(p) THEN "woken"
                                ELSE pc[p]]
    /\ quit' = "notified"
    /\ UNCHANGED <<mutex, control, queue, nTodo, nWorkers, nIdleWorkers,
                   fAllOk, fQuit, vChecks, fOk, ret, added>>

QuitNotifyMaster ==
    /\ quit = "notified"
    /\ pc' = [p \in Threads |-> IF p \in Masters /\ Asleep(p) THEN "woken"
                                ELSE pc[p]]
    /\ quit' = "done"
    /\ UNCHANGED <<mutex, control, queue, nTodo, nWorkers, nIdleWorkers,
                   fAllOk, fQuit, vChecks, fOk, ret, added>>

-----------------------------------------------------------------------------
Master(m) == Construct(m) \/ Add(m) \/ CallWait(m) \/ Destruct(m)

Loop(p) == \/ Enter(p) \/ Return(p) \/ Stay(p) \/ Sleep(p) \/ SpuriousWake(p)
           \/ Resume(p) \/ Take(p) \/ Run(p)

Quit == SetQuit \/ QuitNotifyWorkers \/ QuitNotifyMaster

Next == (\E m \in Masters : Master(m)) \/ (\E p \in Threads : Loop(p)) \/ Quit

Spec == Init /\ [][Next]_vars

\* Every thread keeps running, and a mutex that is released again and again
\* is in the end granted to each thread that waits for it.  No fairness makes
\* a master start, a check be added, or a thread wake without notification.
Fairness ==
    /\ \A p \in Threads :
          /\ SF_vars(Enter(p)) /\ SF_vars(Resume(p))
          /\ WF_vars(Return(p)) /\ WF_vars(Stay(p)) /\ WF_vars(Sleep(p))
          /\ WF_vars(Take(p)) /\ WF_vars(Run(p))
    /\ \A m \in Masters : WF_vars(CallWait(m)) /\ WF_vars(Destruct(m))
    /\ WF_vars(QuitNotifyWorkers) /\ WF_vars(QuitNotifyMaster)

FairSpec == Spec /\ Fairness

-----------------------------------------------------------------------------
(* Properties                                                              *)

TypeOK ==
    /\ mutex \in Threads \cup {None} /\ control \in Masters \cup {None}
    /\ pc \in [Threads -> PCs]
    /\ queue \in SUBSET Checks /\ added \in SUBSET Checks
    /\ nTodo \in Nat /\ nWorkers \in Nat /\ nIdleWorkers \in Nat
    /\ fAllOk \in BOOLEAN /\ fQuit \in BOOLEAN
    /\ vChecks \in [Threads -> SUBSET Checks]
    /\ fOk \in [Threads -> BOOLEAN] /\ ret \in [Masters -> BOOLEAN]
    /\ quit \in {"none", "set", "notified", "done"}

\* Checks added and not accounted for.
Outstanding == queue \cup UNION {vChecks[p] : p \in Threads}

\* nTodo counts the verifications that have not completed, "elements that are
\* no longer queued, but still in worker's own batches" included, and the
\* counters of workers count the threads inside of Loop.
Accounting ==
    /\ nTodo = Cardinality(Outstanding)
    /\ nWorkers = Cardinality(CountedThreads)
    /\ nIdleWorkers = Cardinality(IdleThreads)

\* What Wait() promises ConnectBlock: when it returns, every check that was
\* added has been accounted for, no thread still holds one (they refer to the
\* block being connected), and the result is true iff none of them is bad.
WaitIsExact ==
    \A m \in Masters : pc[m] = "returned" =>
        /\ Outstanding = {}
        /\ (ret[m] = TRUE) <=> (added \cap Bad = {})

\* A round starts from a clean queue: nothing of an earlier round, not even
\* its verdict, leaks into the next one.
CleanStart ==
    (control = None \/ (pc[control] = "adding" /\ added = {})) =>
        /\ Outstanding = {} /\ nTodo = 0 /\ fAllOk

\* A master that calls Wait() gets its result, whatever Quit() does meanwhile.
WaitReturns ==
    \A m \in Masters : (pc[m] = "enter") ~> (pc[m] = "returned")

\* StopAndJoinThreads joins the workers right after Quit(): they have to end.
QuitEndsWorkers ==
    (quit = "done") ~> (\A w \in Workers : pc[w] = "returned")
=============================================================================
