------------------------ MODULE HTTPWorkQueueProofs ------------------------
(***************************************************************************)
(* Proof that the shutdown of the HTTP server waits for the workers that   *)
(* it knows of and leaves no request behind, for any number of workers and *)
(* requests and any depth of the queue.                                    *)
(*                                                                         *)
(* WaitExit() looks at numThreads only, so the invariant has to say whom   *)
(* numThreads counts, and that those who enter before WaitExit() returns   *)
(* are the ones on time.  A request that somebody holds is traced to who   *)
(* holds it: the callback, the queue or a running worker.                  *)
(***************************************************************************)
EXTENDS HTTPWorkQueue, FiniteSetTheorems, TLAPS

\* The provers may take a minute; Zenon is the one to try where a leaf names none.
USE ZenonT(60)

\* Where a worker is between the constructor and the destructor of its
\* ThreadCounter.
InRun == {"loop", "waiting", "run", "leaving"}
Inside == {w \in Workers : worker[w] \in InRun}

\* Where the main thread is once WaitExit() has returned.
Exited == {"exited", "deleted", "joining", "stopped"}

\* numThreads counts the workers inside Run() while the queue exists.
Counted == ~deleted => numThreads = Cardinality(Inside)

\* What the place of the main thread says of the others' state.
Phases ==
    /\ running <=> main \in {"serving", "rejecting"}
    /\ deleted <=> main \in Exited \ {"exited"}
    /\ deleted => queue = << >>
    /\ main = "stopped" => event = "ended"

\* A worker that is on time stays inside Run() until it has ended, which it has
\* when WaitExit() returns.  Until then everybody inside is on time, and whoever
\* comes later finds running false and never takes a request.
OnTime ==
    /\ \A w \in onTime : worker[w] \in InRun \cup {"ended"}
    /\ main \in Exited => \A w \in onTime : worker[w] = "ended"
    /\ main \notin Exited => Inside \subseteq onTime
    /\ \A w \in Workers : worker[w] = "run" => w \in onTime

\* Who holds a request that was received and not answered.
Holders ==
    /\ event = "callback" => current \in Requests
    /\ \A w \in Workers : worker[w] = "run" => item[w] \in Requests
    /\ \A r \in Requests : status[r] \in {"received", "found"} =>
          event = "undefined" \/ (event = "callback" /\ current = r)
    /\ \A r \in Requests : status[r] = "queued" => r \in Range(queue)
    /\ \A r \in Requests : status[r] = "running" =>
          \E w \in Workers : worker[w] = "run" /\ item[w] = r

IInv == TypeOK /\ Counted /\ Phases /\ OnTime /\ Holders
-----------------------------------------------------------------------------
\* The first state.
LEMMA InitIInv == Init => IInv
<1> SUFFICES ASSUME Init PROVE IInv
  OBVIOUS
<1>0. Cardinality(Workers) \in Nat
  BY WorkersAssumption, FS_CardinalityType
<1>1. TypeOK
  <2>1. queue \in Seq(Requests) /\ Len(queue) <= maxDepth /\ numThreads \in 0 .. Cardinality(Workers)
    BY SMTT(60), <1>0, DepthAssumption DEF Init
  <2>2. running \in BOOLEAN /\ deleted \in BOOLEAN /\ rejecting \in BOOLEAN
        /\ handlers \in BOOLEAN /\ loopbreak \in BOOLEAN
    BY DEF Init
  <2>3. worker \in [Workers -> {"starting", "loop", "waiting", "run", "leaving", "ended", "undefined"}]
        /\ item \in [Workers -> Requests \cup {None}]
    BY DEF Init
  <2>4. status \in [Requests -> Held \cup {"new", "replied", "sent", "refused"}]
        /\ current \in Requests \cup {None} /\ onTime \subseteq Workers
    BY DEF Init
  <2> QED
    BY <2>1, <2>2, <2>3, <2>4 DEF TypeOK, Init
<1>2. Inside = {}
  BY DEF Init, Inside, InRun
<1>3. Counted
  BY <1>2, FS_EmptySet DEF Init, Counted
<1>4. Phases /\ OnTime /\ Holders
  BY <1>2 DEF Init, Phases, OnTime, Holders, Exited, InRun
<1> QED
  BY <1>1, <1>3, <1>4 DEF IInv

\* Waiting workers are woken, and nothing else happens to workers.
OnlyWakes ==
    /\ worker' \in [Workers -> InRun \cup {"starting", "ended", "undefined"}]
    /\ \A w \in Workers : \/ worker'[w] = worker[w]
                          \/ worker[w] = "waiting" /\ worker'[w] = "loop"

LEMMA Notified ==
    ASSUME TypeOK
    PROVE  /\ NotifyOne => OnlyWakes /\ (main' = main \/ (main = "sleeping" /\ main' = "unregistered"))
           /\ worker' = WakesAll(worker) => OnlyWakes
           /\ \A w \in Workers : worker[w] = "waiting" /\ worker' = [worker EXCEPT ![w] = "loop"] => OnlyWakes
           /\ UNCHANGED worker => OnlyWakes
<1>1. NotifyOne => OnlyWakes /\ (main' = main \/ (main = "sleeping" /\ main' = "unregistered"))
  BY SMTT(60) DEF NotifyOne, OnlyWakes, TypeOK, InRun, Waiting
<1>2. worker' = WakesAll(worker) => OnlyWakes
  BY SMTT(60) DEF WakesAll, OnlyWakes, TypeOK, InRun
<1>3. ASSUME NEW w \in Workers, worker[w] = "waiting", worker' = [worker EXCEPT ![w] = "loop"]
      PROVE  OnlyWakes
  BY <1>3 DEF OnlyWakes, TypeOK, InRun
<1>4. UNCHANGED worker => OnlyWakes
  BY DEF OnlyWakes, TypeOK, InRun
<1> QED
  BY <1>1, <1>2, <1>3, <1>4

\* Waking does not change who is inside, nor who runs.
LEMMA StillInside ==
    ASSUME TypeOK, OnlyWakes
    PROVE  /\ Inside' = Inside
           /\ \A w \in Workers : (worker'[w] = "run") <=> (worker[w] = "run")
           /\ \A w \in Workers : (worker'[w] = "ended") <=> (worker[w] = "ended")
           /\ \A w \in Workers : (worker'[w] \in InRun) <=> (worker[w] \in InRun)
BY DEF OnlyWakes, Inside, InRun, TypeOK

-----------------------------------------------------------------------------
(* Steps of libevent's thread *)

\* Steps that only move requests, in libevent's thread.
LEMMA ArriveIInv ==
    ASSUME IInv, NEW r \in Requests, Arrive(r)
    PROVE  IInv'
<1> USE DEF IInv
<1>1. UNCHANGED <<queue, running, numThreads, deleted, worker, item, main, rejecting, handlers, loopbreak, onTime>>
  BY DEF Arrive, queueVars
<1>2. TypeOK'
  BY SMTT(60), <1>1 DEF Arrive, TypeOK, Held
<1>3. Counted' /\ Phases' /\ OnTime'
  BY <1>1 DEF Arrive, Counted, Phases, OnTime, Inside, TypeOK, Exited
<1>4. Holders'
  BY SMTT(60), <1>1 DEF Arrive, Holders, TypeOK, Range
<1> QED
  BY <1>2, <1>3, <1>4

LEMMA CallbackRefusesIInv == ASSUME IInv, CallbackRefuses PROVE IInv'
<1> USE DEF IInv
<1>1. UNCHANGED <<queue, running, numThreads, deleted, worker, item, main, rejecting, handlers, loopbreak, onTime>>
  BY DEF CallbackRefuses, queueVars
<1>2. TypeOK'
  BY SMTT(60), <1>1 DEF CallbackRefuses, TypeOK, Held, Holders
<1>3. Counted' /\ Phases' /\ OnTime'
  BY <1>1 DEF CallbackRefuses, Counted, Phases, OnTime, Inside, TypeOK, Exited
<1>4. Holders'
  BY SMTT(60), <1>1 DEF CallbackRefuses, Holders, TypeOK, Range
<1> QED
  BY <1>2, <1>3, <1>4

LEMMA FindHandlerIInv == ASSUME IInv, FindHandler PROVE IInv'
<1> USE DEF IInv
<1>1. UNCHANGED <<queue, running, numThreads, deleted, worker, item, main, rejecting, handlers, loopbreak, onTime,
                  event, current>>
  BY DEF FindHandler, queueVars, eventVars
<1>2. TypeOK'
  BY SMTT(60), <1>1 DEF FindHandler, TypeOK, Held, Holders
<1>3. Counted' /\ Phases' /\ OnTime'
  BY <1>1 DEF FindHandler, Counted, Phases, OnTime, Inside, TypeOK, Exited
<1>4. Holders'
  BY SMTT(60), <1>1 DEF FindHandler, Holders, TypeOK, Range
<1> QED
  BY <1>2, <1>3, <1>4

LEMMA SendReplyIInv == ASSUME IInv, NEW r \in Requests, SendReply(r) PROVE IInv'
<1> USE DEF IInv
<1>1. UNCHANGED <<queue, running, numThreads, deleted, worker, item, main, rejecting, handlers, loopbreak, onTime,
                  event, current>>
  BY DEF SendReply, queueVars, eventVars
<1>2. TypeOK'
  BY SMTT(60), <1>1 DEF SendReply, TypeOK, Held
<1>3. Counted' /\ Phases' /\ OnTime'
  BY <1>1 DEF SendReply, Counted, Phases, OnTime, Inside, TypeOK, Exited
<1>4. Holders'
  BY SMTT(60), <1>1 DEF SendReply, Holders, TypeOK, Range
<1> QED
  BY <1>2, <1>3, <1>4

LEMMA LoopEndsIInv == ASSUME IInv, LoopEnds PROVE IInv'
<1> USE DEF IInv
<1>1. UNCHANGED <<queue, running, numThreads, deleted, worker, item, main, rejecting, handlers, loopbreak, onTime,
                  status, current>> /\ event = "dispatch" /\ event' = "ended"
  BY DEF LoopEnds, queueVars
<1>2. TypeOK'
  BY SMTT(60), <1>1 DEF TypeOK
<1>3. Counted' /\ Phases' /\ OnTime'
  BY <1>1 DEF Counted, Phases, OnTime, Inside, TypeOK, Exited
<1>4. Holders'
  BY SMTT(60), <1>1 DEF Holders, TypeOK, Range
<1> QED
  BY <1>2, <1>3, <1>4

\* Enqueue in its three cases: the queue is gone, full, or gets the request.
LEMMA EnqueueIInv == ASSUME IInv, Enqueue PROVE IInv'
<1> USE DEF IInv
<1>1. UNCHANGED <<running, numThreads, deleted, item, rejecting, handlers, loopbreak, onTime>>
      /\ event = "callback" /\ current \in Requests /\ status[current] = "found"
  BY DEF Enqueue, Holders
<1>2. CASE deleted
  <2>1. UNCHANGED <<queue, status, current, worker, main>> /\ event' = "undefined"
    BY <1>2 DEF Enqueue
  <2>2. TypeOK'
    BY <1>1, <2>1 DEF TypeOK
  <2>3. Counted' /\ Phases' /\ OnTime'
    BY <1>1, <2>1 DEF Counted, Phases, OnTime, Inside, TypeOK, Exited
  <2>4. Holders'
    BY SMTT(60), <1>1, <2>1 DEF Holders, TypeOK, Range
  <2> QED
    BY <2>2, <2>3, <2>4
<1>3. CASE ~deleted /\ QueueFull
  <2>1. UNCHANGED <<queue, worker, main>> /\ event' = "dispatch" /\ current' = None
        /\ status' = [status EXCEPT ![current] = "replied"]
    BY <1>3 DEF Enqueue
  <2>2. TypeOK'
    BY SMTT(60), <1>1, <2>1 DEF TypeOK, Held
  <2>3. Counted' /\ Phases' /\ OnTime'
    BY <1>1, <2>1 DEF Counted, Phases, OnTime, Inside, TypeOK, Exited
  <2>4. Holders'
    BY SMTT(60), <1>1, <2>1 DEF Holders, TypeOK, Range
  <2> QED
    BY <2>2, <2>3, <2>4
<1>4. CASE ~deleted /\ ~QueueFull
  <2>1. /\ NotifyOne /\ event' = "dispatch" /\ current' = None
        /\ queue' = Append(queue, current)
        /\ status' = [status EXCEPT ![current] = "queued"]
    BY <1>4 DEF Enqueue
  <2>2. OnlyWakes /\ (main' = main \/ (main = "sleeping" /\ main' = "unregistered"))
    BY <2>1, Notified
  <2>3. queue' \in Seq(Requests) /\ Len(queue') <= maxDepth
    BY SMTT(60), <1>1, <1>4, <2>1, DepthAssumption DEF TypeOK, QueueFull
  <2>4. TypeOK'
    BY SMTT(60), <1>1, <2>1, <2>2, <2>3 DEF TypeOK, Held, OnlyWakes, InRun
  <2>5. Counted'
    BY <1>1, <2>2, StillInside DEF Counted
  <2>6. Phases' /\ OnTime'
    BY <1>1, <1>4, <2>1, <2>2, StillInside DEF Phases, OnTime, TypeOK, Exited, InRun
  <2>7. \A r \in Requests : r \in Range(queue) \/ r = current => r \in Range(queue')
    <3> SUFFICES ASSUME NEW r \in Requests, r \in Range(queue) \/ r = current
                 PROVE  \E i \in DOMAIN queue' : queue'[i] = r
      BY DEF Range
    <3>1. queue \in Seq(Requests) /\ Len(queue) \in Nat
      BY SMTT(60) DEF TypeOK
    <3>2. CASE r = current
      BY SMTT(60), <1>1, <2>1, <3>1, <3>2
    <3>3. CASE r \in Range(queue)
      <4> PICK i \in 1 .. Len(queue) : queue[i] = r
        BY SMTT(60), <3>1, <3>3 DEF Range
      <4> QED
        BY SMTT(60), <1>1, <2>1, <3>1
    <3> QED
      BY <3>2, <3>3
  <2>8. Holders'
    BY SMTT(60), <1>1, <2>1, <2>2, <2>7, StillInside DEF Holders, TypeOK
  <2> QED
    BY <2>4, <2>5, <2>6, <2>8
<1> QED
  BY <1>2, <1>3, <1>4

-----------------------------------------------------------------------------
(* Steps of a worker *)

LEMMA EnterRunIInv == ASSUME IInv, NEW w \in Workers, EnterRun(w) PROVE IInv'
<1> USE DEF IInv
<1>1. UNCHANGED <<queue, running, deleted, item, main, rejecting, handlers, event, current, loopbreak, status>>
      /\ worker[w] = "starting" /\ w \notin onTime /\ w \notin Inside
  BY DEF EnterRun, eventVars, OnTime, Inside, InRun
<1>2. Holders'
  BY SMTT(60), <1>1 DEF EnterRun, Holders, TypeOK, Range
<1>3. CASE deleted
  <2>1. worker' = [worker EXCEPT ![w] = "undefined"] /\ UNCHANGED <<numThreads, onTime>>
    BY <1>3 DEF EnterRun
  <2>2. TypeOK'
    BY SMTT(60), <1>1, <2>1 DEF TypeOK
  <2>3. Counted' /\ Phases'
    BY <1>1, <1>3, <2>1 DEF Counted, Phases
  <2>4. OnTime'
    BY <1>1, <1>3, <2>1 DEF OnTime, Phases, TypeOK, Exited, Inside, InRun
  <2> QED
    BY <1>2, <2>2, <2>3, <2>4
<1>4. CASE ~deleted
  <2>1. worker' = [worker EXCEPT ![w] = "loop"] /\ numThreads' = numThreads + 1
        /\ onTime' = IF main = "exited" THEN onTime ELSE onTime \cup {w}
    BY <1>4 DEF EnterRun
  <2>2. Inside' = Inside \cup {w}
    BY <2>1 DEF Inside, InRun, TypeOK
  <2>3. IsFiniteSet(Inside) /\ IsFiniteSet(Inside') /\ Cardinality(Inside') <= Cardinality(Workers)
    BY WorkersAssumption, FS_Subset DEF Inside
  <2>4. Counted' /\ numThreads' \in 0 .. Cardinality(Workers)
    BY SMTT(60), <1>1, <1>4, <2>1, <2>2, <2>3, FS_AddElement, FS_CardinalityType, WorkersAssumption DEF Counted
  <2>5. TypeOK'
    BY SMTT(60), <1>1, <2>1, <2>4 DEF TypeOK
  <2>6. Phases'
    BY <1>1 DEF Phases
  <2>7. OnTime'
    BY SMTT(60), <1>1, <1>4, <2>1, <2>2 DEF OnTime, Phases, TypeOK, Exited, InRun
  <2> QED
    BY <1>2, <2>4, <2>5, <2>6, <2>7
<1> QED
  BY <1>3, <1>4

\* The loop of Run(): use after delete, take a request, or leave or wait.
LEMMA LoopIInv == ASSUME IInv, NEW w \in Workers, Loop(w) PROVE IInv'
<1> USE DEF IInv
<1>1. UNCHANGED <<running, numThreads, deleted, main, rejecting, handlers, event, current, loopbreak, onTime>>
      /\ worker[w] = "loop"
  BY DEF Loop, eventVars
<1>2. CASE deleted
  <2>1. worker' = [worker EXCEPT ![w] = "undefined"] /\ UNCHANGED <<queue, item, status>>
    BY <1>2 DEF Loop
  <2>2. TypeOK'
    BY SMTT(60), <1>1, <2>1 DEF TypeOK
  <2>3. Counted' /\ Phases'
    BY <1>1, <1>2, <2>1 DEF Counted, Phases
  <2>4. OnTime'
    BY <1>1, <1>2, <2>1 DEF OnTime, Phases, TypeOK, Exited, Inside, InRun
  <2>5. Holders'
    BY SMTT(60), <1>1, <2>1 DEF Holders, TypeOK, Range
  <2> QED
    BY <2>2, <2>3, <2>4, <2>5
<1>3. CASE ~deleted
  <2>1. worker' = [worker EXCEPT ![w] = NextOfLoop] /\ NextOfLoop \in {"leaving", "waiting", "run"}
        /\ (NextOfLoop = "run" => running /\ queue # << >>)
    BY <1>3 DEF Loop, NextOfLoop
  <2>2. Inside' = Inside
    BY <1>1, <2>1 DEF Inside, InRun, TypeOK
  <2>3. Counted'
    BY <1>1, <2>2 DEF Counted
  <2>4. w \in Inside
    BY <1>1 DEF Inside, InRun
  <2>5. OnTime'
    BY <1>1, <2>1, <2>2, <2>4 DEF OnTime, Phases, TypeOK, Exited, InRun
  <2>6. CASE NextOfLoop = "run"
    <3>1. /\ item' = [item EXCEPT ![w] = Head(queue)] /\ queue' = Tail(queue)
          /\ status' = [status EXCEPT ![Head(queue)] = "running"]
      BY <1>3, <2>6 DEF Loop
    <3>2. queue \in Seq(Requests) /\ Len(queue) \in Nat \ {0} /\ Head(queue) \in Requests
      BY SMTT(60), <2>1, <2>6 DEF TypeOK
    <3>3. queue' \in Seq(Requests) /\ Len(queue') = Len(queue) - 1
      BY SMTT(60), <3>1, <3>2
    <3>4. TypeOK'
      BY SMTT(60), <1>1, <2>1, <3>1, <3>2, <3>3, DepthAssumption DEF TypeOK, Held
    <3>5. Phases'
      BY <1>1, <1>3 DEF Phases
    <3>6. \A r \in Requests : r \in Range(queue) /\ r # Head(queue) => r \in Range(queue')
      <4> SUFFICES ASSUME NEW r \in Requests, r \in Range(queue), r # Head(queue)
                   PROVE  \E i \in DOMAIN queue' : queue'[i] = r
        BY DEF Range
      <4> PICK i \in 1 .. Len(queue) : queue[i] = r
        BY SMTT(60), <3>2 DEF Range
      <4>1. i # 1 /\ i - 1 \in 1 .. Len(queue')
        BY SMTT(60), <3>2, <3>3
      <4>2. queue'[i - 1] = r
        BY SMTT(60), <3>1, <3>2, <4>1
      <4> QED
        BY SMTT(60), <3>3, <4>1, <4>2
    <3>7. Holders'
      BY SMTT(60), <1>1, <2>1, <2>6, <3>1, <3>2, <3>6 DEF Holders, TypeOK
    <3> QED
      BY <2>3, <2>5, <3>4, <3>5, <3>7
  <2>7. CASE NextOfLoop # "run"
    <3>1. UNCHANGED <<item, queue, status>>
      BY <1>3, <2>7 DEF Loop
    <3>2. TypeOK'
      BY SMTT(60), <1>1, <2>1, <3>1 DEF TypeOK
    <3>3. Phases'
      BY <1>1, <3>1 DEF Phases
    <3>4. Holders'
      BY SMTT(60), <1>1, <2>1, <2>7, <3>1 DEF Holders, TypeOK, Range
    <3> QED
      BY <2>3, <2>5, <3>2, <3>3, <3>4
  <2> QED
    BY <2>6, <2>7
<1> QED
  BY <1>2, <1>3

LEMMA ExecuteIInv == ASSUME IInv, NEW w \in Workers, Execute(w) PROVE IInv'
<1> USE DEF IInv
<1>1. /\ UNCHANGED <<queue, running, numThreads, deleted, main, rejecting, handlers, event, current, loopbreak, onTime>>
      /\ worker[w] = "run" /\ item[w] \in Requests
      /\ status' = [status EXCEPT ![item[w]] = "replied"]
      /\ item' = [item EXCEPT ![w] = None] /\ worker' = [worker EXCEPT ![w] = "loop"]
  BY DEF Execute, queueVars, eventVars, Holders
<1>2. TypeOK'
  BY SMTT(60), <1>1 DEF TypeOK, Held
<1>3. Inside' = Inside
  BY <1>1 DEF Inside, InRun, TypeOK
<1>4. Counted' /\ Phases'
  BY <1>1, <1>3 DEF Counted, Phases
<1>5. OnTime'
  BY <1>1, <1>3 DEF OnTime, TypeOK, InRun
<1>6. Holders'
  BY SMTT(60), <1>1 DEF Holders, TypeOK, Range
<1> QED
  BY <1>2, <1>4, <1>5, <1>6

\* The destructor of ThreadCounter wakes the other workers and the main thread.
LEMMA LeaveRunIInv == ASSUME IInv, NEW w \in Workers, LeaveRun(w) PROVE IInv'
<1> USE DEF IInv
<1>1. UNCHANGED <<queue, running, deleted, item, rejecting, handlers, event, current, loopbreak, status, onTime>>
      /\ worker[w] = "leaving"
  BY DEF LeaveRun, eventVars
<1>2. CASE deleted
  <2>1. worker' = [worker EXCEPT ![w] = "undefined"] /\ UNCHANGED <<numThreads, main>>
    BY <1>2 DEF LeaveRun
  <2>2. TypeOK'
    BY SMTT(60), <1>1, <2>1 DEF TypeOK
  <2>3. Counted' /\ Phases'
    BY <1>1, <1>2, <2>1 DEF Counted, Phases
  <2>4. OnTime'
    BY <1>1, <1>2, <2>1 DEF OnTime, Phases, TypeOK, Exited, Inside, InRun
  <2>5. Holders'
    BY SMTT(60), <1>1, <2>1 DEF Holders, TypeOK, Range
  <2> QED
    BY <2>2, <2>3, <2>4, <2>5
<1>3. CASE ~deleted
  <2>1. /\ numThreads' = numThreads - 1
        /\ worker' = WakesAll([worker EXCEPT ![w] = "ended"])
        /\ main' = IF main = "sleeping" THEN "unregistered" ELSE main
    BY <1>3 DEF LeaveRun, NotifyAll
  <2>2. /\ worker'[w] = "ended"
        /\ \A v \in Workers \ {w} : worker'[v] = IF worker[v] = "waiting" THEN "loop" ELSE worker[v]
        /\ worker' \in [Workers -> {"starting", "loop", "waiting", "run", "leaving", "ended", "undefined"}]
    BY <1>1, <2>1 DEF WakesAll, TypeOK
  <2>3. Inside' = Inside \ {w} /\ w \in Inside
    BY <1>1, <2>2 DEF Inside, InRun
  <2>4. IsFiniteSet(Inside) /\ Cardinality(Inside) <= Cardinality(Workers)
    BY WorkersAssumption, FS_Subset DEF Inside
  <2>5. Counted' /\ numThreads' \in 0 .. Cardinality(Workers)
    <3>1. Cardinality(Inside') = Cardinality(Inside) - 1 /\ IsFiniteSet(Inside')
      BY <2>3, <2>4, FS_RemoveElement
    <3>2. /\ Cardinality(Inside') \in Nat /\ Cardinality(Inside) \in Nat
          /\ Cardinality(Workers) \in Nat
      BY <2>4, <3>1, FS_CardinalityType, WorkersAssumption
    <3> QED
      BY SMTT(60), <1>3, <2>1, <2>4, <3>1, <3>2 DEF Counted
  <2>6. TypeOK'
    BY <1>1, <2>1, <2>2, <2>5 DEF TypeOK
  <2>7. Phases'
    BY <1>1, <2>1 DEF Phases, Exited
  <2>8. OnTime'
    BY <1>1, <2>1, <2>2, <2>3 DEF OnTime, TypeOK, Exited, InRun
  <2>9. Holders'
    BY SMTT(60), <1>1, <2>2 DEF Holders, TypeOK, Range
  <2> QED
    BY <2>5, <2>6, <2>7, <2>8, <2>9
<1> QED
  BY <1>2, <1>3

LEMMA SpuriousWakeIInv == ASSUME IInv, NEW w \in Workers, SpuriousWake(w) PROVE IInv'
<1> USE DEF IInv
<1>1. UNCHANGED <<queue, running, numThreads, deleted, item, main, rejecting, handlers, event, current, loopbreak,
                  status, onTime>> /\ OnlyWakes
  BY Notified DEF SpuriousWake, queueVars, eventVars
<1>2. TypeOK'
  BY SMTT(60), <1>1 DEF TypeOK, OnlyWakes, InRun
<1>3. Counted' /\ Phases'
  BY <1>1, StillInside DEF Counted, Phases
<1>4. OnTime'
  BY <1>1, StillInside DEF OnTime, TypeOK, InRun, Exited
<1>5. Holders'
  BY SMTT(60), <1>1, StillInside DEF Holders, TypeOK, Range
<1> QED
  BY <1>2, <1>3, <1>4, <1>5

-----------------------------------------------------------------------------
(* Steps of the main thread *)

\* The steps of the main thread up to WaitExit(), none of which lets it pass.
LEMMA BeforeExitIInv ==
    ASSUME IInv, Reject \/ Interrupt \/ UnregisterHTTPHandler
    PROVE  IInv'
<1> USE DEF IInv
<1>1. /\ UNCHANGED <<queue, numThreads, deleted, item, event, current, loopbreak, status, onTime>>
      /\ rejecting' \in BOOLEAN /\ handlers' \in BOOLEAN
      /\ main \in {"serving", "rejecting", "interrupted"} /\ main' \in {"rejecting", "interrupted", "unregistered"}
      /\ running' \in BOOLEAN /\ (running' <=> main' = "rejecting")
  <2>1. CASE Reject
    BY <2>1 DEF Reject, queueVars, eventVars, TypeOK, Phases
  <2>2. CASE Interrupt
    BY <2>2 DEF Interrupt, eventVars, TypeOK
  <2>3. CASE UnregisterHTTPHandler
    BY <2>3 DEF UnregisterHTTPHandler, queueVars, eventVars, TypeOK, Phases
  <2> QED
    BY <2>1, <2>2, <2>3
<1>2. OnlyWakes
  BY Notified DEF Reject, Interrupt, UnregisterHTTPHandler
<1>3. TypeOK'
  BY <1>1, <1>2 DEF TypeOK, OnlyWakes, InRun
<1>4. Counted'
  BY <1>1, <1>2, StillInside DEF Counted
<1>5. Phases'
  BY <1>1 DEF Phases, Exited
<1>6. OnTime'
  BY <1>1, <1>2, StillInside DEF OnTime, TypeOK, InRun, Exited
<1>7. Holders'
  BY SMTT(60), <1>1, <1>2, StillInside DEF Holders, TypeOK, Range
<1> QED
  BY <1>3, <1>4, <1>5, <1>6, <1>7

\* WaitExit() returns when numThreads is zero: nobody is inside, and everybody
\* on time has ended.
LEMMA WaitExitIInv == ASSUME IInv, WaitExit PROVE IInv'
<1> USE DEF IInv
<1>1. /\ UNCHANGED <<queue, running, numThreads, deleted, worker, item, rejecting, handlers, event, current, loopbreak,
                     status, onTime>>
      /\ main = "unregistered" /\ main' = IF numThreads = 0 THEN "exited" ELSE "sleeping"
  BY DEF WaitExit, AllHaveLeft, queueVars, eventVars
<1>2. TypeOK' /\ Holders' /\ Counted'
  BY SMTT(60), <1>1 DEF TypeOK, Holders, Range, Counted, Inside
<1>3. Phases'
  BY <1>1 DEF Phases, Exited
<1>4. numThreads = 0 => Inside = {}
  <2>1. ~deleted /\ IsFiniteSet(Inside)
    BY <1>1, WorkersAssumption, FS_Subset DEF Phases, Exited, Inside
  <2> QED
    BY <2>1, FS_EmptySet DEF Counted
<1>5. OnTime'
  BY <1>1, <1>4 DEF OnTime, Exited, Inside, InRun, TypeOK
<1> QED
  BY <1>2, <1>3, <1>5

\* delete workQueue: the requests still queued are replied to.
LEMMA DeleteIInv == ASSUME IInv, Delete PROVE IInv'
<1> USE DEF IInv
<1>1. /\ UNCHANGED <<running, numThreads, worker, item, rejecting, handlers, event, current, loopbreak, onTime>>
      /\ main = "exited" /\ main' = "deleted" /\ deleted' = TRUE
      /\ queue' = << >> /\ status' = Unhandled
  BY DEF Delete, eventVars
<1>2. TypeOK'
  BY SMTT(60), <1>1, DepthAssumption DEF TypeOK, Unhandled, Held
<1>3. Counted' /\ Phases' /\ OnTime'
  BY <1>1 DEF Counted, Phases, OnTime, Exited, Inside
<1>4. Holders'
  BY <1>1 DEF Holders, Unhandled, TypeOK
<1> QED
  BY <1>2, <1>3, <1>4

\* The steps after the deletion.
LEMMA AfterDeleteIInv == ASSUME IInv, AwaitLoop \/ JoinAndFree PROVE IInv'
<1> USE DEF IInv
<1>1. /\ UNCHANGED <<queue, running, numThreads, deleted, worker, item, rejecting, handlers, event, current, status, onTime>>
      /\ loopbreak' \in BOOLEAN
      /\ main \in {"deleted", "joining"} /\ main' \in {"joining", "stopped"}
      /\ main' = "stopped" => event = "ended"
  BY DEF AwaitLoop, JoinAndFree, queueVars, eventVars, TypeOK
<1>2. TypeOK'
  BY <1>1 DEF TypeOK
<1>3. Counted' /\ Phases' /\ OnTime' /\ Holders'
  BY <1>1 DEF Counted, Phases, OnTime, Exited, Inside, Holders, Range
<1> QED
  BY <1>2, <1>3

-----------------------------------------------------------------------------
\* The invariant holds in every state that the server can be in.
THEOREM Invariance == Spec => []IInv
<1>1. IInv /\ [Next]_vars => IInv'
  <2> SUFFICES ASSUME IInv, [Next]_vars PROVE IInv'
    OBVIOUS
  <2>1. CASE Next
    BY <2>1, ArriveIInv, CallbackRefusesIInv, FindHandlerIInv, SendReplyIInv, LoopEndsIInv, EnqueueIInv,
       EnterRunIInv, LoopIInv, ExecuteIInv, LeaveRunIInv, SpuriousWakeIInv,
       BeforeExitIInv, WaitExitIInv, DeleteIInv, AfterDeleteIInv
       DEF Next, MainStep, WorkerStep, CallbackStep
  <2>2. CASE UNCHANGED vars
    BY SMTT(60), <2>2 DEF vars, queueVars, eventVars, IInv, TypeOK, Counted, Phases, OnTime, Holders, Inside, Range
  <2> QED
    BY <2>1, <2>2
<1> QED
  BY <1>1, InitIInv, PTL DEF Spec

\* The queue is deleted only when every worker that entered Run() before
\* WaitExit() returned has left it (StopHTTPServer), and no entry of the queue
\* or of the books of the requests is ever out of its type.
THEOREM DeletedWhenLeft == Spec => [](TypeOK /\ GoneBeforeDelete)
<1>1. IInv => TypeOK /\ GoneBeforeDelete
  BY DEF IInv, Phases, OnTime, GoneBeforeDelete
<1> QED
  BY <1>1, Invariance, PTL

\* When event_base_free is called, every request that reached http_request_cb
\* has been released.
THEOREM AllReleased == Spec => []NothingHeldAtFree
<1>1. IInv => NothingHeldAtFree
  <2> SUFFICES ASSUME IInv, main = "stopped", NEW r \in Requests, status[r] \in Held
               PROVE  FALSE
    BY DEF NothingHeldAtFree
  <2>1. event = "ended" /\ queue = << >> /\ main \in Exited
    BY DEF IInv, Phases, Exited
  <2>2. status[r] # "received" /\ status[r] # "found"
    BY <2>1 DEF IInv, Holders
  <2>3. status[r] # "queued"
    BY SMTT(60), <2>1 DEF IInv, Holders, Range
  <2>4. status[r] # "running"
    BY <2>1 DEF IInv, Holders, OnTime
  <2> QED
    BY <2>2, <2>3, <2>4 DEF Held
<1> QED
  BY <1>1, Invariance, PTL
=============================================================================
