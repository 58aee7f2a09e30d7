--------------------------- MODULE HTTPWorkQueue ---------------------------
(***************************************************************************)
(* The HTTP server of the RPC interface: libevent's thread receives        *)
(* requests and puts them in a queue of limited depth, worker threads      *)
(* execute them, replies go back to libevent's thread.  The main thread    *)
(* interrupts the server, waits for the workers, deletes the queue and     *)
(* ends the event loop.                                                    *)
(*                                                                         *)
(* A stretch of code under the queue's mutex is one action.                *)
(***************************************************************************)
EXTENDS Naturals, Sequences, Functions, FiniteSets

CONSTANTS Workers, Requests, maxDepth, None

ASSUME DepthAssumption == maxDepth \in Nat \ {0}
ASSUME NoneAssumption == None \notin Requests
ASSUME WorkersAssumption == IsFiniteSet(Workers)

VARIABLES
    queue, running, numThreads,   \* members of WorkQueue
    deleted,                      \* delete workQueue was executed; the pointer stays
    worker,    \* where each worker thread is
    item,      \* the request a worker executes
    main,      \* where the main thread is
    rejecting, \* evhttp_set_gencb(http_reject_request_cb); nothing listens
    handlers,  \* pathHandlers has the handlers of RPC and REST
    event,     \* where libevent's thread is
    current,   \* the request its callback is about
    loopbreak, \* event_base_loopbreak was called
    status,    \* what became of each request
    onTime     \* history: workers that entered Run() before WaitExit() saw none inside

queueVars == <<queue, running, numThreads, deleted>>
eventVars == <<event, current, loopbreak>>
vars == <<queueVars, worker, item, main, rejecting, handlers, eventVars, status, onTime>>

\* A request from its arrival until WriteReply was called for it.
Held == {"received", "found", "queued", "running"}

TypeOK ==
    /\ queue \in Seq(Requests) /\ Len(queue) <= maxDepth
    /\ running \in BOOLEAN /\ deleted \in BOOLEAN
    /\ numThreads \in 0 .. Cardinality(Workers)
    /\ worker \in [Workers -> {"starting", "loop", "waiting", "run", "leaving", "ended", "undefined"}]
    /\ item \in [Workers -> Requests \cup {None}]
    /\ main \in {"serving", "rejecting", "interrupted", "unregistered", "sleeping",
                 "exited", "deleted", "joining", "stopped"}
    /\ rejecting \in BOOLEAN /\ handlers \in BOOLEAN /\ loopbreak \in BOOLEAN
    /\ event \in {"dispatch", "callback", "ended", "undefined"}
    /\ current \in Requests \cup {None}
    /\ status \in [Requests -> Held \cup {"new", "replied", "sent", "refused"}]
    /\ onTime \subseteq Workers

Init ==
    /\ queue = << >> /\ running = TRUE /\ numThreads = 0 /\ deleted = FALSE
    /\ worker = [w \in Workers |-> "starting"] /\ item = [w \in Workers |-> None]
    /\ main = "serving" /\ rejecting = FALSE /\ handlers = TRUE
    /\ event = "dispatch" /\ current = None /\ loopbreak = FALSE
    /\ status = [r \in Requests |-> "new"]
    /\ onTime = {}

----------------------------------------------------------------------------
(* The condition variable: workers and WaitExit() wait on the same one. *)

Waiting == {w \in Workers : worker[w] = "waiting"}

WakesAll(ws) == [w \in Workers |-> IF ws[w] = "waiting" THEN "loop" ELSE ws[w]]

\* cond.notify_all() while the worker states become ws.
NotifyAll(ws) ==
    /\ worker' = WakesAll(ws)
    /\ main' = IF main = "sleeping" THEN "unregistered" ELSE main

\* cond.notify_one(): any waiter.
NotifyNobody == UNCHANGED <<worker, main>>
NotifyOne ==
    \/ \E w \in Waiting : worker' = [worker EXCEPT ![w] = "loop"] /\ UNCHANGED main
    \/ main = "sleeping" /\ main' = "unregistered" /\ UNCHANGED worker
    \/ Waiting = {} /\ main # "sleeping" /\ UNCHANGED <<worker, main>>

----------------------------------------------------------------------------
(* libevent's thread *)

\* A request arrives; the generic callback of this moment is called.
Arrive(r) ==
    /\ event = "dispatch" /\ status[r] = "new"
    /\ IF rejecting
       THEN /\ status' = [status EXCEPT ![r] = "refused"]
            /\ UNCHANGED <<event, current>>
       ELSE /\ status' = [status EXCEPT ![r] = "received"]
            /\ event' = "callback" /\ current' = r
    /\ UNCHANGED <<queueVars, worker, item, main, rejecting, handlers, loopbreak, onTime>>

\* hreq->WriteReply from the callback, which then returns: address or method
\* not allowed, or no handler for the path.
CallbackRefuses ==
    /\ event = "callback" /\ status[current] = "received"
    /\ status' = [status EXCEPT ![current] = "replied"]
    /\ event' = "dispatch" /\ current' = None
    /\ UNCHANGED <<queueVars, worker, item, main, rejecting, handlers, loopbreak, onTime>>

FindHandler ==
    /\ event = "callback" /\ status[current] = "received" /\ handlers
    /\ status' = [status EXCEPT ![current] = "found"]
    /\ UNCHANGED <<queueVars, worker, item, main, rejecting, handlers, eventVars, onTime>>

QueueFull == Len(queue) >= maxDepth

\* assert(workQueue) and workQueue->Enqueue(item.get()).
Enqueue ==
    /\ event = "callback" /\ status[current] = "found"
    /\ IF deleted
       THEN /\ event' = "undefined"
            /\ UNCHANGED <<queue, status, current, worker, main>>
       ELSE /\ IF QueueFull
               THEN /\ status' = [status EXCEPT ![current] = "replied"]
                    /\ UNCHANGED <<queue, worker, main>>
               ELSE /\ queue' = Append(queue, current)
                    /\ status' = [status EXCEPT ![current] = "queued"]
                    /\ NotifyOne
            /\ event' = "dispatch" /\ current' = None
    /\ UNCHANGED <<running, numThreads, deleted, item, rejecting, handlers, loopbreak, onTime>>

\* The event that WriteReply activated: evhttp_send_reply.
SendReply(r) ==
    /\ event = "dispatch" /\ status[r] = "replied"
    /\ status' = [status EXCEPT ![r] = "sent"]
    /\ UNCHANGED <<queueVars, worker, item, main, rejecting, handlers, eventVars, onTime>>

\* event_base_dispatch returns when broken, or when no event is left; a
\* connection whose request is with a worker has none that would keep it.
LoopEnds ==
    /\ event = "dispatch"
    /\ \/ loopbreak
       \/ rejecting /\ \A r \in Requests : status[r] # "replied"
    /\ event' = "ended"
    /\ UNCHANGED <<queueVars, worker, item, main, rejecting, handlers, current, loopbreak, status, onTime>>

----------------------------------------------------------------------------
(* A worker thread: HTTPWorkQueueRun *)

\* The constructor of ThreadCounter.
EnterRun(w) ==
    /\ worker[w] = "starting"
    /\ IF deleted
       THEN /\ worker' = [worker EXCEPT ![w] = "undefined"]
            /\ UNCHANGED <<numThreads, onTime>>
       ELSE /\ worker' = [worker EXCEPT ![w] = "loop"]
            /\ numThreads' = numThreads + 1
            /\ onTime' = IF main = "exited" THEN onTime ELSE onTime \cup {w}
    /\ UNCHANGED <<queue, running, deleted, item, main, rejecting, handlers, eventVars, status>>

\* What the loop does with the mutex: leave, wait, or take the first request.
TestsQueueOnly == IF queue = << >> THEN "waiting" ELSE "run"
NextOfLoop ==
    IF ~running THEN "leaving" ELSE IF queue = << >> THEN "waiting" ELSE "run"

Loop(w) ==
    /\ worker[w] = "loop"
    /\ IF deleted
       THEN /\ worker' = [worker EXCEPT ![w] = "undefined"]
            /\ UNCHANGED <<queue, item, status>>
       ELSE /\ worker' = [worker EXCEPT ![w] = NextOfLoop]
            /\ IF NextOfLoop = "run"
               THEN /\ item' = [item EXCEPT ![w] = Head(queue)]
                    /\ queue' = Tail(queue)
                    /\ status' = [status EXCEPT ![Head(queue)] = "running"]
               ELSE UNCHANGED <<item, queue, status>>
    /\ UNCHANGED <<running, numThreads, deleted, main, rejecting, handlers, eventVars, onTime>>

\* (*i)() outside the lock, then the destructors of the item and the request:
\* either the handler or ~HTTPRequest calls WriteReply.
Execute(w) ==
    /\ worker[w] = "run"
    /\ status' = [status EXCEPT ![item[w]] = "replied"]
    /\ item' = [item EXCEPT ![w] = None]
    /\ worker' = [worker EXCEPT ![w] = "loop"]
    /\ UNCHANGED <<queueVars, main, rejecting, handlers, eventVars, onTime>>

\* The destructor of ThreadCounter.
LeaveRun(w) ==
    /\ worker[w] = "leaving"
    /\ IF deleted
       THEN /\ worker' = [worker EXCEPT ![w] = "undefined"]
            /\ UNCHANGED <<numThreads, main>>
       ELSE /\ numThreads' = numThreads - 1
            /\ NotifyAll([worker EXCEPT ![w] = "ended"])
    /\ UNCHANGED <<queue, running, deleted, item, rejecting, handlers, eventVars, status, onTime>>

SpuriousWake(w) ==
    /\ worker[w] = "waiting"
    /\ worker' = [worker EXCEPT ![w] = "loop"]
    /\ UNCHANGED <<queueVars, item, main, rejecting, handlers, eventVars, status, onTime>>

----------------------------------------------------------------------------
(* The main thread: StopAndJoinThreads, then Shutdown *)

\* InterruptHTTPServer, first part.
Reject ==
    /\ main = "serving"
    /\ main' = "rejecting" /\ rejecting' = TRUE
    /\ UNCHANGED <<queueVars, worker, item, handlers, eventVars, status, onTime>>

\* workQueue->Interrupt().
Interrupt ==
    /\ main = "rejecting"
    /\ running' = FALSE /\ main' = "interrupted"
    /\ worker' = WakesAll(worker)
    /\ UNCHANGED <<queue, numThreads, deleted, item, rejecting, handlers, eventVars, status, onTime>>

\* StopHTTPRPC and StopREST.
UnregisterHTTPHandler ==
    /\ main = "interrupted"
    /\ handlers' = FALSE /\ main' = "unregistered"
    /\ UNCHANGED <<queueVars, worker, item, rejecting, eventVars, status, onTime>>

NotAwaited == TRUE
AllHaveLeft == numThreads = 0

\* StopHTTPServer: workQueue->WaitExit().
WaitExit ==
    /\ main = "unregistered"
    /\ main' = IF AllHaveLeft THEN "exited" ELSE "sleeping"
    /\ UNCHANGED <<queueVars, worker, item, rejecting, handlers, eventVars, status, onTime>>

\* What becomes of the requests that are still queued: ~HTTPRequest replies.
Leaked == status
Unhandled == [r \in Requests |-> IF r \in Range(queue) THEN "replied" ELSE status[r]]

\* delete workQueue.
Delete ==
    /\ main = "exited"
    /\ deleted' = TRUE /\ main' = "deleted"
    /\ queue' = << >> /\ status' = Unhandled
    /\ UNCHANGED <<running, numThreads, worker, item, rejecting, handlers, eventVars, onTime>>

\* threadResult.wait_for: the event thread has ended, or two seconds are over.
AwaitLoop ==
    /\ main = "deleted"
    /\ main' = "joining"
    /\ loopbreak' \in {TRUE} \cup (IF event = "ended" THEN {FALSE} ELSE {})
    /\ UNCHANGED <<queueVars, worker, item, rejecting, handlers, event, current, status, onTime>>

\* threadHTTP.join(), evhttp_free and event_base_free.
JoinAndFree ==
    /\ main = "joining" /\ event = "ended"
    /\ main' = "stopped"
    /\ UNCHANGED <<queueVars, worker, item, rejecting, handlers, eventVars, status, onTime>>

----------------------------------------------------------------------------
MainStep ==
    Interrupt \/ UnregisterHTTPHandler \/ WaitExit \/ Delete \/ AwaitLoop \/ JoinAndFree
WorkerStep(w) == EnterRun(w) \/ Loop(w) \/ Execute(w) \/ LeaveRun(w)
CallbackStep == CallbackRefuses \/ FindHandler \/ Enqueue

Next ==
    \/ Reject \/ MainStep
    \/ \E w \in Workers : WorkerStep(w) \/ SpuriousWake(w)
    \/ \E r \in Requests : Arrive(r) \/ SendReply(r)
    \/ CallbackStep \/ LoopEnds

\* Threads run, handlers return, and a broken loop ends.  A client need not
\* send anything, the loop need not end by itself, nobody need stop the node.
Fairness ==
    /\ WF_vars(MainStep)
    /\ \A w \in Workers : WF_vars(WorkerStep(w))
    /\ WF_vars(CallbackStep)
    /\ \A r \in Requests : WF_vars(SendReply(r))
    /\ WF_vars(loopbreak /\ LoopEnds)

Spec == Init /\ [][Next]_vars /\ Fairness

----------------------------------------------------------------------------
\* StopHTTPServer deletes the queue after WaitExit(): every worker that entered
\* Run() before WaitExit() saw none inside has left it by then, and never comes
\* back to the freed queue.
GoneBeforeDelete == deleted => \A w \in onTime : worker[w] = "ended"

\* When event_base_free is called no HTTPRequest is left whose WriteReply, or
\* whose destructor's, would still use the event base.
NothingHeldAtFree ==
    main = "stopped" => \A r \in Requests : status[r] \notin Held

\* A worker that was not yet counted, or a callback that had found its handler
\* before the server began to reject, has used the freed queue.
Undefined == event = "undefined" \/ \E w \in Workers : worker[w] = "undefined"

\* "Keep track of whether reply was sent to avoid request leaks": WriteReply is
\* called for every request that reached http_request_cb, though the queue is
\* full, the server is interrupted or the queue is deleted with requests in it.
EveryRequestReleased ==
    \A r \in Requests : status[r] \in Held ~> status[r] \notin Held \/ Undefined

\* Once the node is told to stop, StopHTTPServer returns.
StopReturns == main # "serving" ~> main = "stopped" \/ Undefined

\* ~WorkQueue: "Precondition: worker threads have all stopped (call WaitExit)".
WorkersStopped == deleted => \A w \in Workers : worker[w] = "ended"
=============================================================================
