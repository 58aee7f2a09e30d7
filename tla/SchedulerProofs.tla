-------------------------- MODULE SchedulerProofs --------------------------
(***************************************************************************)
(* Proofs about CScheduler for any number of threads, tasks and delays:    *)
(* each task runs when it should and as often, none is left unwatched,     *)
(* stop(true) loses none, and the object outlives the threads that use it. *)
(*                                                                         *)
(* A task is in the queue, with a thread, not yet scheduled or done with;  *)
(* the invariant says so place by place, because the counts of ExactlyOnce *)
(* tell no step which of the places it may empty.  With one service thread *)
(* the first task is the one it waits for, hence no call before its time.  *)
(***************************************************************************)
EXTENDS SchedulerLifetime, FiniteSetTheorems, SequenceTheorems, TLAPS

\* The provers may take a minute; Zenon is the one to try where a leaf names none.
USE ZenonT(60)

Entries == [f : Tasks, left : Delays]

\* A thread has a task exactly while it calls one.
Running ==
    \A t \in Threads : /\ pc[t] = "run" => \E f \in Tasks : fun[t] = {f}
                       /\ pc[t] # "run" => fun[t] = {}

Holds(q, f) == \E i \in DOMAIN q : q[i].f = f
Distinct(q) == \A i, j \in DOMAIN q : q[i].f = q[j].f => i = j

Queued(f) == Holds(taskQueue, f)
Called(f) == \E t \in Threads : f \in fun[t]

\* No task is in two places, and where it has to be it is.
OnePlace ==
    /\ Distinct(taskQueue)
    /\ \A t, u \in Threads : fun[t] \cap fun[u] # {} => t = u
    /\ \A f \in Tasks : Queued(f) => ~Called(f)
    /\ \A f \in Once : (Queued(f) \/ Called(f)) <=> f \notin calls \cup ran
    /\ \A f \in Every : (Queued(f) \/ Called(f)) <=> f \notin calls
    /\ calls \cap ran = {}

\* A thread that left after stop(true) has seen the queue empty: what was
\* scheduled before stop(true) has run by then or is being run.
Drained ==
    /\ ~(stopRequested /\ stopWhenEmpty)
    /\ \A t \in Threads : pc[t] = "done" => stopRequested \/ stopWhenEmpty
    /\ accepted \subseteq Tasks \ calls
    /\ (stopWhenEmpty /\ \E t \in Threads : pc[t] = "done") =>
          \A f \in accepted : f \in ran \/ Called(f)

Serving(p) == {t \in Threads : p[t] \notin {"start", "done"}}

Types ==
    /\ taskQueue \in Seq(Entries)
    /\ inQueue = Cardinality(Serving(pc))
    /\ pc \in [Threads -> PCs]
    /\ waitsFor \in [Threads -> Delays \cup {Forever}]
    /\ fun \in [Threads -> SUBSET Tasks]
    /\ early \in [Threads -> Delays]
    /\ notifyOne \in Nat /\ notifyAll \in BOOLEAN
    /\ calls \subseteq Tasks /\ ran \subseteq Tasks
    /\ stopRequested \in BOOLEAN /\ stopWhenEmpty \in BOOLEAN

IInv == Types /\ Running /\ OnePlace /\ Drained /\ FirstTaskWatched
-----------------------------------------------------------------------------
LEMMA InsertProperties ==
    ASSUME NEW q \in Seq(Entries), NEW f \in Tasks, NEW d \in Delays
    PROVE  /\ Insert(q, f, d) \in Seq(Entries)
           /\ Len(Insert(q, f, d)) = Len(q) + 1
           /\ \E n \in 1 .. Len(q) + 1 :
                 /\ \A i \in 1 .. Len(q) + 1 :
                       Insert(q, f, d)[i] = IF i < n THEN q[i]
                                            ELSE IF i = n THEN [f |-> f, left |-> d]
                                            ELSE q[i - 1]
                 /\ n = 1 => q = <<>> \/ q[1].left > d
<1> DEFINE S == {i \in DOMAIN q : q[i].left =< d}
           k == Cardinality(S)
           new == [f |-> f, left |-> d]
<1>1. IsFiniteSet(DOMAIN q) /\ Cardinality(DOMAIN q) = Len(q)
  <2>1. Len(q) \in Nat /\ DOMAIN q = 1 .. Len(q)
    BY SMTT(60)
  <2> HIDE DEF S
  <2>2. IsFiniteSet(1 .. Len(q)) /\ Cardinality(1 .. Len(q)) = Len(q)
    BY SMTT(60), <2>1, FS_Interval
  <2> QED
    BY <2>1, <2>2
<1>2. IsFiniteSet(S) /\ k \in 0 .. Len(q)
  BY SMTT(60), <1>1, FS_Subset, FS_CardinalityType
<1>3. k = 0 => q = <<>> \/ q[1].left > d
  <2>1. k = 0 => S = {}
    BY <1>2, FS_EmptySet
  <2>2. q # <<>> => 1 \in DOMAIN q /\ q[1].left \in Int /\ d \in Int
    <3>1. q # <<>> => 1 \in DOMAIN q /\ q[1] \in Entries
      BY SMTT(60)
    <3> QED
      BY SMTT(60), <3>1, TasksAssumption DEF Entries, Delays
  <2>3. q # <<>> /\ ~(q[1].left > d) => 1 \in S
    BY SMTT(60), <2>2
  <2> HIDE DEF S
  <2> QED
    BY <2>1, <2>3
<1>4. Insert(q, f, d) = SubSeq(q, 1, k) \o <<new>> \o SubSeq(q, k + 1, Len(q))
  <2>1. (k + 1) - 1 = k
    BY SMTT(60), <1>2
  <2> QED
    BY <2>1 DEF Insert, InsertAt
<1> HIDE DEF k, S
<1>5. new \in Entries
  BY DEF Entries
<1>6. /\ SubSeq(q, 1, k) \in Seq(Entries) /\ Len(SubSeq(q, 1, k)) = k
      /\ \A i \in 1 .. k : SubSeq(q, 1, k)[i] = q[i]
  BY SMTT(60), <1>2
<1>7. /\ SubSeq(q, k + 1, Len(q)) \in Seq(Entries) /\ Len(SubSeq(q, k + 1, Len(q))) = Len(q) - k
      /\ \A i \in 1 .. Len(q) - k : SubSeq(q, k + 1, Len(q))[i] = q[k + i]
  BY SMTT(60), <1>2
<1> HIDE DEF new
<1>8. /\ Insert(q, f, d) \in Seq(Entries)
      /\ Len(Insert(q, f, d)) = Len(q) + 1
      /\ \A i \in 1 .. Len(q) + 1 :
            Insert(q, f, d)[i] = IF i < k + 1 THEN q[i] ELSE IF i = k + 1 THEN new ELSE q[i - 1]
  <2> DEFINE a == SubSeq(q, 1, k)
             b == SubSeq(q, k + 1, Len(q))
  <2>1. /\ (a \o <<new>>) \in Seq(Entries) /\ Len(a \o <<new>>) = k + 1
        /\ \A i \in 1 .. k + 1 : (a \o <<new>>)[i] = IF i =< k THEN q[i] ELSE new
    BY SMTT(60), <1>2, <1>5, <1>6
  <2>2. Insert(q, f, d) = (a \o <<new>>) \o b
    BY <1>4
  <2> DEFINE c == a \o <<new>>
  <2>3. /\ c \in Seq(Entries) /\ Len(c) = k + 1
        /\ \A i \in 1 .. k + 1 : c[i] = IF i =< k THEN q[i] ELSE new
    BY <2>1
  <2>4. /\ b \in Seq(Entries) /\ Len(b) = Len(q) - k
        /\ \A i \in 1 .. Len(q) - k : b[i] = q[k + i]
    BY <1>7
  <2>5. Len(q) \in Nat
    BY SMTT(60)
  <2> HIDE DEF a, b, c
  <2>6. /\ (c \o b) \in Seq(Entries)
        /\ Len(c \o b) = Len(c) + Len(b)
        /\ \A i \in 1 .. Len(c) + Len(b) :
             (c \o b)[i] = IF i =< Len(c) THEN c[i] ELSE b[i - Len(c)]
    BY <2>3, <2>4, ConcatProperties
  <2>7. Len(c \o b) = Len(q) + 1
    BY SMTT(60), <1>2, <2>3, <2>4, <2>5, <2>6
  <2>8. ASSUME NEW i \in 1 .. Len(q) + 1
        PROVE  (c \o b)[i] = IF i < k + 1 THEN q[i] ELSE IF i = k + 1 THEN new ELSE q[i - 1]
    <3>1. CASE i =< k + 1
      <4>1. i \in 1 .. k + 1 /\ i \in 1 .. Len(c) + Len(b) /\ i =< Len(c)
        BY SMTT(60), <1>2, <2>3, <2>4, <2>5, <3>1
      <4> QED
        BY SMTT(60), <1>2, <2>3, <2>6, <4>1
    <3>2. CASE i > k + 1
      <4> DEFINE j == i - (k + 1)
      <4>1. /\ j \in 1 .. Len(q) - k /\ k + j = i - 1 /\ i \in 1 .. Len(c) + Len(b)
            /\ ~(i =< Len(c)) /\ i - Len(c) = j
        BY SMTT(60), <1>2, <2>3, <2>4, <2>5, <3>2
      <4> HIDE DEF j
      <4>2. b[j] = q[i - 1]
        BY <2>4, <4>1
      <4> QED
        BY SMTT(60), <1>2, <2>3, <2>6, <3>2, <4>1, <4>2
    <3>3. i =< k + 1 \/ i > k + 1
      <4>1. k \in Nat /\ i \in Nat
        BY SMTT(60), <1>2, <2>5
      <4> QED
        BY SMTT(60), <4>1
    <3> QED
      BY <3>1, <3>2, <3>3
  <2> QED
    BY <2>2, <2>6, <2>7, <2>8 DEF c
<1>9. k + 1 \in 1 .. Len(q) + 1
  BY SMTT(60), <1>2
<1>10. k + 1 = 1 => q = <<>> \/ q[1].left > d
  BY SMTT(60), <1>2, <1>3
<1>11. \E n \in 1 .. Len(q) + 1 :
         /\ \A i \in 1 .. Len(q) + 1 :
               Insert(q, f, d)[i] = IF i < n THEN q[i] ELSE IF i = n THEN new ELSE q[i - 1]
         /\ n = 1 => q = <<>> \/ q[1].left > d
  BY <1>8, <1>9, <1>10
<1> QED
  BY <1>8, <1>11 DEF new

LEMMA InsertHolds ==
    ASSUME NEW q \in Seq(Entries), NEW f \in Tasks, NEW d \in Delays,
           Distinct(q), ~Holds(q, f)
    PROVE  /\ Insert(q, f, d) \in Seq(Entries)
           /\ Distinct(Insert(q, f, d))
           /\ \A g \in Tasks : Holds(Insert(q, f, d), g) <=> g = f \/ Holds(q, g)
<1> DEFINE r == Insert(q, f, d)
<1>1. PICK n \in 1 .. Len(q) + 1 :
        \A i \in 1 .. Len(q) + 1 :
           r[i] = IF i < n THEN q[i] ELSE IF i = n THEN [f |-> f, left |-> d] ELSE q[i - 1]
  BY SMTT(60), InsertProperties
<1>2. r \in Seq(Entries) /\ DOMAIN r = 1 .. Len(q) + 1 /\ DOMAIN q = 1 .. Len(q) /\ Len(q) \in Nat
  <2>1. r \in Seq(Entries) /\ Len(r) = Len(q) + 1
    BY InsertProperties
  <2> HIDE DEF r
  <2> QED
    BY SMTT(60), <2>1
<1> HIDE DEF r
<1>3. n \in DOMAIN r /\ r[n].f = f
  BY SMTT(60), <1>1, <1>2
<1>4. \A i \in DOMAIN r : i # n =>
         \E j \in DOMAIN q : r[i] = q[j] /\ j = IF i < n THEN i ELSE i - 1
  BY SMTT(60), <1>1, <1>2
<1>5. \A j \in DOMAIN q : \E i \in DOMAIN r : r[i] = q[j]
  <2> SUFFICES ASSUME NEW j \in DOMAIN q PROVE \E i \in DOMAIN r : r[i] = q[j]
    OBVIOUS
  <2>1. CASE j < n
    BY SMTT(60), <1>1, <1>2, <2>1
  <2>2. CASE j >= n
    <3>1. j + 1 \in DOMAIN r /\ (j + 1) - 1 = j /\ ~(j + 1 < n) /\ j + 1 # n
      BY SMTT(60), <1>2, <2>2
    <3> QED
      BY <1>1, <1>2, <3>1
  <2> QED
    BY SMTT(60), <1>2, <2>1, <2>2
<1>6. Distinct(r)
  <2> SUFFICES ASSUME NEW i \in DOMAIN r, NEW j \in DOMAIN r, r[i].f = r[j].f PROVE i = j
    BY DEF Distinct
  <2>1. (i # n /\ j # n) \/ i = j
    BY <1>3, <1>4 DEF Holds
  <2> QED
    BY SMTT(60), <1>2, <1>4, <2>1 DEF Distinct
<1>7. \A g \in Tasks : Holds(r, g) <=> g = f \/ Holds(q, g)
  BY SMTT(60), <1>3, <1>4, <1>5 DEF Holds
<1> QED
  BY <1>2, <1>6, <1>7 DEF r

LEMMA TailHolds ==
    ASSUME NEW q \in Seq(Entries), q # <<>>, Distinct(q)
    PROVE  /\ Tail(q) \in Seq(Entries) /\ Head(q) \in Entries
           /\ Distinct(Tail(q)) /\ ~Holds(Tail(q), Head(q).f) /\ Holds(q, Head(q).f)
           /\ \A g \in Tasks : Holds(q, g) <=> g = Head(q).f \/ Holds(Tail(q), g)
<1>1. /\ Tail(q) \in Seq(Entries) /\ Head(q) = q[1] /\ Head(q) \in Entries
      /\ DOMAIN q = 1 .. Len(q) /\ DOMAIN Tail(q) = 1 .. Len(q) - 1
      /\ \A i \in 1 .. Len(q) - 1 : Tail(q)[i] = q[i + 1]
      /\ Len(q) \in Nat \ {0}
  BY SMTT(60)
<1>2. 1 \in DOMAIN q /\ \A i \in DOMAIN Tail(q) : i + 1 \in DOMAIN q /\ i + 1 # 1 /\ Tail(q)[i] = q[i + 1]
  BY SMTT(60), <1>1
<1>3. \A i \in DOMAIN q : i # 1 => i - 1 \in DOMAIN Tail(q) /\ Tail(q)[i - 1] = q[i]
  BY SMTT(60), <1>1
<1>4. Distinct(Tail(q))
  <2> SUFFICES ASSUME NEW i \in DOMAIN Tail(q), NEW j \in DOMAIN Tail(q),
                      Tail(q)[i].f = Tail(q)[j].f
               PROVE  i = j
    BY DEF Distinct
  <2>1. i + 1 = j + 1
    BY SMTT(60), <1>2 DEF Distinct
  <2> QED
    BY SMTT(60), <1>1, <2>1
<1>5. ~Holds(Tail(q), Head(q).f)
  BY <1>1, <1>2 DEF Distinct, Holds
<1>6. \A g \in Tasks : Holds(q, g) <=> g = Head(q).f \/ Holds(Tail(q), g)
  BY <1>1, <1>2, <1>3 DEF Holds
<1>7. Holds(q, Head(q).f)
  BY <1>1, <1>2 DEF Holds
<1> QED
  BY <1>1, <1>4, <1>5, <1>6, <1>7

LEMMA NotifyOneWakes ==
    ASSUME NEW p \in [Threads -> PCs], NEW r \in AfterNotifyOne(p)
    PROVE  /\ r \in [Threads -> PCs] /\ Serving(r) = Serving(p)
           /\ \A t \in Threads : r[t] = p[t] \/ (p[t] = "wait" /\ r[t] = "woken")
           /\ (\E t \in Threads : p[t] = "wait") => \E t \in Threads : r[t] = "woken"
<1>1. \/ r = p /\ (\A t \in Threads : p[t] # "wait")
      \/ \E t \in Threads : p[t] = "wait" /\ r = [p EXCEPT ![t] = "woken"]
  BY DEF AfterNotifyOne
<1> QED
  BY <1>1 DEF Serving, PCs

-----------------------------------------------------------------------------
LEMMA InitIInv == Init => IInv
<1> SUFFICES ASSUME Init PROVE IInv
  OBVIOUS
<1> USE DEF Init
<1>1. inQueue = Cardinality(Serving(pc))
  <2>1. Serving(pc) = {}
    BY DEF Serving
  <2> QED
    BY <2>1, FS_EmptySet
<1>2. taskQueue \in Seq(Entries) /\ early \in [Threads -> Delays]
  BY SMTT(60), TasksAssumption DEF Delays
<1>3. Types
  BY <1>1, <1>2 DEF Types, PCs, Tasks
<1>4. Running /\ Drained /\ FirstTaskWatched
  BY DEF Running, Drained, FirstTaskWatched
<1>5. OnePlace
  BY SMTT(60) DEF OnePlace, Distinct, Queued, Holds, Called, Tasks
<1> QED
  BY <1>3, <1>4, <1>5 DEF IInv

LEMMA ScheduleIInv ==
    ASSUME IInv, NEW f \in Tasks, NEW d \in Delays, Schedule(f, d)
    PROVE  IInv'
<1> USE DEF IInv, Schedule
<1>1. ~Queued(f) /\ ~Called(f) /\ f \notin ran
  BY DEF OnePlace, Tasks
<1>2. /\ taskQueue' \in Seq(Entries) /\ Distinct(taskQueue')
      /\ \A g \in Tasks : Queued(g)' <=> g = f \/ Queued(g)
  BY <1>1, InsertHolds DEF Types, OnePlace, Queued
<1>3. Types' /\ Running'
  BY SMTT(60), <1>2 DEF Types, Running, Serving
<1>4. \A g \in Tasks : Called(g)' <=> Called(g)
  BY DEF Called
<1>5. OnePlace'
  BY <1>1, <1>2, <1>4 DEF OnePlace, Types, Tasks
<1>6. Drained'
  BY <1>1, <1>4 DEF Drained, Types
<1>7. FirstTaskWatched'
  BY SMTT(60) DEF FirstTaskWatched, Types
<1> QED
  BY <1>3, <1>5, <1>6, <1>7

LEMMA StopIInv ==
    ASSUME IInv, NEW drain \in BOOLEAN, Stop(drain)
    PROVE  IInv'
<1> USE DEF IInv, Stop
<1>1. Types' /\ Running'
  BY DEF Types, Running, Serving
<1>2. OnePlace'
  BY DEF OnePlace, Queued, Called
<1>3. Drained'
  BY DEF Drained, Called
<1>4. FirstTaskWatched'
  BY DEF FirstTaskWatched
<1> QED
  BY <1>1, <1>2, <1>3, <1>4

\* A thread that leaves its wait for a notification changes nothing else.
LEMMA WakeIInv ==
    ASSUME IInv, pc' \in [Threads -> PCs],
           \A t \in Threads : pc'[t] = pc[t] \/ (pc[t] = "wait" /\ pc'[t] = "woken"),
           notifyOne' \in Nat, notifyAll' \in BOOLEAN,
           UNCHANGED <<taskQueue, inQueue, stopRequested, stopWhenEmpty, waitsFor, fun,
                       early, calls, ran, accepted>>
    PROVE  Types' /\ Running' /\ OnePlace' /\ Drained'
<1> USE DEF IInv
<1>1. Serving(pc') = Serving(pc)
  BY DEF Serving
<1>2. Types'
  BY <1>1 DEF Types
<1>3. Running'
  BY DEF Running
<1>4. OnePlace'
  BY DEF OnePlace, Queued, Called
<1>5. Drained'
  BY DEF Drained, Called
<1> QED
  BY <1>2, <1>3, <1>4, <1>5

LEMMA NotifyIInv ==
    ASSUME IInv, \/ NotifyOne \/ NotifyAll \/ \E t \in Threads : SpuriousWake(t)
    PROVE  IInv'
<1>1. CASE NotifyOne
  <2>1. /\ pc' \in [Threads -> PCs]
        /\ \A t \in Threads : pc'[t] = pc[t] \/ (pc[t] = "wait" /\ pc'[t] = "woken")
        /\ (\E t \in Threads : pc[t] = "wait") => \E t \in Threads : pc'[t] = "woken"
    BY SMTT(60), <1>1, NotifyOneWakes DEF NotifyOne, IInv, Types
  <2>2. Types' /\ Running' /\ OnePlace' /\ Drained'
    <3>1. notifyOne' \in Nat /\ notifyAll' \in BOOLEAN
      BY SMTT(60), <1>1 DEF NotifyOne, IInv, Types
    <3> QED
      BY <1>1, <2>1, <3>1, WakeIInv DEF NotifyOne
  <2>3. FirstTaskWatched'
    BY <1>1, <2>1 DEF NotifyOne, FirstTaskWatched, IInv, Types, PCs
  <2> QED
    BY <2>2, <2>3 DEF IInv
<1>2. CASE NotifyAll
  <2>1. /\ pc' \in [Threads -> PCs]
        /\ \A t \in Threads : pc'[t] = IF pc[t] = "wait" THEN "woken" ELSE pc[t]
    BY <1>2 DEF NotifyAll, WokenByStop, Waiting, IInv, Types, PCs
  <2>2. Types' /\ Running' /\ OnePlace' /\ Drained'
    <3>1. notifyOne' \in Nat /\ notifyAll' \in BOOLEAN
      BY <1>2 DEF NotifyAll, IInv, Types
    <3> QED
      BY <1>2, <2>1, <3>1, WakeIInv DEF NotifyAll
  <2>3. FirstTaskWatched'
    BY <1>2, <2>1 DEF NotifyAll, FirstTaskWatched, IInv, Types, PCs
  <2> QED
    BY <2>2, <2>3 DEF IInv
<1>3. ASSUME NEW t \in Threads, SpuriousWake(t) PROVE IInv'
  <2>1. pc' = [pc EXCEPT ![t] = "woken"] /\ pc[t] = "wait" /\ pc \in [Threads -> PCs]
    BY <1>3 DEF SpuriousWake, Waiting, IInv, Types
  <2>2. Types' /\ Running' /\ OnePlace' /\ Drained'
    <3>1. notifyOne' \in Nat /\ notifyAll' \in BOOLEAN
      BY <1>3 DEF SpuriousWake, IInv, Types
    <3>2. /\ pc' \in [Threads -> PCs]
          /\ \A u \in Threads : pc'[u] = pc[u] \/ (pc[u] = "wait" /\ pc'[u] = "woken")
      BY <2>1 DEF PCs
    <3> QED
      BY <1>3, <3>1, <3>2, WakeIInv DEF SpuriousWake
  <2>3. FirstTaskWatched'
    BY <2>1 DEF FirstTaskWatched
  <2> QED
    BY <2>2, <2>3 DEF IInv
<1> QED
  BY <1>1, <1>2, <1>3

\* A thread that has nothing to run leaves or waits.
LEMMA LeaveOrWaitIInv ==
    ASSUME IInv, NEW t \in Threads, pc[t] \in {"start", "ran", "wait", "woken"}, LeaveOrWait(t),
           UNCHANGED <<stopRequested, stopWhenEmpty, notifyOne, notifyAll, calls, ran, accepted>>
    PROVE  IInv'
<1> USE DEF IInv
<1>t. /\ Serving(pc) \subseteq Threads /\ IsFiniteSet(Serving(pc))
      /\ pc[t] = "start" <=> t \notin Serving(pc)
  BY ThreadsAssumption, FS_Subset DEF Serving
<1>q. /\ taskQueue' = taskQueue /\ fun' = fun /\ early' = early
      /\ \A f : (Queued(f)' <=> Queued(f)) /\ (Called(f)' <=> Called(f))
  BY DEF LeaveOrWait, Queued, Called
<1>o. OnePlace'
  BY <1>q DEF OnePlace
<1>1. CASE isStopping
  <2> DEFINE p == [pc EXCEPT ![t] = "done"]
  <2>1. p \in [Threads -> PCs] /\ pc' \in AfterNotifyOne(p)
    BY <1>1 DEF LeaveOrWait, Types, PCs
  <2>2. Serving(p) = Serving(pc) \ {t}
    BY DEF Serving, Types
  <2>3. /\ pc' \in [Threads -> PCs] /\ Serving(pc') = Serving(p)
        /\ \A u \in Threads : pc'[u] = p[u] \/ (p[u] = "wait" /\ pc'[u] = "woken")
    <3> HIDE DEF p
    <3> QED
      BY <2>1, NotifyOneWakes
  <2>4. inQueue' = Cardinality(Serving(pc'))
    <3>1. Cardinality(Serving(pc) \ {t}) = IF t \in Serving(pc) THEN Cardinality(Serving(pc)) - 1
                                           ELSE Cardinality(Serving(pc))
      BY <1>t, FS_RemoveElement
    <3> QED
      BY <1>1, <1>t, <2>2, <2>3, <3>1 DEF LeaveOrWait, InQueueWithout, Types
  <2>5. Types'
    BY <1>1, <1>q, <2>3, <2>4 DEF LeaveOrWait, Types
  <2>6. pc'[t] = "done" /\ \A u \in Threads : u # t => pc'[u] = pc[u] \/ (pc[u] = "wait" /\ pc'[u] = "woken")
    BY <2>3 DEF Types
  <2>7. Running'
    BY <1>q, <2>6 DEF Running
  <2>8. Drained'
    <3>1. taskQueue = <<>> => \A f \in Tasks : ~Queued(f)
      BY SMTT(60) DEF Queued, Holds
    <3>2. ASSUME stopWhenEmpty, NEW f \in accepted PROVE f \in ran \/ Called(f)
      BY <1>1, <3>1, <3>2 DEF isStopping, Drained, OnePlace, Tasks
    <3> QED
      BY <1>1, <1>q, <2>6, <3>2 DEF isStopping, Drained
  <2>9. FirstTaskWatched'
    BY <1>1, <1>q DEF isStopping, FirstTaskWatched
  <2> QED
    BY <1>o, <2>5, <2>7, <2>8, <2>9
<1>2. CASE ~isStopping
  <2>1. pc' = [pc EXCEPT ![t] = "wait"] /\ waitsFor' = [waitsFor EXCEPT ![t] = timeToWaitFor]
    BY <1>2 DEF LeaveOrWait
  <2>2. Serving(pc') = Serving(pc) \cup {t}
    BY <2>1 DEF Serving, Types
  <2>3. inQueue' = Cardinality(Serving(pc'))
    <3>1. Cardinality(Serving(pc) \cup {t}) = IF t \in Serving(pc) THEN Cardinality(Serving(pc))
                                             ELSE Cardinality(Serving(pc)) + 1
      BY <1>t, FS_AddElement
    <3> QED
      BY <1>2, <1>t, <2>2, <3>1 DEF LeaveOrWait, Types
  <2>4. /\ timeToWaitFor \in Delays \cup {Forever}
        /\ taskQueue # <<>> => timeToWaitFor \in 0 .. Head(taskQueue).left
    <3>1. taskQueue # <<>> => Head(taskQueue) \in Entries
      BY SMTT(60) DEF Types
    <3> QED
      BY SMTT(60), <3>1, TasksAssumption DEF timeToWaitFor, Entries, Delays
  <2>5. Types'
    BY <1>q, <2>1, <2>3, <2>4 DEF Types, PCs
  <2>6. Running' /\ Drained'
    BY <1>q, <2>1 DEF Running, Drained, Types
  <2>7. FirstTaskWatched'
    BY <1>q, <2>1, <2>4 DEF FirstTaskWatched, Waiting, Types
  <2> QED
    BY <1>o, <2>5, <2>6, <2>7
<1> QED
  BY <1>1, <1>2

LEMMA TakeFirstIInv ==
    ASSUME IInv, NEW t \in Threads, pc[t] \in {"wait", "woken"}, taskQueue # <<>>, TakeFirst(t),
           UNCHANGED <<stopRequested, stopWhenEmpty, notifyOne, notifyAll, calls, ran, accepted>>
    PROVE  IInv'
<1> USE DEF IInv
<1>f. PICK f : f = Head(taskQueue).f
  OBVIOUS
<1>1. /\ taskQueue' \in Seq(Entries) /\ f \in Tasks /\ Head(taskQueue).left \in Delays
      /\ Distinct(taskQueue') /\ Queued(f) /\ ~Queued(f)'
      /\ \A g \in Tasks : Queued(g) <=> g = f \/ Queued(g)'
  <2>1. taskQueue \in Seq(Entries) /\ Distinct(taskQueue) /\ taskQueue' = Tail(taskQueue)
    BY DEF TakeFirst, QueueErased, Types, OnePlace
  <2>2. Head(taskQueue) \in Entries
    BY <2>1, TailHolds
  <2>3. f \in Tasks /\ Head(taskQueue).left \in Delays
    BY <1>f, <2>2 DEF Entries
  <2> QED
    BY <1>f, <2>1, <2>3, TailHolds DEF Queued
<1>2. /\ fun' = [fun EXCEPT ![t] = {f}] /\ pc' = [pc EXCEPT ![t] = "run"]
      /\ fun[t] = {} /\ fun \in [Threads -> SUBSET Tasks] /\ pc \in [Threads -> PCs]
  BY <1>f DEF TakeFirst, Running, Types
<1>3. ~Called(f) /\ \A g \in Tasks : Called(g)' <=> g = f \/ Called(g)
  <2>1. ~Called(f)
    BY <1>1 DEF OnePlace
  <2> QED
    BY <1>2, <2>1 DEF Called
<1>4. Serving(pc') = Serving(pc)
  BY <1>2 DEF Serving
<1>5. Types'
  <2>1. early' \in [Threads -> Delays] /\ waitsFor' \in [Threads -> Delays \cup {Forever}]
    BY <1>1 DEF TakeFirst, Types
  <2>2. pc' \in [Threads -> PCs] /\ fun' \in [Threads -> SUBSET Tasks]
    BY <1>1, <1>2 DEF PCs
  <2> QED
    BY <1>1, <1>4, <2>1, <2>2 DEF TakeFirst, Types
<1>6. Running'
  BY <1>1, <1>2 DEF Running
<1>7. OnePlace'
  <2>1. \A u, v \in Threads : fun'[u] \cap fun'[v] # {} => u = v
    BY SMTT(60), <1>2, <1>3 DEF OnePlace, Called
  <2>2. \A g \in Tasks : Queued(g)' => ~Called(g)'
    BY <1>1, <1>3 DEF OnePlace
  <2>3. \A g \in Tasks : (Queued(g)' \/ Called(g)') <=> (Queued(g) \/ Called(g))
    BY <1>1, <1>3
  <2> QED
    BY <1>1, <2>1, <2>2, <2>3 DEF OnePlace, Tasks
<1>8. Drained'
  BY <1>2, <1>3 DEF Drained
<1>9. FirstTaskWatched'
  BY <1>2 DEF FirstTaskWatched
<1> QED
  BY <1>5, <1>6, <1>7, <1>8, <1>9

LEMMA ReturnIInv ==
    ASSUME IInv, NEW t \in Threads, Return(t)
    PROVE  IInv'
<1> USE DEF IInv
<1>1. PICK f \in Tasks : fun[t] = {f}
  BY DEF Running, Return
<1>2. /\ fun' = [fun EXCEPT ![t] = {}] /\ ran' = ran \cup {f} /\ pc[t] = "run"
      /\ fun \in [Threads -> SUBSET Tasks] /\ pc \in [Threads -> PCs]
      /\ \E to \in {"repeated", "ran"} : pc' = [pc EXCEPT ![t] = to]
      /\ f \in Every => taskQueue' = Insert(taskQueue, f, MaxDelay)
      /\ f \notin Every => taskQueue' = taskQueue
  BY <1>1 DEF Return, Types
<1>3. Called(f) /\ ~Queued(f) /\ f \notin calls
  BY <1>1 DEF Called, OnePlace, Tasks
<1>4. \A g \in Tasks : Called(g)' <=> g # f /\ Called(g)
  BY <1>1, <1>2 DEF Called, OnePlace
<1>5. /\ taskQueue' \in Seq(Entries) /\ Distinct(taskQueue')
      /\ \A g \in Tasks : Queued(g)' <=> Queued(g) \/ (g = f /\ f \in Every)
  <2>1. MaxDelay \in Delays
    BY SMTT(60), TasksAssumption DEF Delays
  <2>2. CASE f \in Every
    BY SMTT(60), <1>2, <1>3, <2>1, <2>2, InsertHolds DEF Types, OnePlace, Queued
  <2>3. CASE f \notin Every
    BY <1>2, <2>3 DEF Types, OnePlace, Queued
  <2> QED
    BY <2>2, <2>3
<1>6. Serving(pc') = Serving(pc)
  BY <1>2 DEF Serving
<1>7. Types'
  <2>1. early' \in [Threads -> Delays]
    BY SMTT(60), TasksAssumption DEF Return, Types, Delays
  <2> QED
    BY <1>2, <1>5, <1>6, <2>1 DEF Return, Types, PCs
<1>8. Running'
  BY <1>2 DEF Running
<1>9. OnePlace'
  <2>1. \A u, v \in Threads : fun'[u] \cap fun'[v] # {} => u = v
    BY <1>2 DEF OnePlace
  <2>2. \A g \in Tasks : Queued(g)' => ~Called(g)'
    BY <1>4, <1>5 DEF OnePlace
  <2>3. \A g \in Once : (Queued(g)' \/ Called(g)') <=> g \notin calls \cup ran'
    BY <1>2, <1>3, <1>4, <1>5, TasksAssumption DEF OnePlace, Tasks
  <2>4. \A g \in Every : (Queued(g)' \/ Called(g)') <=> g \notin calls
    BY SMTT(60), <1>3, <1>4, <1>5 DEF OnePlace, Tasks
  <2> QED
    BY SMTT(60), <1>2, <1>3, <1>5, <2>1, <2>2, <2>3, <2>4 DEF OnePlace, Return
<1>10. Drained'
  BY <1>2, <1>4 DEF Drained, Return
<1>11. FirstTaskWatched'
  BY <1>2 DEF FirstTaskWatched
<1> QED
  BY <1>7, <1>8, <1>9, <1>10, <1>11

LEMMA RepeatIInv ==
    ASSUME IInv, NEW t \in Threads, Repeat(t)
    PROVE  IInv'
<1> USE DEF IInv
<1> DEFINE p == [pc EXCEPT ![t] = "ran"]
<1>1. p \in [Threads -> PCs] /\ pc[t] = "repeated" /\ pc \in [Threads -> PCs]
  BY DEF Repeat, Types, PCs
<1>2. Serving(p) = Serving(pc)
  BY <1>1 DEF Serving
<1>3. pc' \in AfterNotifyOne(p)
  BY DEF Repeat
<1>4. /\ pc' \in [Threads -> PCs] /\ Serving(pc') = Serving(p)
      /\ \A u \in Threads : pc'[u] = p[u] \/ (p[u] = "wait" /\ pc'[u] = "woken")
  <2> HIDE DEF p
  <2> QED
    BY <1>1, <1>3, NotifyOneWakes
<1>5. pc'[t] = "ran" /\ \A u \in Threads : u # t => pc'[u] = pc[u] \/ (pc[u] = "wait" /\ pc'[u] = "woken")
  BY <1>1, <1>4
<1> HIDE DEF p
<1>6. Types'
  BY <1>2, <1>4 DEF Types, Repeat
<1>7. Running'
  BY <1>1, <1>5 DEF Running, Repeat
<1>8. OnePlace'
  BY DEF OnePlace, Queued, Called, Repeat
<1>9. Drained'
  BY <1>5 DEF Drained, Called, Repeat
<1>10. FirstTaskWatched'
  BY <1>5 DEF FirstTaskWatched
<1> QED
  BY <1>6, <1>7, <1>8, <1>9, <1>10

\* The time left until the first task and the time left in a wait for it go
\* down together.
LEMMA TickIInv ==
    ASSUME IInv, Tick
    PROVE  IInv'
<1> USE DEF IInv
<1>1. \A n \in Delays : Less(n) \in Delays
  BY SMTT(60), TasksAssumption DEF Less, Delays
<1>2. Less(Forever) = Forever
  BY SMTT(60) DEF Less, Forever
<1>3. /\ taskQueue \in Seq(Entries) /\ DOMAIN taskQueue = 1 .. Len(taskQueue) /\ Len(taskQueue) \in Nat
      /\ \A i \in DOMAIN taskQueue : taskQueue[i] \in Entries
  BY SMTT(60) DEF Types
<1>4. \A e \in Entries : /\ [e EXCEPT !.left = Less(@)] \in Entries
                         /\ [e EXCEPT !.left = Less(@)].f = e.f
                         /\ [e EXCEPT !.left = Less(@)].left = Less(e.left)
  BY <1>1 DEF Entries
<1>5. /\ taskQueue' \in Seq(Entries) /\ DOMAIN taskQueue' = DOMAIN taskQueue
      /\ \A i \in DOMAIN taskQueue : /\ taskQueue'[i].f = taskQueue[i].f
                                     /\ taskQueue'[i].left = Less(taskQueue[i].left)
  <2>1. taskQueue' = [i \in 1 .. Len(taskQueue) |-> [taskQueue[i] EXCEPT !.left = Less(@)]]
    BY <1>3 DEF Tick
  <2>2. \A i \in 1 .. Len(taskQueue) : taskQueue'[i] = [taskQueue[i] EXCEPT !.left = Less(@)]
    BY <2>1
  <2>3. \A i \in 1 .. Len(taskQueue) : taskQueue'[i] \in Entries
    BY <1>3, <1>4, <2>2
  <2>4. taskQueue' \in [1 .. Len(taskQueue) -> Entries]
    BY <2>1, <2>3
  <2>5. taskQueue' \in Seq(Entries)
    BY <1>3, <2>4, SeqDef
  <2> QED
    BY <1>3, <1>4, <2>2, <2>4, <2>5
<1>6. waitsFor' \in [Threads -> Delays \cup {Forever}]
      /\ \A t \in Threads : waitsFor'[t] = Less(waitsFor[t])
  BY <1>1, <1>2 DEF Tick, Types
<1>7. Types' /\ Running'
  BY <1>5, <1>6 DEF Types, Running, Tick
<1>8. \A f : (Queued(f)' <=> Queued(f)) /\ (Called(f)' <=> Called(f))
  BY <1>5 DEF Queued, Called, Holds, Tick
<1>9. Distinct(taskQueue')
  BY <1>5 DEF OnePlace, Distinct
<1>10. OnePlace' /\ Drained'
  BY <1>8, <1>9 DEF OnePlace, Drained, Tick
<1>11. FirstTaskWatched'
  <2> SUFFICES ASSUME taskQueue' # <<>>, ~stopRequested, NEW u \in Threads, pc[u] # "done",
                      ~(notifyOne > 0), ~notifyAll,
                      \A t \in Threads : pc[t] \notin {"start", "woken", "run", "repeated", "ran"}
               PROVE  \E t \in Waiting : waitsFor'[t] \in 0 .. Head(taskQueue').left
    <3>1. Waiting' = Waiting
      BY DEF Tick, Waiting
    <3> QED
      BY <3>1 DEF FirstTaskWatched, Tick
  <2>1. taskQueue # <<>> /\ 1 \in DOMAIN taskQueue
    BY SMTT(60), <1>3, <1>5
  <2>2. PICK t \in Waiting : waitsFor[t] \in 0 .. Head(taskQueue).left
    BY <2>1 DEF FirstTaskWatched
  <2>3. Head(taskQueue) = taskQueue[1] /\ Head(taskQueue') = taskQueue'[1] /\ taskQueue[1].left \in Nat
    BY SMTT(60), <1>3, <2>1 DEF Entries, Delays
  <2>4. Less(waitsFor[t]) \in 0 .. Less(taskQueue[1].left)
    BY SMTT(60), <2>2, <2>3 DEF Less
  <2> QED
    BY <1>5, <1>6, <2>1, <2>3, <2>4 DEF Waiting
<1> QED
  BY <1>7, <1>10, <1>11

LEMMA NextIInv == IInv /\ [Next]_vars => IInv'
<1> SUFFICES ASSUME IInv, [Next]_vars PROVE IInv'
  OBVIOUS
<1>1. ASSUME NEW t \in Threads, Loop(t) PROVE IInv'
  BY <1>1, LeaveOrWaitIInv DEF Loop
<1>2. ASSUME NEW t \in Threads, Resume(t) PROVE IInv'
  <2>1. pc[t] \in {"wait", "woken"} /\ ((taskQueue # <<>> /\ TakeFirst(t)) \/ LeaveOrWait(t))
    BY <1>2 DEF Resume
  <2> QED
    BY <1>2, <2>1, TakeFirstIInv, LeaveOrWaitIInv DEF Resume
<1>3. CASE UNCHANGED vars
  <2>1. Types' /\ Running'
    BY <1>3 DEF vars, IInv, Types, Running, Serving
  <2>2. OnePlace' /\ Drained'
    BY <1>3 DEF vars, IInv, OnePlace, Drained, Queued, Called
  <2>3. FirstTaskWatched'
    BY <1>3 DEF vars, IInv, FirstTaskWatched, Waiting
  <2> QED
    BY <2>1, <2>2, <2>3 DEF IInv
<1>4. CASE Client
  BY <1>4, ScheduleIInv, StopIInv, NotifyIInv DEF Client
<1>5. ASSUME NEW t \in Threads, serviceQueue(t) PROVE IInv'
  BY <1>1, <1>2, <1>5, ReturnIInv, RepeatIInv, NotifyIInv DEF serviceQueue
<1> QED
  BY <1>3, <1>4, <1>5, TickIInv DEF Next

\* The number of positions or threads where a task is, from OnePlace.
LEMMA AtMostOne ==
    ASSUME NEW S, \A x, y \in S : x = y
    PROVE  Cardinality(S) = IF S = {} THEN 0 ELSE 1
<1>1. CASE S = {}
  BY <1>1, FS_EmptySet
<1>2. ASSUME NEW x \in S PROVE Cardinality(S) = 1
  <2>1. S = {x}
    BY <1>2
  <2> QED
    BY <2>1, FS_Singleton
<1> QED
  BY <1>1, <1>2

LEMMA IInvImplies == IInv => TypeOK /\ ExactlyOnce /\ FirstTaskWatched /\ DrainRunsAll
<1> SUFFICES ASSUME IInv PROVE TypeOK /\ ExactlyOnce /\ DrainRunsAll
  BY DEF IInv
<1> USE DEF IInv
<1>1. TypeOK
  <2>1. ASSUME NEW t \in Threads PROVE fun[t] \subseteq Tasks /\ Cardinality(fun[t]) =< 1
    <3>1. \A x, y \in fun[t] : x = y
      BY DEF Running
    <3> QED
      BY SMTT(60), <3>1, AtMostOne DEF Types
  <2> QED
    BY <2>1 DEF TypeOK, Types, Entries, Serving
<1>2. ASSUME NEW f \in Tasks
      PROVE  Copies(f) = IF Queued(f) \/ Called(f) THEN 1 ELSE 0
  <2> DEFINE P == {i \in DOMAIN taskQueue : taskQueue[i].f = f}
             C == {t \in Threads : f \in fun[t]}
  <2>1. Cardinality(P) = IF P = {} THEN 0 ELSE 1
    <3>1. \A i, j \in P : i = j
      BY DEF OnePlace, Distinct
    <3> QED
      BY <3>1, AtMostOne
  <2>2. Cardinality(C) = IF C = {} THEN 0 ELSE 1
    <3>1. \A t, u \in C : t = u
      BY DEF OnePlace
    <3> QED
      BY <3>1, AtMostOne
  <2>3. (P # {} <=> Queued(f)) /\ (C # {} <=> Called(f)) /\ ~(Queued(f) /\ Called(f))
    BY DEF OnePlace, Queued, Called, Holds
  <2>4. Copies(f) = Cardinality(P) + Cardinality(C)
    BY DEF Copies
  <2> HIDE DEF P, C
  <2> QED
    BY SMTT(60), <2>1, <2>2, <2>3, <2>4
<1>3. ExactlyOnce
  BY <1>2 DEF ExactlyOnce, OnePlace, Tasks
<1>4. DrainRunsAll
  BY ThreadsAssumption DEF DrainRunsAll, Drained, Called, Running
<1> QED
  BY <1>1, <1>3, <1>4

LEMMA SpecIInv == Spec => []IInv
BY InitIInv, NextIInv, PTL DEF Spec

-----------------------------------------------------------------------------
(* The programs that use the scheduler                                      *)

\* Whoever uses the scheduler only makes its steps.
LEMMA LifeSteps ==
    ASSUME [UsageNext]_lifeVars \/ [QtNext]_lifeVars \/ [DaemonNext]_lifeVars
    PROVE  [Next]_vars
<1>1. MaxDelay \in Delays
  BY SMTT(60), TasksAssumption DEF Delays
<1>2. StartConnman => Next
  BY <1>1 DEF StartConnman, Next, Client, Tasks
<1>3. Service => Next
  BY DEF Service, Next, Client
<1>4. \A from, drain : drain \in BOOLEAN /\ StopScheduler(from, drain) => Next
  BY DEF StopScheduler, Next, Client
<1>5. Use => Next
  BY DEF Use, Next, Client
<1>6. InitFails \/ JoinThread \/ DeleteCore \/ LeaveTryBlock \/ UNCHANGED lifeVars => UNCHANGED vars
  BY DEF InitFails, JoinThread, DeleteCore, LeaveTryBlock, lifeVars
<1> QED
  BY <1>2, <1>3, <1>4, <1>5, <1>6 DEF UsageNext, QtNext, DaemonNext, Common

\* Every program that follows the usage comment of scheduler.h, dogecoin-qt
\* and dogecoind only do to their CScheduler what Scheduler allows, so what is
\* proved of Spec holds in each of them.
THEOREM ProgramsUseScheduler == (UsageSpec => Spec) /\ (QtSpec => Spec) /\ (DaemonSpec => Spec)
<1>1. LifeInit => Init
  BY DEF LifeInit
<1> QED
  BY <1>1, LifeSteps, PTL DEF UsageSpec, QtSpec, DaemonSpec, Spec

\* Whatever threads call serviceQueue(), a scheduled task is in one place until
\* it has run, and one that runs once runs once.
THEOREM TasksRunExactlyOnce == Spec => []ExactlyOnce
BY SpecIInv, IInvImplies, PTL

\* The first task is never left to nobody while a thread serves the queue: what
\* schedule(), stop() and serviceQueue() notify is enough.
THEOREM SomebodyWatches == Spec => []FirstTaskWatched
BY SpecIInv, IInvImplies, PTL

\* stop(true) loses no task that was scheduled before it.
THEOREM DrainLosesNothing == Spec => []DrainRunsAll
BY SpecIInv, IInvImplies, PTL

\* A thread that has returned from serviceQueue() stays out.
LEMMA DoneIsFinal ==
    ASSUME IInv, [Next]_vars, NEW u \in Threads, pc[u] = "done"
    PROVE  pc'[u] = "done"
<1>1. pc \in [Threads -> PCs]
  BY DEF IInv, Types
<1>2. CASE NotifyOne
  BY <1>1, <1>2, NotifyOneWakes DEF NotifyOne
<1>3. CASE NotifyAll
  BY <1>1, <1>3 DEF NotifyAll, WokenByStop, Waiting
<1>4. ASSUME NEW t \in Threads, pc[t] # "done", LeaveOrWait(t) PROVE pc'[u] = "done"
  <2> DEFINE p == [pc EXCEPT ![t] = "done"]
  <2>1. CASE pc' \in AfterNotifyOne(p)
    <3>1. p \in [Threads -> PCs] /\ p[u] = "done"
      BY <1>1 DEF PCs
    <3> HIDE DEF p
    <3> QED
      BY SMTT(60), <2>1, <3>1, NotifyOneWakes
  <2>2. CASE pc' = [pc EXCEPT ![t] = "wait"]
    BY <1>1, <1>4, <2>2
  <2> QED
    BY <1>4, <2>1, <2>2 DEF LeaveOrWait
<1>5. ASSUME NEW t \in Threads, Repeat(t) PROVE pc'[u] = "done"
  <2> DEFINE p == [pc EXCEPT ![t] = "ran"]
  <2>1. p \in [Threads -> PCs] /\ p[u] = "done" /\ pc' \in AfterNotifyOne(p)
    BY <1>1, <1>5 DEF Repeat, PCs
  <2> HIDE DEF p
  <2> QED
    BY SMTT(60), <2>1, NotifyOneWakes
<1>6. ASSUME NEW t \in Threads, Resume(t) PROVE pc'[u] = "done"
  <2>1. pc[t] # "done" /\ (LeaveOrWait(t) \/ TakeFirst(t))
    BY <1>6 DEF Resume
  <2> QED
    BY <1>1, <1>4, <2>1 DEF TakeFirst
<1>7. ASSUME NEW t \in Threads, Return(t) \/ SpuriousWake(t) PROVE pc'[u] = "done"
  BY <1>1, <1>7 DEF Return, SpuriousWake, Waiting
<1>8. ASSUME NEW t \in Threads, Loop(t) PROVE pc'[u] = "done"
  BY <1>4, <1>8 DEF Loop
<1>9. CASE Tick \/ UNCHANGED vars \/ (\E f \in Tasks, d \in Delays : Schedule(f, d))
           \/ (\E drain \in BOOLEAN : Stop(drain))
  BY <1>9 DEF Tick, vars, Schedule, Stop
<1> QED
  BY <1>2, <1>3, <1>5, <1>6, <1>7, <1>8, <1>9 DEF Next, Client, serviceQueue

\* The object is deleted by whoever has joined all threads, and they stay out.
LifeInv ==
    /\ alive \in BOOLEAN
    /\ main \in {"started", "running", "waiting", "joining", "joined"}
    /\ main = "joined" => \A t \in Threads : pc[t] = "done"
    /\ ~alive => main = "joined"

LEMMA LifeStepInv ==
    ASSUME IInv, LifeInv, [UsageNext]_lifeVars \/ [QtNext]_lifeVars
    PROVE  LifeInv'
<1>1. \A t \in Threads : pc[t] = "done" => pc'[t] = "done"
  BY LifeSteps, DoneIsFinal
<1>2. CASE Service \/ Use \/ UNCHANGED lifeVars
  BY <1>1, <1>2 DEF LifeInv, Service, Use, lifeVars
<1>3. CASE StartConnman \/ InitFails
           \/ \E from \in {"started", "running"}, drain \in BOOLEAN : StopScheduler(from, drain)
  BY <1>3 DEF LifeInv, StartConnman, InitFails, StopScheduler
<1>4. CASE JoinThread
  BY <1>4 DEF LifeInv, JoinThread, JoinedThreads, vars
<1>5. CASE DeleteCore
  BY <1>5 DEF LifeInv, DeleteCore, vars
<1> QED
  BY <1>2, <1>3, <1>4, <1>5 DEF UsageNext, QtNext, Common

\* A program that follows the usage comment of scheduler.h, and dogecoin-qt,
\* delete the CScheduler only when no thread is inside its serviceQueue().
THEOREM DeletedAfterJoinInQt == (UsageSpec => []DeletedAfterJoin) /\ (QtSpec => []DeletedAfterJoin)
<1>1. LifeInit => IInv /\ LifeInv
  BY InitIInv DEF LifeInit, LifeInv
<1>2. IInv /\ LifeInv /\ ([UsageNext]_lifeVars \/ [QtNext]_lifeVars) => (IInv /\ LifeInv)'
  BY LifeSteps, NextIInv, LifeStepInv
<1>3. IInv /\ LifeInv => DeletedAfterJoin
  BY IInvImplies DEF LifeInv, DeletedAfterJoin, LifeTypeOK
<1> QED
  BY <1>1, <1>2, <1>3, PTL DEF UsageSpec, QtSpec

-----------------------------------------------------------------------------
(* One service thread, as in the node                                       *)

\* The thread that waits for a time waits for the first task in the queue, which
\* nobody else takes out; what is put before it is due earlier.
OnTime ==
    \A t \in Threads :
        /\ pc[t] = "run" => early[t] = 0
        /\ (pc[t] \in {"wait", "woken"} /\ waitsFor[t] # Forever) =>
              taskQueue # <<>> /\ taskQueue[1].left =< waitsFor[t]

LEMMA InsertOnTime ==
    ASSUME NEW q \in Seq(Entries), NEW f \in Tasks, NEW d \in Delays
    PROVE  /\ Insert(q, f, d) # <<>>
           /\ q # <<>> => Insert(q, f, d)[1].left =< q[1].left
<1> DEFINE r == Insert(q, f, d)
<1>1. PICK n \in 1 .. Len(q) + 1 :
        /\ \A i \in 1 .. Len(q) + 1 :
             r[i] = IF i < n THEN q[i] ELSE IF i = n THEN [f |-> f, left |-> d] ELSE q[i - 1]
        /\ n = 1 => q = <<>> \/ q[1].left > d
  BY InsertProperties
<1>2. Len(r) = Len(q) + 1 /\ Len(q) \in Nat
  <2>1. Len(r) = Len(q) + 1
    BY InsertProperties
  <2> HIDE DEF r
  <2> QED
    BY SMTT(60), <2>1
<1> HIDE DEF r
<1>3. r # <<>> /\ 1 \in 1 .. Len(q) + 1
  BY SMTT(60), <1>2
<1>4. q # <<>> => q[1].left \in Nat /\ d \in Nat
  <2>1. q # <<>> => q[1] \in Entries
    BY SMTT(60)
  <2> QED
    BY SMTT(60), <2>1, TasksAssumption DEF Entries, Delays
<1>5. q # <<>> => r[1].left =< q[1].left
  <2>1. CASE n = 1
    BY SMTT(60), <1>1, <1>3, <1>4, <2>1
  <2>2. CASE 1 < n
    BY SMTT(60), <1>1, <1>3, <1>4, <2>2
  <2> QED
    BY SMTT(60), <2>1, <2>2
<1> QED
  BY <1>3, <1>5 DEF r

LEMMA NextOnTime ==
    ASSUME IInv, OnTime, [Next]_vars, NEW th, Threads = {th}
    PROVE  OnTime'
<1>1. /\ pc \in [Threads -> PCs] /\ taskQueue \in Seq(Entries) /\ early \in [Threads -> Delays]
      /\ waitsFor \in [Threads -> Delays \cup {Forever}]
      /\ taskQueue # <<>> => taskQueue[1] \in Entries /\ Head(taskQueue) = taskQueue[1]
  BY SMTT(60) DEF IInv, Types
<1>2. taskQueue # <<>> => taskQueue[1].left \in Nat /\ taskQueue[1].left # Forever
  BY SMTT(60), <1>1 DEF Entries, Delays, Forever
<1>3. ASSUME NEW f \in Tasks, NEW d \in Delays, Schedule(f, d) PROVE OnTime'
  <2>1. taskQueue' # <<>> /\ (taskQueue # <<>> => taskQueue'[1].left =< taskQueue[1].left)
    BY <1>1, <1>3, InsertOnTime DEF Schedule
  <2>2. taskQueue'[1].left \in Nat
    <3>1. taskQueue' \in Seq(Entries)
      BY <1>1, <1>3, InsertProperties DEF Schedule
    <3>2. taskQueue'[1] \in Entries
      BY SMTT(60), <2>1, <3>1
    <3> QED
      BY SMTT(60), <3>2 DEF Entries, Delays
  <2> QED
    BY SMTT(60), <1>1, <1>2, <1>3, <2>1, <2>2 DEF OnTime, Schedule, Delays
<1>4. CASE NotifyOne
  <2>1. \A t \in Threads : pc'[t] = pc[t] \/ (pc[t] = "wait" /\ pc'[t] = "woken")
    BY <1>1, <1>4, NotifyOneWakes DEF NotifyOne
  <2> QED
    BY <1>4, <2>1 DEF OnTime, NotifyOne
<1>5. CASE NotifyAll
  BY <1>1, <1>5 DEF OnTime, NotifyAll, WokenByStop, Waiting
<1>6. CASE Tick
  <2>1. taskQueue # <<>> => taskQueue' # <<>> /\ taskQueue'[1].left = Less(taskQueue[1].left)
    BY SMTT(60), <1>1, <1>6 DEF Tick, Entries
  <2>2. \A t \in Threads : waitsFor'[t] = Less(waitsFor[t])
    BY <1>6 DEF Tick
  <2>3. \A t \in Threads : Less(waitsFor[t]) # Forever => waitsFor[t] \in Nat
    BY SMTT(60), <1>1, TasksAssumption DEF Less, Forever, Delays
  <2> QED
    <3> SUFFICES ASSUME NEW t \in Threads, pc[t] \in {"wait", "woken"}, waitsFor'[t] # Forever
                 PROVE  taskQueue' # <<>> /\ taskQueue'[1].left =< waitsFor'[t]
      BY <1>6 DEF OnTime, Tick
    <3>1. waitsFor[t] \in Nat /\ waitsFor[t] # Forever
      BY SMTT(60), <2>2, <2>3 DEF Forever
    <3>2. taskQueue # <<>> /\ taskQueue[1].left =< waitsFor[t]
      BY <3>1 DEF OnTime
    <3>3. Less(taskQueue[1].left) =< Less(waitsFor[t])
      BY SMTT(60), <1>2, <3>1, <3>2 DEF Less
    <3> QED
      BY <2>1, <2>2, <3>2, <3>3
<1>7. ASSUME LeaveOrWait(th) PROVE OnTime'
  <2>1. CASE isStopping
    <3> DEFINE p == [pc EXCEPT ![th] = "done"]
    <3>1. p \in [Threads -> PCs] /\ p[th] = "done" /\ pc' \in AfterNotifyOne(p)
      BY <1>1, <1>7, <2>1 DEF LeaveOrWait, PCs
    <3> HIDE DEF p
    <3>2. pc'[th] = "done"
      BY <3>1, NotifyOneWakes
    <3> QED
      BY <3>2 DEF OnTime
  <2>2. CASE ~isStopping
    BY SMTT(60), <1>1, <1>2, <1>7, <2>2 DEF OnTime, LeaveOrWait, timeToWaitFor
  <2> QED
    BY <2>1, <2>2
<1>8. CASE Resume(th)
  <2>1. CASE TimedOut(th) /\ taskQueue # <<>> /\ TakeFirst(th)
    <3>1. pc[th] \in {"wait", "woken"} /\ waitsFor[th] = 0 /\ waitsFor[th] # Forever
      BY SMTT(60), <1>8, <2>1 DEF Resume, TimedOut, Forever
    <3>2. taskQueue[1].left = 0
      BY SMTT(60), <1>2, <2>1, <3>1 DEF OnTime
    <3> QED
      BY <1>1, <2>1, <3>2 DEF OnTime, TakeFirst
  <2> QED
    BY <1>7, <1>8, <2>1 DEF Resume
<1>9. CASE Repeat(th)
  <2> DEFINE p == [pc EXCEPT ![th] = "ran"]
  <2>1. p \in [Threads -> PCs] /\ p[th] = "ran" /\ pc' \in AfterNotifyOne(p)
    BY <1>1, <1>9 DEF Repeat, PCs
  <2> HIDE DEF p
  <2>2. pc'[th] = "ran"
    BY <2>1, NotifyOneWakes
  <2> QED
    BY <2>2 DEF OnTime
<1>10. CASE Return(th)
  <2>1. pc'[th] \in {"ran", "repeated"}
    BY <1>1, <1>10 DEF Return
  <2> QED
    BY <2>1 DEF OnTime
<1>11. CASE SpuriousWake(th)
  BY <1>1, <1>11 DEF OnTime, SpuriousWake, Waiting
<1>12. CASE UNCHANGED vars \/ \E drain \in BOOLEAN : Stop(drain)
  BY <1>12 DEF OnTime, vars, Stop
<1>13. CASE serviceQueue(th)
  BY <1>7, <1>8, <1>9, <1>10, <1>11, <1>13 DEF serviceQueue, Loop
<1> QED
  BY <1>3, <1>4, <1>5, <1>6, <1>12, <1>13 DEF Next, Client

\* scheduler.h: "Call func at/after time t".  With one service thread, which is
\* what AppInitMain starts, no task is called before its time, whatever is
\* scheduled when.  (With two, a thread may run the first task for another.)
THEOREM OneThreadNeverEarly ==
    ASSUME NEW th, Threads = {th}
    PROVE  Spec => []NeverEarly
<1>1. Init => OnTime
  BY DEF Init, OnTime
<1>2. IInv /\ OnTime /\ [Next]_vars => OnTime'
  BY NextOnTime
<1>3. OnTime => NeverEarly
  BY DEF OnTime, NeverEarly
<1> QED
  BY <1>1, <1>2, <1>3, SpecIInv, PTL DEF Spec
=============================================================================
