-------------------------- MODULE CheckQueueProofs --------------------------
(***************************************************************************)
(* Proof that the check queue keeps its books and that Wait() is exact,    *)
(* for any number of workers, masters and checks and any batch size.       *)
(*                                                                         *)
(* WaitIsExact is not inductive: that nothing is outstanding when Loop     *)
(* returns is known to the code only through nTodo = 0, so the invariant   *)
(* has to say that nTodo counts the outstanding checks, and for this that  *)
(* the batches are disjoint; the verdict has to be tied to the checks that *)
(* have been accounted for (fAllOk) and to the batches in hand (fOk).      *)
(***************************************************************************)
EXTENDS CheckQueue, FiniteSetTheorems, TLAPS

\* The provers may take a minute; Zenon is the one to try where a leaf names none.
USE ZenonT(60)

\* Exactly the thread inside the critical section holds mutex.
Exclusion == \A p \in Threads : (mutex = p) <=> pc[p] \in {"test", "sleep"}

\* A master is busy iff it holds ControlMutex; a worker never acts as one.
Roles ==
    /\ \A m \in Masters : (control = m) <=> pc[m] # "idle"
    /\ \A w \in Workers : pc[w] \notin {"idle", "adding"}

\* Batches are disjoint, and only a thread that runs or has run one holds one.
Batches ==
    /\ \A p \in Threads : /\ vChecks[p] # {} => pc[p] \in {"run", "enter"}
                          /\ pc[p] = "run" => vChecks[p] # {}
                          /\ vChecks[p] \cap queue = {}
    /\ \A p, q \in Threads : p # q => vChecks[p] \cap vChecks[q] = {}
    /\ Outstanding \subseteq added

\* Between rounds nothing is outstanding and the verdict is reset.
Between ==
    /\ control = None => Outstanding = {} /\ fAllOk = TRUE
    /\ added = {} => fAllOk = TRUE
    /\ \A m \in Masters : pc[m] = "returned" =>
          /\ Outstanding = {} /\ fAllOk = TRUE
          /\ (ret[m] = TRUE) <=> (added \cap Bad = {})

\* A round is under way.
Busy == control # None /\ pc[control] # "returned"

\* A bad check that is accounted for has spoilt fAllOk, one in a batch that has
\* run has spoilt fOk, and neither is spoilt without a bad check.
Verdict ==
    /\ Busy => \A c \in (added \cap Bad) \ Outstanding : fAllOk = FALSE
    /\ fAllOk = FALSE => added \cap Bad # {}
    /\ \A p \in Threads :
          /\ vChecks[p] # {} /\ fOk[p] = FALSE => added \cap Bad # {}
          /\ pc[p] = "enter" /\ vChecks[p] \cap Bad # {} => fOk[p] = FALSE

IInv == TypeOK /\ Accounting /\ Exclusion /\ Roles /\ Batches /\ Between /\ Verdict
-----------------------------------------------------------------------------
\* Sets of threads and of checks are finite, so that counting them means
\* something.
LEMMA Finite ==
    ASSUME TypeOK
    PROVE  /\ IsFiniteSet(Outstanding)
           /\ IsFiniteSet(CountedThreads) /\ IsFiniteSet(IdleThreads)
<1>1. Outstanding \in SUBSET Checks
  BY SMTT(60) DEF TypeOK, Outstanding
<1>2. CountedThreads \in SUBSET Threads /\ IdleThreads \in SUBSET Threads
  BY DEF CountedThreads, IdleThreads
<1> QED
  BY <1>1, <1>2, FS_Subset, ThreadsAssumption, ChecksAssumption

\* The constants and the first state.
LEMMA InitIInv == Init => IInv
<1> SUFFICES ASSUME Init PROVE IInv
  OBVIOUS
<1>1. TypeOK
  BY ThreadsAssumption DEF Init, TypeOK, PCs, Threads
<1>2. Outstanding = {} /\ CountedThreads = {} /\ IdleThreads = {}
  BY ThreadsAssumption DEF Init, Outstanding, CountedThreads, IdleThreads,
                           Counted, Idle, Threads
<1>3. Accounting
  BY <1>2, FS_EmptySet DEF Accounting, Init
<1>4. Exclusion /\ Roles
  BY ThreadsAssumption DEF Init, Exclusion, Roles, Threads
<1>5. Batches /\ Between /\ Verdict
  BY <1>2, ThreadsAssumption DEF Init, Batches, Between, Verdict, Threads, Busy
<1> QED
  BY <1>1, <1>3, <1>4, <1>5 DEF IInv

\* Construct takes ControlMutex for an idle master: nothing is outstanding.
LEMMA ConstructIInv ==
    ASSUME IInv, NEW m \in Masters, Construct(m)
    PROVE  IInv'
<1> USE DEF IInv
<1>0. m \in Threads /\ m # None
  BY ThreadsAssumption DEF Threads
<1>1. TypeOK'
  BY <1>0 DEF Construct, TypeOK, PCs
<1>2. Outstanding' = Outstanding /\ Outstanding = {}
  BY DEF Construct, Outstanding, Between
<1>3. CountedThreads' = CountedThreads /\ IdleThreads' = IdleThreads
  BY <1>0 DEF Construct, CountedThreads, IdleThreads, Counted, Idle, TypeOK
<1>4. Accounting'
  BY <1>2, <1>3 DEF Accounting, Construct
<1>5. Exclusion' /\ Roles'
  BY <1>0, ThreadsAssumption DEF Construct, Exclusion, Roles, TypeOK, Threads
<1>6. Batches'
  BY <1>0, <1>2 DEF Construct, Batches, TypeOK
<1>7. Between'
  BY <1>0, <1>2, ThreadsAssumption DEF Construct, Between, TypeOK, Roles, Threads
<1>8. Verdict'
  BY SMTT(60), <1>0, <1>2 DEF Construct, Verdict, TypeOK, Between, Outstanding
<1> QED
  BY <1>1, <1>4, <1>5, <1>6, <1>7, <1>8

\* Add raises nTodo by the size of a batch of fresh checks, and waking workers
\* changes neither who holds what nor who is counted.
LEMMA AddIInv ==
    ASSUME IInv, NEW m \in Masters, Add(m)
    PROVE  IInv'
<1> USE DEF IInv
<1>0. m \in Threads /\ m # None /\ control = m
  BY ThreadsAssumption DEF Threads, Add, Roles
<1>1. PICK batch \in SUBSET (Checks \ added) :
          /\ batch # {}
          /\ queue' = queue \cup batch
          /\ added' = added \cup batch
          /\ nTodo' = nTodo + Cardinality(batch)
          /\ pc' \in NotifyWorkers(Cardinality(batch))
  BY DEF Add
<1>2. /\ pc' \in [Threads -> PCs]
      /\ \A p \in Threads : pc'[p] = pc[p] \/
            (p \in Workers /\ pc[p] = "waiting" /\ pc'[p] = "woken")
  BY SMTT(60), <1>1 DEF NotifyWorkers, Asleep, TypeOK, PCs, Threads
<1>3. UNCHANGED <<mutex, control, nWorkers, nIdleWorkers, fAllOk, fQuit,
                  vChecks, fOk, ret, quit>> /\ pc[m] = "adding"
  BY DEF Add
<1>4. Outstanding' = Outstanding \cup batch /\ Outstanding \cap batch = {}
  BY SMTT(60), <1>1, <1>3 DEF Outstanding, Batches
<1>5. IsFiniteSet(batch) /\ Cardinality(batch) \in Nat
  BY ChecksAssumption, FS_Subset, FS_CardinalityType
<1>6. Cardinality(Outstanding') = Cardinality(Outstanding) + Cardinality(batch)
  <2>1. IsFiniteSet(Outstanding) /\ Cardinality(Outstanding) \in Nat
    BY Finite, FS_CardinalityType
  <2>2. Cardinality(Outstanding \cup batch) = Cardinality(Outstanding)
            + Cardinality(batch) - Cardinality(Outstanding \cap batch)
    BY <1>5, <2>1, FS_Union
  <2>3. Cardinality(Outstanding \cap batch) = 0
    BY <1>4, FS_EmptySet
  <2> QED
    BY SMTT(60), <1>4, <1>5, <2>1, <2>2, <2>3
<1>7. TypeOK'
  BY SMTT(60), <1>1, <1>2, <1>3, <1>5 DEF TypeOK
<1>8. CountedThreads' = CountedThreads /\ IdleThreads' = IdleThreads
  BY <1>2, <1>3 DEF CountedThreads, IdleThreads, Counted, Idle
<1>9. Accounting'
  BY <1>1, <1>3, <1>6, <1>8 DEF Accounting
<1>10. Exclusion' /\ Roles'
  BY <1>2, <1>3, <1>0 DEF Exclusion, Roles, Threads
<1>11. Batches'
  <2>1. \A p \in Threads : vChecks[p] \cap batch = {}
    BY SMTT(60), <1>4 DEF Outstanding
  <2> QED
    BY <1>1, <1>2, <1>3, <1>4, <2>1 DEF Batches
<1>12. Between'
  BY <1>0, <1>1, <1>2, <1>3 DEF Between, Threads, Roles
<1>13. Verdict'
  <2>1. Busy
    BY <1>0, <1>3 DEF Busy
  <2>2. (added' \cap Bad) \ Outstanding' \subseteq (added \cap Bad) \ Outstanding
    BY <1>1, <1>4
  <2>3. added \cap Bad # {} => added' \cap Bad # {}
    BY <1>1
  <2>4. \A p \in Threads : pc'[p] = "enter" => pc[p] = "enter"
    BY <1>2
  <2> QED
    BY <1>3, <2>1, <2>2, <2>3, <2>4 DEF Verdict
<1> QED
  BY <1>7, <1>9, <1>10, <1>11, <1>12, <1>13

\* Steps that change nothing but pc, from one place outside of the critical
\* section to another, and that no counter can see.
LEMMA CallWaitIInv ==
    ASSUME IInv, NEW m \in Masters, CallWait(m)
    PROVE  IInv'
<1> USE DEF IInv
<1>0. m \in Threads /\ m # None /\ control = m
  BY ThreadsAssumption DEF Threads, CallWait, Roles
<1>1. TypeOK'
  BY <1>0 DEF CallWait, TypeOK, PCs
<1>2. Outstanding' = Outstanding
  BY DEF CallWait, Outstanding
<1>3. vChecks[m] = {}
  BY <1>0 DEF CallWait, Batches
<1>4. CountedThreads' = CountedThreads /\ IdleThreads' = IdleThreads
  BY <1>0, <1>3 DEF CallWait, CountedThreads, IdleThreads, Counted, Idle, TypeOK
<1>5. Accounting'
  BY <1>2, <1>4 DEF Accounting, CallWait
<1>6. Exclusion' /\ Roles'
  BY <1>0, ThreadsAssumption DEF CallWait, Exclusion, Roles, TypeOK, Threads
<1>7. Batches'
  BY <1>0, <1>2 DEF CallWait, Batches, TypeOK
<1>8. Between'
  BY <1>0, <1>2 DEF CallWait, Between, TypeOK, Roles, Threads
<1>9. Verdict'
  BY <1>0, <1>2, <1>3 DEF CallWait, Verdict, TypeOK, Busy
<1> QED
  BY <1>1, <1>5, <1>6, <1>7, <1>8, <1>9

\* Destruct leaves ControlMutex after the master has returned.
LEMMA DestructIInv ==
    ASSUME IInv, NEW m \in Masters, Destruct(m)
    PROVE  IInv'
<1> USE DEF IInv
<1>0. m \in Threads /\ m # None /\ control = m
  BY ThreadsAssumption DEF Threads, Destruct, Roles
<1>1. TypeOK'
  BY <1>0 DEF Destruct, TypeOK, PCs
<1>2. Outstanding' = Outstanding /\ Outstanding = {} /\ fAllOk = TRUE
  BY <1>0 DEF Destruct, Outstanding, Between
<1>3. vChecks[m] = {}
  BY <1>0 DEF Destruct, Batches
<1>4. CountedThreads' = CountedThreads /\ IdleThreads' = IdleThreads
  BY <1>0, <1>3 DEF Destruct, CountedThreads, IdleThreads, Counted, Idle, TypeOK
<1>5. Accounting'
  BY <1>2, <1>4 DEF Accounting, Destruct
<1>6. Exclusion' /\ Roles'
  BY <1>0, ThreadsAssumption DEF Destruct, Exclusion, Roles, TypeOK, Threads
<1>7. Batches'
  BY <1>0, <1>2 DEF Destruct, Batches, TypeOK
<1>8. Between'
  BY <1>0, <1>2 DEF Destruct, Between, TypeOK, Roles, Threads
<1>9. Verdict'
  BY <1>0, <1>2 DEF Destruct, Verdict, TypeOK, Busy
<1> QED
  BY <1>1, <1>5, <1>6, <1>7, <1>8, <1>9

\* A set of threads grows or shrinks by one.
LEMMA OneMoreThread ==
    ASSUME NEW S \in SUBSET Threads, NEW p \in Threads, p \notin S
    PROVE  Cardinality(S \cup {p}) = Cardinality(S) + 1
<1>1. IsFiniteSet(S)
  BY ThreadsAssumption, FS_Subset
<1> QED
  BY <1>1, FS_AddElement

LEMMA OneThreadLess ==
    ASSUME NEW S \in SUBSET Threads, NEW p \in S
    PROVE  Cardinality(S \ {p}) = Cardinality(S) - 1
<1>1. IsFiniteSet(S)
  BY ThreadsAssumption, FS_Subset
<1> QED
  BY <1>1, FS_RemoveElement

\* Accounting for a batch removes it from the outstanding checks.
LEMMA BatchAccounted ==
    ASSUME IInv, NEW p \in Threads, vChecks' = [vChecks EXCEPT ![p] = {}],
           queue' = queue
    PROVE  /\ Outstanding' = Outstanding \ vChecks[p]
           /\ Cardinality(Outstanding') =
                 Cardinality(Outstanding) - Cardinality(vChecks[p])
           /\ Cardinality(Outstanding') \in Nat
<1>1. Outstanding' = Outstanding \ vChecks[p]
  BY SMTT(60) DEF IInv, TypeOK, Outstanding, Batches
<1>2. IsFiniteSet(Outstanding) /\ Cardinality(Outstanding) \in Nat
  BY Finite, FS_CardinalityType DEF IInv
<1>3. Outstanding \cap vChecks[p] = vChecks[p]
  BY DEF Outstanding
<1>4. IsFiniteSet(Outstanding \ vChecks[p])
      /\ Cardinality(Outstanding \ vChecks[p])
            = Cardinality(Outstanding) - Cardinality(Outstanding \cap vChecks[p])
  BY <1>2, FS_Difference
<1>5. Cardinality(Outstanding \ vChecks[p]) \in Nat
  BY <1>4, FS_CardinalityType
<1> QED
  BY <1>1, <1>3, <1>4, <1>5

\* Enter accounts for the batch of p, or counts p as a worker.
LEMMA EnterIInv ==
    ASSUME IInv, NEW p \in Threads, Enter(p)
    PROVE  IInv'
<1> USE DEF IInv
<1>1. /\ pc[p] = "enter" /\ mutex = None /\ mutex' = p
      /\ vChecks' = [vChecks EXCEPT ![p] = {}]
      /\ UNCHANGED <<control, queue, nIdleWorkers, fQuit, fOk, ret, added, quit>>
  BY DEF Enter
<1>2. /\ pc' \in [Threads -> PCs] /\ pc'[p] = "test"
      /\ \A q \in Threads \ {p} : pc'[q] = pc[q] \/
            (q \in Masters /\ pc[q] = "waiting" /\ pc'[q] = "woken")
  BY DEF Enter, TypeOK, PCs, Asleep
<1>3. /\ Outstanding' = Outstanding \ vChecks[p]
      /\ Cardinality(Outstanding') =
            Cardinality(Outstanding) - Cardinality(vChecks[p])
      /\ Cardinality(Outstanding') \in Nat
  BY <1>1, BatchAccounted
<1>4. IdleThreads' = IdleThreads
  BY <1>1, <1>2 DEF IdleThreads, Idle
<1>5. CountedThreads' = CountedThreads \cup {p}
  BY <1>1, <1>2 DEF CountedThreads, Counted, TypeOK
<1>6. Exclusion' /\ Roles'
  BY <1>1, <1>2, ThreadsAssumption DEF Exclusion, Roles, TypeOK, Threads
<1>7. Batches'
  BY <1>1, <1>2, <1>3 DEF Batches, TypeOK
<1>8. CASE vChecks[p] # {}
  <2>1. /\ nTodo' = nTodo - Cardinality(vChecks[p]) /\ nWorkers' = nWorkers
        /\ fAllOk' = (fAllOk /\ fOk[p])
    BY <1>8 DEF Enter, TodoAfter
  <2>2. p \in CountedThreads /\ CountedThreads' = CountedThreads
    BY <1>1, <1>5, <1>8 DEF CountedThreads, Counted
  <2>3. Accounting'
    BY <1>1, <1>3, <1>4, <2>1, <2>2 DEF Accounting
  <2>4. TypeOK'
    BY <1>1, <1>2, <1>3, <2>1, <2>3 DEF TypeOK, Accounting
  <2>5. Outstanding # {} /\ added # {} /\ control # None
    BY SMTT(60), <1>8 DEF Outstanding, Batches, Between
  <2>6. \A m \in Masters : pc[m] # "returned" /\ pc'[m] # "returned"
    BY <1>2, <2>5 DEF Between, Threads
  <2>7. Between'
    BY <1>1, <2>5, <2>6 DEF Between
  <2>8. Busy
    BY <2>5, <2>6 DEF Busy, TypeOK
  <2>9. ASSUME NEW c \in (added \cap Bad) \ Outstanding' PROVE fAllOk' = FALSE
    <3>1. CASE c \in Outstanding
      BY <1>1, <1>3, <2>1, <3>1 DEF Verdict, TypeOK
    <3>2. CASE c \notin Outstanding
      BY <2>1, <2>8, <3>2 DEF Verdict, TypeOK
    <3> QED
      BY <3>1, <3>2
  <2>10. fAllOk' = FALSE => added \cap Bad # {}
    <3>1. fAllOk' = FALSE => fAllOk = FALSE \/ fOk[p] = FALSE
      BY <2>1 DEF TypeOK
    <3> QED
      BY <1>8, <3>1 DEF Verdict
  <2>11. Verdict'
    BY <1>1, <1>2, <2>9, <2>10 DEF Verdict, TypeOK
  <2> QED
    BY <1>6, <1>7, <2>3, <2>4, <2>7, <2>11
<1>9. CASE vChecks[p] = {}
  <2>1. UNCHANGED <<nTodo, fAllOk>> /\ nWorkers' = nWorkers + 1
    BY <1>9 DEF Enter
  <2>2. p \notin CountedThreads /\ Outstanding' = Outstanding
    BY <1>1, <1>3, <1>9 DEF CountedThreads, Counted
  <2>3. Cardinality(CountedThreads') = Cardinality(CountedThreads) + 1
    BY <1>5, <2>2, OneMoreThread DEF CountedThreads
  <2>4. Accounting'
    BY <1>1, <1>4, <2>1, <2>2, <2>3 DEF Accounting
  <2>5. TypeOK'
    <3>1. nWorkers' \in Nat /\ nTodo' \in Nat /\ fAllOk' \in BOOLEAN
      BY SMTT(60), <2>1 DEF TypeOK
    <3>2. vChecks' \in [Threads -> SUBSET Checks]
      BY <1>1 DEF TypeOK
    <3> QED
      BY <1>1, <1>2, <3>1, <3>2 DEF TypeOK
  <2>6. Between'
    BY <1>1, <1>2, <2>1, <2>2 DEF Between, Threads
  <2>7. Busy' => Busy
    BY <1>1, <1>2 DEF Busy, TypeOK, Threads, Roles
  <2>8. Verdict'
    BY <1>1, <1>2, <2>1, <2>2, <2>7 DEF Verdict, TypeOK
  <2> QED
    BY <1>6, <1>7, <2>4, <2>5, <2>6, <2>8
<1> QED
  BY <1>8, <1>9

\* Return happens only when nTodo is 0, hence with nothing outstanding: then
\* fAllOk is the verdict on all the checks of the round.
LEMMA ReturnIInv ==
    ASSUME IInv, NEW p \in Threads, Return(p)
    PROVE  IInv'
<1> USE DEF IInv
<1>1. /\ pc[p] = "test" /\ mutex = p /\ mutex' = None /\ nTodo = 0
      /\ nWorkers' = nWorkers - 1 /\ pc' = [pc EXCEPT ![p] = "returned"]
      /\ UNCHANGED <<control, queue, nTodo, nIdleWorkers, fQuit, vChecks, fOk,
                     added, quit>>
  BY DEF Return, Exclusion
<1>2. Outstanding = {} /\ Outstanding' = {}
  <2>1. Outstanding = {}
    BY <1>1, Finite, FS_EmptySet DEF Accounting
  <2> QED
    BY <1>1, <2>1 DEF Outstanding
<1>3. IdleThreads' = IdleThreads
  BY <1>1 DEF IdleThreads, Idle, TypeOK
<1>4. p \in CountedThreads /\ CountedThreads' = CountedThreads \ {p}
  BY <1>1 DEF CountedThreads, Counted, TypeOK
<1>5. Cardinality(CountedThreads') = Cardinality(CountedThreads) - 1
  BY <1>4, OneThreadLess DEF CountedThreads
<1>6. Accounting'
  BY <1>1, <1>2, <1>3, <1>5 DEF Accounting
<1>7. nWorkers' \in Nat
  <2>1. IsFiniteSet(CountedThreads')
    BY <1>4, Finite, FS_RemoveElement
  <2> QED
    BY <1>6, <2>1, FS_CardinalityType DEF Accounting
<1>8. Exclusion'
  BY <1>1, ThreadsAssumption DEF Exclusion, TypeOK
<1>9. Batches'
  BY <1>1, <1>2 DEF Batches, TypeOK
<1>10. CASE p \in Masters
  <2>1. control = p /\ p # None /\ ret' = [ret EXCEPT ![p] = fAllOk]
        /\ fAllOk' = TRUE
    BY <1>1, <1>10, ThreadsAssumption DEF Return, Roles, VerdictAfterReturn
  <2>2. (fAllOk = TRUE) <=> (added \cap Bad = {})
    <3>1. Busy
      BY <1>1, <2>1 DEF Busy
    <3> QED
      BY <1>2, <3>1 DEF Verdict, TypeOK
  <2>3. \A m \in Masters : m # p => pc'[m] = "idle"
    BY <1>1, <2>1, <1>10 DEF Roles, TypeOK, Threads
  <2>4. TypeOK'
    BY <1>1, <1>7, <2>1 DEF TypeOK, PCs
  <2>5. Roles'
    BY <1>1, <1>10, <2>1, ThreadsAssumption DEF Roles, TypeOK, Threads
  <2>6. (ret'[p] = TRUE) <=> (added' \cap Bad = {})
    BY <1>1, <1>10, <2>1, <2>2 DEF TypeOK
  <2>7. Between'
    BY <1>1, <1>2, <2>1, <2>3, <2>6 DEF Between
  <2>8. Verdict'
    BY SMTT(60), <1>1, <1>2, <2>1 DEF Verdict, Busy, TypeOK, Batches, Outstanding
  <2> QED
    BY <1>6, <1>8, <1>9, <2>4, <2>5, <2>7, <2>8
<1>11. CASE p \notin Masters
  <2>1. UNCHANGED <<ret, fAllOk>> /\ p \in Workers
    BY <1>11 DEF Return, VerdictAfterReturn, Threads
  <2>2. TypeOK'
    BY <1>1, <1>7, <2>1 DEF TypeOK, PCs
  <2>3. \A m \in Masters : pc'[m] = pc[m]
    BY <1>1, <1>11 DEF TypeOK, Threads
  <2>4. Roles'
    BY <1>1, <2>1, <2>3 DEF Roles, TypeOK, Threads
  <2>5. Between'
    BY <1>1, <1>2, <2>1, <2>3 DEF Between
  <2>6. Busy' => Busy
    BY <1>1, <2>3 DEF Busy, TypeOK
  <2>7. Verdict'
    BY <1>1, <1>2, <2>1, <2>6 DEF Verdict, TypeOK
  <2> QED
    BY <1>6, <1>8, <1>9, <2>2, <2>4, <2>5, <2>7
<1> QED
  BY <1>10, <1>11

\* Steps that move one thread between places where it holds no batch, and
\* change nothing else of what the checks and the verdict depend on.
LEMMA QuietMove ==
    ASSUME IInv, NEW p \in Threads, NEW to \in {"test", "sleep", "waiting", "woken"},
           pc[p] \in {"test", "sleep", "waiting", "woken"},
           pc' = [pc EXCEPT ![p] = to],
           UNCHANGED <<control, queue, nTodo, nWorkers, fAllOk, fQuit, vChecks,
                       fOk, ret, added, quit>>
    PROVE  /\ Roles' /\ Batches' /\ Between' /\ Verdict'
           /\ pc' \in [Threads -> PCs]
           /\ nTodo' = Cardinality(Outstanding')
           /\ nWorkers' = Cardinality(CountedThreads')
<1> USE DEF IInv
<1>1. Outstanding' = Outstanding
  BY DEF Outstanding
<1>2. CountedThreads' = CountedThreads
  BY DEF CountedThreads, Counted, TypeOK
<1>3. Roles' /\ Batches'
  BY <1>1 DEF Roles, Batches, TypeOK, Threads
<1>4. Between'
  BY <1>1 DEF Between, TypeOK, Threads
<1>5. Busy' => Busy
  BY DEF Busy, TypeOK, Threads
<1>6. Verdict'
  BY <1>1, <1>5 DEF Verdict, TypeOK
<1> QED
  BY <1>1, <1>2, <1>3, <1>4, <1>6 DEF Accounting, TypeOK, PCs

\* Stay counts p as idle, Resume no longer does; Sleep and SpuriousWake move p
\* among the idle ones.
LEMMA WaitingIInv ==
    ASSUME IInv, NEW p \in Threads,
           Stay(p) \/ Sleep(p) \/ SpuriousWake(p) \/ Resume(p)
    PROVE  IInv'
<1> USE DEF IInv
<1>1. CASE Stay(p)
  <2>1. Roles' /\ Batches' /\ Between' /\ Verdict' /\ pc' \in [Threads -> PCs]
        /\ nTodo' = Cardinality(Outstanding')
        /\ nWorkers' = Cardinality(CountedThreads')
    BY <1>1, QuietMove DEF Stay
  <2>2. p \notin IdleThreads /\ IdleThreads' = IdleThreads \cup {p}
    BY <1>1 DEF Stay, IdleThreads, Idle, TypeOK
  <2>3. nIdleWorkers' = Cardinality(IdleThreads')
    BY <1>1, <2>2, OneMoreThread DEF Stay, OneMoreIdle, Accounting, IdleThreads
  <2>4. TypeOK' /\ Exclusion'
    BY SMTT(60), <1>1, <2>1 DEF Stay, OneMoreIdle, TypeOK, Exclusion
  <2> QED
    BY <2>1, <2>3, <2>4 DEF Accounting
<1>2. CASE Sleep(p) \/ SpuriousWake(p)
  <2>1. Roles' /\ Batches' /\ Between' /\ Verdict' /\ pc' \in [Threads -> PCs]
        /\ nTodo' = Cardinality(Outstanding')
        /\ nWorkers' = Cardinality(CountedThreads')
    BY <1>2, QuietMove DEF Sleep, SpuriousWake, Asleep
  <2>2. IdleThreads' = IdleThreads
    BY <1>2 DEF Sleep, SpuriousWake, Asleep, IdleThreads, Idle, TypeOK
  <2>3. TypeOK'
    BY <1>2, <2>1 DEF Sleep, SpuriousWake, TypeOK
  <2>4. Exclusion'
    BY SMTT(60), <1>2, ThreadsAssumption DEF Sleep, SpuriousWake, Asleep, TypeOK, Exclusion
  <2>5. nIdleWorkers' = nIdleWorkers
    BY <1>2 DEF Sleep, SpuriousWake
  <2> QED
    BY <2>1, <2>2, <2>3, <2>4, <2>5 DEF Accounting
<1>3. CASE Resume(p)
  <2>1. Roles' /\ Batches' /\ Between' /\ Verdict' /\ pc' \in [Threads -> PCs]
        /\ nTodo' = Cardinality(Outstanding')
        /\ nWorkers' = Cardinality(CountedThreads')
    BY <1>3, QuietMove DEF Resume
  <2>2. p \in IdleThreads /\ IdleThreads' = IdleThreads \ {p}
    BY <1>3 DEF Resume, IdleThreads, Idle, TypeOK
  <2>3. nIdleWorkers' = Cardinality(IdleThreads')
    BY <1>3, <2>2, OneThreadLess DEF Resume, Accounting, IdleThreads
  <2>4. nIdleWorkers' \in Nat
    <3>1. IsFiniteSet(IdleThreads')
      BY <2>2, Finite, FS_RemoveElement
    <3> QED
      BY <2>3, <3>1, FS_CardinalityType
  <2>5. TypeOK' /\ Exclusion'
    BY <1>3, <2>1, <2>4, ThreadsAssumption DEF Resume, TypeOK, Exclusion
  <2> QED
    BY <2>1, <2>3, <2>5 DEF Accounting
<1> QED
  BY <1>1, <1>2, <1>3

\* A batch is never empty: nNow is at least 1.
LEMMA BatchNotEmpty ==
    ASSUME TypeOK, NEW batch \in SUBSET queue, Cardinality(batch) = nNow
    PROVE  batch # {}
<1>1. IsFiniteSet(queue) /\ Cardinality(queue) \in Nat
  BY ChecksAssumption, FS_Subset, FS_CardinalityType DEF TypeOK
<1>2. Cardinality(queue) \div (nWorkers + nIdleWorkers + 1) \in Int
  BY SMTT(60), <1>1 DEF TypeOK
<1>3. nNow # 0
  BY SMTT(60), <1>2, BatchSizeAssumption DEF nNow
<1> QED
  BY <1>3, FS_EmptySet

\* Take moves a batch from the queue to p.
LEMMA TakeIInv ==
    ASSUME IInv, NEW p \in Threads, Take(p)
    PROVE  IInv'
<1> USE DEF IInv
<1>1. PICK batch \in SUBSET queue :
          /\ Cardinality(batch) = nNow
          /\ vChecks' = [vChecks EXCEPT ![p] = batch]
          /\ queue' = queue \ batch
  BY DEF Take
<1>2. /\ pc[p] = "test" /\ mutex = p /\ mutex' = None
      /\ fOk' = [fOk EXCEPT ![p] = fAllOk] /\ pc' = [pc EXCEPT ![p] = "run"]
      /\ UNCHANGED <<control, nTodo, nWorkers, nIdleWorkers, fAllOk, fQuit, ret,
                     added, quit>>
  BY DEF Take, StartVerdict, Exclusion
<1>3. batch # {} /\ vChecks[p] = {}
  BY <1>1, <1>2, BatchNotEmpty DEF Batches
<1>4. Outstanding' = Outstanding
  BY SMTT(60), <1>1, <1>3 DEF Outstanding, TypeOK
<1>5. CountedThreads' = CountedThreads /\ IdleThreads' = IdleThreads
  BY SMTT(60), <1>2 DEF CountedThreads, IdleThreads, Counted, Idle, TypeOK, Take
<1>6. Accounting'
  BY <1>2, <1>4, <1>5 DEF Accounting
<1>7. TypeOK'
  <2>1. vChecks' \in [Threads -> SUBSET Checks] /\ queue' \in SUBSET Checks
    BY <1>1 DEF TypeOK
  <2>2. fOk' \in [Threads -> BOOLEAN] /\ pc' \in [Threads -> PCs]
    BY <1>2 DEF TypeOK, PCs
  <2> QED
    BY <1>2, <2>1, <2>2 DEF TypeOK
<1>8. Exclusion' /\ Roles'
  BY <1>2, ThreadsAssumption DEF Exclusion, Roles, TypeOK, Threads
<1>9. Batches'
  <2>1. \A q \in Threads : q # p => vChecks'[q] = vChecks[q] /\ pc'[q] = pc[q]
    BY <1>1, <1>2 DEF TypeOK
  <2>2. vChecks'[p] = batch /\ pc'[p] = "run"
    BY <1>1, <1>2 DEF TypeOK
  <2>3. \A q \in Threads : vChecks[q] \cap queue = {}
    BY DEF Batches
  <2> QED
    BY SMTT(60), <1>1, <1>2, <1>3, <1>4, <2>1, <2>2, <2>3 DEF Batches
<1>10. Outstanding # {} /\ control # None
  BY <1>1, <1>3 DEF Outstanding, Between
<1>11. Between'
  BY <1>2, <1>4, <1>10 DEF Between, TypeOK, Threads
<1>12. Busy' => Busy
  BY <1>2 DEF Busy, TypeOK, Threads, Roles
<1>13. Verdict'
  BY <1>1, <1>2, <1>4, <1>12 DEF Verdict, TypeOK
<1> QED
  BY <1>6, <1>7, <1>8, <1>9, <1>11, <1>13

\* Run leaves the result of the batch in fOk.
LEMMA RunIInv ==
    ASSUME IInv, NEW p \in Threads, Run(p)
    PROVE  IInv'
<1> USE DEF IInv
<1>1. /\ pc[p] = "run" /\ pc' = [pc EXCEPT ![p] = "enter"]
      /\ fOk' = [fOk EXCEPT ![p] = fOk[p] /\ vChecks[p] \cap Bad = {}]
      /\ UNCHANGED <<mutex, control, queue, nTodo, nWorkers, nIdleWorkers,
                     fAllOk, fQuit, vChecks, ret, added, quit>>
  BY DEF Run
<1>2. Outstanding' = Outstanding
  BY <1>1 DEF Outstanding
<1>3. vChecks[p] # {} /\ vChecks[p] \subseteq added
  BY <1>1 DEF Batches, Outstanding
<1>4. CountedThreads' = CountedThreads /\ IdleThreads' = IdleThreads
  BY <1>1, <1>3 DEF CountedThreads, IdleThreads, Counted, Idle, TypeOK
<1>5. Accounting'
  BY <1>1, <1>2, <1>4 DEF Accounting
<1>6. TypeOK'
  <2>1. fOk' \in [Threads -> BOOLEAN] /\ pc' \in [Threads -> PCs]
    BY <1>1 DEF TypeOK, PCs
  <2> QED
    BY <1>1, <2>1 DEF TypeOK
<1>7. Exclusion' /\ Roles'
  BY <1>1 DEF Exclusion, Roles, TypeOK, Threads
<1>8. Batches'
  BY <1>1, <1>2, <1>3 DEF Batches, TypeOK
<1>9. Between'
  BY <1>1, <1>2 DEF Between, TypeOK, Threads
<1>10. Busy' => Busy
  BY <1>1 DEF Busy, TypeOK, Threads, Roles
<1>11. /\ fOk'[p] = FALSE => fOk[p] = FALSE \/ vChecks[p] \cap Bad # {}
       /\ vChecks[p] \cap Bad # {} => fOk'[p] = FALSE
       /\ \A q \in Threads : q # p => fOk'[q] = fOk[q] /\ pc'[q] = pc[q]
  BY <1>1 DEF TypeOK
<1>12. Verdict'
  BY <1>1, <1>2, <1>3, <1>10, <1>11 DEF Verdict
<1> QED
  BY <1>5, <1>6, <1>7, <1>8, <1>9, <1>12

\* Quit sets fQuit and wakes threads; the books do not depend on either.
LEMMA QuitIInv ==
    ASSUME IInv, Quit
    PROVE  IInv'
<1> USE DEF IInv
<1>1. UNCHANGED <<mutex, control, queue, nTodo, nWorkers, nIdleWorkers, fAllOk,
                  vChecks, fOk, ret, added>>
      /\ fQuit' \in BOOLEAN /\ quit' \in {"none", "set", "notified", "done"}
  BY DEF Quit, SetQuit, QuitNotifyWorkers, QuitNotifyMaster, TypeOK
<1>2. /\ pc' \in [Threads -> PCs]
      /\ \A p \in Threads : pc'[p] = pc[p] \/
            (pc[p] = "waiting" /\ pc'[p] = "woken")
  BY DEF Quit, SetQuit, QuitNotifyWorkers, QuitNotifyMaster, TypeOK, PCs, Asleep
<1>3. Outstanding' = Outstanding
  BY <1>1 DEF Outstanding
<1>4. CountedThreads' = CountedThreads /\ IdleThreads' = IdleThreads
  BY <1>1, <1>2 DEF CountedThreads, IdleThreads, Counted, Idle
<1>5. Accounting' /\ TypeOK'
  BY <1>1, <1>2, <1>3, <1>4 DEF Accounting, TypeOK
<1>6. Exclusion' /\ Roles' /\ Batches'
  BY <1>1, <1>2, <1>3 DEF Exclusion, Roles, Batches, Threads
<1>7. Between'
  BY <1>1, <1>2, <1>3 DEF Between, Threads
<1>8. Busy' => Busy
  BY <1>1, <1>2 DEF Busy, Threads, TypeOK
<1>9. Verdict'
  BY <1>1, <1>2, <1>3, <1>8 DEF Verdict
<1> QED
  BY <1>5, <1>6, <1>7, <1>9

-----------------------------------------------------------------------------
\* The invariant holds in every reachable state of the check queue.
THEOREM Invariance == Spec => []IInv
<1>1. IInv /\ [Next]_vars => IInv'
  <2> SUFFICES ASSUME IInv, [Next]_vars PROVE IInv'
    OBVIOUS
  <2>1. ASSUME NEW m \in Masters, Master(m) PROVE IInv'
    BY <2>1, ConstructIInv, AddIInv, CallWaitIInv, DestructIInv DEF Master
  <2>2. ASSUME NEW p \in Threads, Loop(p) PROVE IInv'
    BY <2>2, EnterIInv, ReturnIInv, WaitingIInv, TakeIInv, RunIInv DEF Loop
  <2>3. CASE Quit
    BY <2>3, QuitIInv
  <2>4. CASE UNCHANGED vars
    BY SMTT(60), <2>4 DEF vars, IInv, TypeOK, Accounting, Exclusion, Roles, Batches,
                Between, Verdict, Busy, Outstanding, CountedThreads,
                IdleThreads, Counted, Idle
  <2> QED
    BY <2>1, <2>2, <2>3, <2>4 DEF Next
<1> QED
  BY <1>1, InitIInv, PTL DEF Spec

\* nTodo, nWorkers and nIdleWorkers count what checkqueue.h says they count,
\* for every number of threads and checks; the types are right.
THEOREM Books == Spec => [](TypeOK /\ Accounting)
<1>1. IInv => TypeOK /\ Accounting
  BY DEF IInv
<1> QED
  BY <1>1, Invariance, PTL

\* When Wait() returns to ConnectBlock every check added since the control was
\* constructed has been accounted for, nobody holds one, and the result is the
\* conjunction of all of them.
THEOREM WaitExact == Spec => []WaitIsExact
<1>1. IInv => WaitIsExact
  BY DEF IInv, WaitIsExact, Between
<1> QED
  BY <1>1, Invariance, PTL

\* A round of checks inherits neither a check nor a verdict from earlier ones.
THEOREM RoundsStartClean == Spec => []CleanStart
<1>1. IInv => CleanStart
  <2> SUFFICES ASSUME IInv, control = None \/ (pc[control] = "adding" /\ added = {})
               PROVE  Outstanding = {} /\ nTodo = 0 /\ fAllOk
    BY DEF CleanStart
  <2>1. Outstanding = {} /\ fAllOk = TRUE
    BY DEF IInv, Between, Batches
  <2> QED
    BY <2>1, FS_EmptySet DEF IInv, Accounting
<1> QED
  BY <1>1, Invariance, PTL
=============================================================================
