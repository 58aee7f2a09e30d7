----------------------------- MODULE ChainState -----------------------------
(***************************************************************************)
(* The block index and the active chain (validation.cpp): the candidates   *)
(* for the tip, the blocks that wait for an ancestor, the failure flags,   *)
(* and ActivateBestChain, which several threads may run at once.           *)
(*                                                                         *)
(* An action is one critical section of cs_main.  ActivateBestChain takes  *)
(* the lock anew for every step and keeps pindexHighest between its steps. *)
(* ConnectBlock is a verdict (Invalid); coins, files and the mempool are   *)
(* elsewhere.  In this fork the best block is the highest one.             *)
(***************************************************************************)
EXTENDS Integers, Sequences, FiniteSets, SequencesExt, FiniteSetsExt

CONSTANTS Blocks, Genesis,
          None,             \* a null pointer
          pprev,            \* the parent of every block but Genesis
          Invalid,          \* blocks that ConnectBlock refuses
          Corrupt,          \* blocks damaged on disk: CorruptionPossible()
          BadBody,          \* blocks that ContextualCheckBlock refuses
          Address,          \* where the CBlockIndex of a block lies in memory
          Threads,
          MinBlocksToKeep,  \* MIN_BLOCKS_TO_KEEP
          MaxCalls,         \* bound: calls of the RPC commands
          MaxSequence       \* bound: sequence ids given to blocks

VARIABLES
    index,          \* mapBlockIndex
    processed,      \* nBlockTx # 0, that is BLOCK_VALID_TRANSACTIONS
    data,           \* BLOCK_DATA_EXISTS
    linked,         \* nChainTx # 0
    failedValid,    \* BLOCK_FAILED_VALID
    failedChild,    \* BLOCK_FAILED_CHILD
    nSequenceId,
    nBlockSequenceId, nBlockReverseSequenceId, nLastPreciousHeight,
    candidates,     \* setOfBlockIndexCandidates
    unlinked,       \* mapBlocksUnlinked: for every parent its list of blocks
    rekeyed,        \* history: a member of the set got another sequence id
    pindexBestInvalid, pindexBestHeader,
    tip,            \* chainActive.Tip()
    pc,             \* per thread: "idle", "activate" (no step yet), "stepped"
    pindexHighest,  \* per thread: ActivateBestChain's local variable
    shutdown,       \* ShutdownRequested()
    calls           \* RPC commands so far

treeVars == <<index, processed, data, linked>>
failVars == <<failedValid, failedChild, pindexBestInvalid>>
seqVars == <<nSequenceId, nBlockSequenceId, nBlockReverseSequenceId,
             nLastPreciousHeight>>
setVars == <<candidates, unlinked, rekeyed>>
threadVars == <<pc, pindexHighest>>
vars == <<treeVars, failVars, seqVars, setVars, threadVars, pindexBestHeader,
          tip, shutdown, calls>>

-----------------------------------------------------------------------------
(* The tree of blocks                                                      *)

\* The path from Genesis to a block (pprev, CChain, GetAncestor).
Path[b \in Blocks] == IF b = Genesis THEN <<b>> ELSE Append(Path[pprev[b]], b)

Ancestors(b) == ToSet(Path[b])
nHeight(b) == Len(Path[b]) - 1
Height == nHeight(tip)
InActiveChain(b) == b \in Ancestors(tip)

Failed(b) == b \in failedValid \cup failedChild
IsValidTransactions(b) == b \in processed /\ ~Failed(b)

\* CBlockIndexComparator: is a worse than b, with sequence ids seq?
WorseIn(seq, a, b) ==
    \/ nHeight(a) < nHeight(b)
    \/ nHeight(a) = nHeight(b) /\ seq[a] > seq[b]
    \/ nHeight(a) = nHeight(b) /\ seq[a] = seq[b] /\ Address[a] > Address[b]

Worse(a, b) == WorseIn(nSequenceId, a, b)

\* The higher of a block and pindexBestInvalid (SayAboutRejectedChain).
BestInvalid(old, b) ==
    IF old = None THEN b ELSE IF nHeight(b) > nHeight(old) THEN b ELSE old

-----------------------------------------------------------------------------
(* Headers and blocks arrive                                               *)

\* AcceptBlockHeader accepts the header of b, known or new.
AcceptsHeader(b) ==
    IF b \in index THEN ~Failed(b)
    ELSE pprev[b] \in index /\ ~Failed(pprev[b])

BestHeader(b) == IF b \notin index /\ nHeight(b) > nHeight(pindexBestHeader)
                 THEN b ELSE pindexBestHeader

AddToBlockIndex(b) ==
    /\ index' = index \cup {b}
    /\ pindexBestHeader' = BestHeader(b)

\* ProcessNewBlockHeaders, for one header
ProcessNewBlockHeaders(b) ==
    /\ AcceptsHeader(b)
    /\ AddToBlockIndex(b)
    /\ UNCHANGED <<processed, data, linked, failVars, seqVars, setVars,
                   threadVars, tip, shutdown, calls>>

\* The blocks that ReceivedBlockTransactions queues after it has linked b.
NotRequeued(lists, b) == <<>>
BlocksWaitingFor(lists, b) == lists[b]

\* One turn of ReceivedBlockTransactions' queue.
LinkFirst(st) ==
    IF st.queue = <<>> THEN st ELSE
    LET b == Head(st.queue)
        seq == [st.seq EXCEPT ![b] = st.next]
    IN  [queue |-> Tail(st.queue) \o BlocksWaitingFor(st.unlinked, b),
         seq |-> seq, next |-> st.next + 1, linked |-> st.linked \cup {b},
         candidates |-> IF WorseIn(seq, b, tip) THEN st.candidates
                        ELSE st.candidates \cup {b},
         rekeyed |-> st.rekeyed \/ b \in st.candidates,
         unlinked |-> [st.unlinked EXCEPT ![b] = <<>>]]

\* The queue is empty after as many turns as there are entries to link.
LinkFrom(b) ==
    LET entries == MapThenSumSet(LAMBDA p : Len(unlinked[p]), Blocks)
        turn(st, i) == LinkFirst(st)
    IN  FoldLeft(turn,
                 [queue |-> <<b>>, seq |-> nSequenceId,
                  next |-> nBlockSequenceId, linked |-> linked,
                  candidates |-> candidates, rekeyed |-> rekeyed,
                  unlinked |-> unlinked],
                 [i \in 0 .. entries |-> i])

ReceivedBlockTransactions(b) ==
    /\ processed' = processed \cup {b}
    /\ data' = data \cup {b}
    /\ IF pprev[b] \in linked
       THEN LET st == LinkFrom(b) IN
            /\ nSequenceId' = st.seq /\ nBlockSequenceId' = st.next
            /\ linked' = st.linked /\ candidates' = st.candidates
            /\ unlinked' = st.unlinked /\ rekeyed' = st.rekeyed
       ELSE /\ unlinked' = [unlinked EXCEPT ![pprev[b]] = Append(@, b)]
            /\ UNCHANGED <<nSequenceId, nBlockSequenceId, linked, candidates,
                           rekeyed>>

IsHigher(b) == nHeight(b) > Height
TooFarAhead(b) == nHeight(b) > Height + MinBlocksToKeep

\* Does AcceptBlock go on with a block whose header it accepted?
StoresAgain(b, fRequested) == fRequested \/ (IsHigher(b) /\ ~TooFarAhead(b))
StoresBlock(b, fRequested) ==
    /\ b \notin data
    /\ fRequested \/ (b \notin processed /\ IsHigher(b) /\ ~TooFarAhead(b))

\* ProcessNewBlock up to the release of cs_main, by thread t.  If AcceptBlock
\* fails the thread is done, else it goes on with ActivateBestChain.  Blocks of
\* the active chain are never requested.
ProcessNewBlock(t, b, fRequested) ==
    /\ pc[t] = "idle" /\ ~shutdown /\ AcceptsHeader(b)
    /\ nBlockSequenceId <= MaxSequence
    /\ fRequested => ~InActiveChain(b)
    /\ AddToBlockIndex(b)
    /\ \/ /\ ~StoresBlock(b, fRequested)
          /\ pc' = [pc EXCEPT ![t] = "activate"]
          /\ UNCHANGED <<processed, data, linked, seqVars, setVars, failVars>>
       \/ /\ StoresBlock(b, fRequested) /\ b \in BadBody
          /\ failedValid' = failedValid \cup {b}
          /\ UNCHANGED <<processed, data, linked, seqVars, setVars, pc,
                         failedChild, pindexBestInvalid>>
       \/ /\ StoresBlock(b, fRequested) /\ b \notin BadBody
          /\ ReceivedBlockTransactions(b)
          /\ pc' = [pc EXCEPT ![t] = "activate"]
          /\ UNCHANGED <<failVars, nBlockReverseSequenceId,
                         nLastPreciousHeight>>
    /\ UNCHANGED <<pindexHighest, tip, shutdown, calls>>

\* A block file with the one block b is pruned (FindFilesToPrune,
\* PruneOneBlockFile).
PruneOneBlockFile(b) ==
    /\ b \in data /\ nHeight(b) <= Height - MinBlocksToKeep
    /\ data' = data \ {b}
    /\ unlinked' = IF b = Genesis THEN unlinked ELSE
                   [unlinked EXCEPT ![pprev[b]] =
                       SelectSeq(@, LAMBDA c : c # b)]
    /\ UNCHANGED <<index, processed, linked, failVars, seqVars, candidates,
                   rekeyed, threadVars, pindexBestHeader, tip, shutdown, calls>>

-----------------------------------------------------------------------------
(* ActivateBestChain                                                       *)

\* FindHighestChain, for one candidate (the best comes first): take it if
\* nothing on its path to the active chain is failed or missing, else remove
\* the part of the path above the highest unusable block from the candidates.
TryCandidate(st, c) ==
    IF st.found # None \/ c \notin st.candidates THEN st ELSE
    LET path == Ancestors(c) \ Ancestors(tip)
        failed == failedValid \cup st.failedChild
        unusable == {b \in path : b \in failed \/ b \notin data}
        test == CHOOSE b \in unusable :
                    \A u \in unusable : nHeight(u) <= nHeight(b)
        above == {b \in path : nHeight(b) > nHeight(test)}
    IN  IF unusable = {} THEN [st EXCEPT !.found = c]
        ELSE [st EXCEPT
                !.candidates = @ \ (above \cup {test}),
                !.failedChild = IF test \in failed THEN @ \cup above ELSE @,
                !.pindexBestInvalid = IF test \in failed
                                      THEN BestInvalid(@, c) ELSE @,
                !.unlinked = IF test \in failed THEN @ ELSE
                    [p \in Blocks |->
                        @[p] \o SetToSeq({b \in above : pprev[b] = p})]]

Search(b) == [found |-> b, candidates |-> candidates,
              failedChild |-> failedChild, unlinked |-> unlinked,
              pindexBestInvalid |-> pindexBestInvalid]

FindHighestChain ==
    FoldLeft(TryCandidate, Search(None),
             SetToSortSeq(candidates, LAMBDA a, b : Worse(b, a)))

\* PruneBlockIndexCandidates, with tip t
PruneCandidates(cands, t) == {c \in cands : ~Worse(c, t)}

\* ConnectBlock refused b; unless the block may be damaged InvalidBlockFound
\* marks it.
Refused(st, b) == [st EXCEPT !.stop = TRUE, !.fInvalidFound = TRUE]
InvalidBlockFound(st, b) ==
    [Refused(st, b) EXCEPT
        !.failedValid = @ \cup {b}, !.candidates = @ \ {b},
        !.pindexBestInvalid = BestInvalid(@, b)]

\* One round of ActivateBestChainStep's loop: ConnectTip.
ConnectTip(st, b) ==
    IF st.stop THEN st
    ELSE IF b \notin data THEN [st EXCEPT !.stop = TRUE, !.abort = TRUE]
    ELSE IF b \in Corrupt THEN Refused(st, b)
    ELSE IF b \in Invalid THEN InvalidBlockFound(st, b)
    ELSE [st EXCEPT !.tip = b,
                    !.candidates = PruneCandidates(@, b),
                    !.stop = nHeight(b) > Height]

\* ActivateBestChainStep: disconnect to the fork, then connect until the chain
\* is higher than it was.  DisconnectTip fails for a block without data.
ActivateBestChainStep(found) ==
    LET highest == found.found
        above == SelectSeq(Path[tip], LAMBDA b : b \notin Ancestors(highest))
        fork == Last(SelectSeq(Path[tip], LAMBDA b : b \in Ancestors(highest)))
        toConnect == SelectSeq(Path[highest], LAMBDA b : ~InActiveChain(b))
        start == [tip |-> fork, candidates |-> found.candidates,
                  failedValid |-> failedValid,
                  pindexBestInvalid |-> found.pindexBestInvalid,
                  stop |-> FALSE, abort |-> FALSE, fInvalidFound |-> FALSE]
        gone == {i \in DOMAIN above : above[i] \notin data}
    IN  IF gone = {} THEN FoldLeft(ConnectTip, start, toConnect)
        ELSE [start EXCEPT !.tip = above[Max(gone)], !.abort = TRUE]

\* What a step of ActivateBestChain starts from: pindexHighest as it was left
\* by the previous step, or the result of FindHighestChain.
Target(t) ==
    IF pindexHighest[t] = None THEN FindHighestChain
    ELSE Search(pindexHighest[t])

\* ActivateBestChain has nothing to do (any more) and returns.
Return(t, found) ==
    /\ found.found \in {None, tip}
    /\ candidates' = found.candidates
    /\ pindexBestInvalid' = found.pindexBestInvalid
    /\ pc' = [pc EXCEPT ![t] = "idle"]
    /\ pindexHighest' = [pindexHighest EXCEPT ![t] = None]
    /\ UNCHANGED <<tip, failedValid, shutdown>>

\* The condition that ends ActivateBestChain's loop.
OneStep(st, highest) == ~st.fInvalidFound
Arrived(st, highest) == ~st.fInvalidFound /\ st.tip = highest

\* ActivateBestChain makes a step towards found.found; it returns if it got
\* there or if the step failed, and forgets the target if a block was refused.
TakeStep(t, found) ==
    /\ found.found \notin {None, tip}
    /\ \E st \in {ActivateBestChainStep(found)} :
        /\ candidates' = st.candidates
        /\ pindexBestInvalid' = st.pindexBestInvalid
        /\ tip' = st.tip
        /\ failedValid' = st.failedValid
        /\ shutdown' = st.abort
        /\ LET done == st.abort \/ Arrived(st, found.found)
               forget == done \/ st.fInvalidFound
           IN  /\ pc' = [pc EXCEPT ![t] = IF done THEN "idle" ELSE "stepped"]
               /\ pindexHighest' = [pindexHighest EXCEPT ![t] =
                                        IF forget THEN None ELSE found.found]

\* One iteration of ActivateBestChain's loop, by thread t.
Activate(t) ==
    /\ pc[t] # "idle" /\ ~shutdown
    /\ \E found \in {Target(t)} :
        /\ failedChild' = found.failedChild
        /\ unlinked' = found.unlinked
        /\ Return(t, found) \/ TakeStep(t, found)
    /\ UNCHANGED <<treeVars, seqVars, rekeyed, pindexBestHeader, calls>>

-----------------------------------------------------------------------------
(* The RPC commands invalidateblock, reconsiderblock and preciousblock     *)

Calls(t) == pc[t] = "idle" /\ calls < MaxCalls /\ calls' = calls + 1

\* Blocks that InvalidateBlock puts into the set again, with the new tip nt.
NotWorseThanTip(failed, nt) ==
    {b \in linked : b \in processed \ failed /\ ~Worse(b, nt)}

\* InvalidateBlock with cs_main held; Genesis is not given to it.
InvalidateBlock(b) ==
    LET above == {c \in Ancestors(tip) : b \in Ancestors(c)}
        gone == {c \in above : c \notin data}
        stuck == CHOOSE c \in gone : \A g \in gone : nHeight(g) <= nHeight(c)
        newTip == IF above = {} THEN tip ELSE IF gone = {} THEN pprev[b] ELSE stuck
        walked == {c \in above : gone = {} \/ nHeight(c) >= nHeight(stuck)}
        failed == failedValid \cup failedChild \cup walked \cup {b}
    IN  /\ failedValid' = failedValid \cup {b}
        /\ failedChild' = failedChild \cup walked
        /\ tip' = newTip
        /\ shutdown' = (gone # {})
        /\ candidates' = (candidates \ (walked \cup {b}))
                            \cup (IF gone = {} THEN NotWorseThanTip(failed, newTip)
                                  ELSE {})
        /\ pindexBestInvalid' = IF gone = {} THEN BestInvalid(pindexBestInvalid, b)
                                ELSE pindexBestInvalid

invalidateblock(t, b) ==
    /\ Calls(t) /\ ~shutdown /\ b \in index \ {Genesis}
    /\ InvalidateBlock(b)
    /\ pc' = [pc EXCEPT ![t] = IF shutdown' THEN "idle" ELSE "activate"]
    /\ UNCHANGED <<treeVars, seqVars, unlinked, rekeyed, pindexHighest,
                   pindexBestHeader>>

\* ResetBlockFailureFlags with cs_main held.
ResetBlockFailureFlags(b) ==
    LET cleared == {c \in index : Failed(c) /\ b \in Ancestors(c)}
    IN  /\ failedValid' = failedValid \ (cleared \cup Ancestors(b))
        /\ failedChild' = failedChild \ (cleared \cup Ancestors(b))
        /\ candidates' = candidates \cup
               {c \in cleared : c \in processed \cap linked /\ Worse(tip, c)}
        /\ pindexBestInvalid' = IF pindexBestInvalid \in cleared THEN None
                                ELSE pindexBestInvalid

reconsiderblock(t, b) ==
    /\ Calls(t) /\ ~shutdown /\ b \in index
    /\ ResetBlockFailureFlags(b)
    /\ pc' = [pc EXCEPT ![t] = "activate"]
    /\ UNCHANGED <<treeVars, seqVars, unlinked, rekeyed, pindexHighest,
                   pindexBestHeader, tip, shutdown>>

\* PreciousBlock of a block that is not lower than the tip.
preciousblock(t, b) ==
    /\ Calls(t) /\ ~shutdown /\ b \in index /\ nHeight(b) >= Height
    /\ LET counter == IF Height > nLastPreciousHeight THEN -1
                      ELSE nBlockReverseSequenceId
           seq == [nSequenceId EXCEPT ![b] = counter]
       IN  /\ nSequenceId' = seq
           /\ nBlockReverseSequenceId' = counter - 1
           /\ candidates' =
                IF IsValidTransactions(b) /\ b \in linked
                THEN {c \in candidates \cup {b} : ~WorseIn(seq, c, tip)}
                ELSE candidates \ {b}
    /\ nLastPreciousHeight' = Height
    /\ pc' = [pc EXCEPT ![t] = "activate"]
    /\ UNCHANGED <<treeVars, failVars, nBlockSequenceId, unlinked, rekeyed,
                   pindexHighest, pindexBestHeader, tip, shutdown>>

-----------------------------------------------------------------------------
(* Shutdown                                                                *)

StartShutdown ==
    /\ ~shutdown
    /\ shutdown' = TRUE
    /\ UNCHANGED <<treeVars, failVars, seqVars, setVars, threadVars,
                   pindexBestHeader, tip, calls>>

\* The loop of ActivateBestChain ends with a break; what follows it reads the
\* height of pindexNewTip, which is null if there has been no iteration.
BreakLoop(t) ==
    /\ pc[t] \in {"activate", "stepped"} /\ shutdown
    /\ pc' = [pc EXCEPT ![t] = IF @ = "stepped" THEN "idle" ELSE "nulltip"]
    /\ pindexHighest' = [pindexHighest EXCEPT ![t] = None]
    /\ UNCHANGED <<treeVars, failVars, seqVars, setVars, pindexBestHeader, tip,
                   shutdown, calls>>

-----------------------------------------------------------------------------
Init ==
    /\ index = {Genesis} /\ processed = {Genesis} /\ data = {Genesis}
    /\ linked = {Genesis}
    /\ failedValid = {} /\ failedChild = {}
    /\ nSequenceId = [b \in Blocks |-> 0]
    /\ nBlockSequenceId = 1 /\ nBlockReverseSequenceId = -1
    /\ nLastPreciousHeight = -1
    /\ candidates = {Genesis} /\ rekeyed = FALSE
    /\ unlinked = [b \in Blocks |-> <<>>]
    /\ pindexBestInvalid = None /\ pindexBestHeader = Genesis
    /\ tip = Genesis
    /\ pc = [t \in Threads |-> "idle"]
    /\ pindexHighest = [t \in Threads |-> None]
    /\ shutdown = FALSE /\ calls = 0

Deliver(t) ==
    \E b \in Blocks \ {Genesis} :
        \/ ProcessNewBlockHeaders(b)
        \/ \E fRequested \in BOOLEAN : ProcessNewBlock(t, b, fRequested)

Command(t) ==
    \E b \in Blocks : invalidateblock(t, b) \/ preciousblock(t, b)

\* reconsiderblock of a block none of whose ancestors is marked
ReconsiderRoot(t) ==
    \E b \in Blocks : /\ \A a \in Ancestors(b) \ {b} : ~Failed(a)
                      /\ reconsiderblock(t, b)

Next == \E t \in Threads :
            Deliver(t) \/ Activate(t) \/ Command(t) \/ ReconsiderRoot(t)

Spec == Init /\ [][Next]_vars

\* reconsiderblock of any block
AnyReconsiderSpec ==
    Init /\ [][Next \/ \E t \in Threads, b \in Blocks : reconsiderblock(t, b)]_vars

\* A node that prunes
PruningSpec == Init /\ [][Next \/ \E b \in Blocks : PruneOneBlockFile(b)]_vars

\* A node that is asked to stop
ShutdownSpec ==
    Init /\ [][Next \/ StartShutdown \/ \E t \in Threads : BreakLoop(t)]_vars

Fairness == \A t \in Threads : WF_vars(Activate(t))
FairSpec == Spec /\ Fairness

-----------------------------------------------------------------------------
(* Properties                                                              *)

TypeOK ==
    /\ index \subseteq Blocks /\ processed \subseteq index
    /\ data \subseteq processed /\ linked \subseteq processed
    /\ failedValid \subseteq index /\ failedChild \subseteq index
    /\ nSequenceId \in [Blocks -> -MaxCalls .. MaxSequence + Cardinality(Blocks)]
    /\ candidates \subseteq index
    /\ unlinked \in [Blocks -> Seq(index)] /\ rekeyed \in BOOLEAN
    /\ pindexBestInvalid \in index \cup {None} /\ pindexBestHeader \in index
    /\ tip \in linked
    /\ pc \in [Threads -> {"idle", "activate", "stepped", "nulltip"}]
    /\ pindexHighest \in [Threads -> index \cup {None}]
    /\ shutdown \in BOOLEAN /\ calls \in 0 .. MaxCalls

InvalidAncestor(b) == Ancestors(b) \cap failedValid # {}
AllData(b) == Ancestors(b) \subseteq data
Entries(b) == IF b = Genesis THEN <<>> ELSE unlinked[pprev[b]]
InUnlinked(b) == b \in ToSet(Entries(b))

\* The assertions of CheckBlockIndex on the marks of a block.
MarksChecked(b) ==
    /\ b \notin linked => nSequenceId[b] <= 0
    /\ b \in linked <=> Ancestors(b) \subseteq processed
    /\ Failed(b) => InvalidAncestor(b)

\* The assertions of CheckBlockIndex on setOfBlockIndexCandidates.
CandidateChecked(b) ==
    IF b \in linked /\ ~Worse(b, tip)
    THEN ~InvalidAncestor(b) /\ (AllData(b) \/ b = tip) => b \in candidates
    ELSE b \notin candidates

\* The assertions of CheckBlockIndex on mapBlocksUnlinked.
UnlinkedChecked(b) ==
    /\ b \in data /\ b \notin linked /\ ~InvalidAncestor(b) => InUnlinked(b)
    /\ InUnlinked(b) => b \in data /\ ~AllData(b)
    /\ /\ b \in data \cap linked /\ ~AllData(b)
       /\ ~Worse(b, tip) /\ b \notin candidates /\ ~InvalidAncestor(b)
       => InUnlinked(b)

CheckBlockIndex ==
    \A b \in index : MarksChecked(b) /\ CandidateChecked(b) /\ UnlinkedChecked(b)

\* CheckBlockIndex's assertions hold wherever the code evaluates them: after a
\* header or a block was accepted and when ActivateBestChain returns.  The types
\* hold always.
IndexConsistent ==
    /\ TypeOK
    /\ ~shutdown /\ (\A t \in Threads : pc[t] # "stepped") => CheckBlockIndex

\* When ActivateBestChain has returned, no block that could be activated is
\* better than the tip, and nothing in the active chain is marked as failed.
BestChainActivated ==
    ~shutdown /\ (\A t \in Threads : pc[t] = "idle") =>
        /\ \A b \in linked : AllData(b) /\ ~InvalidAncestor(b)
                               => ~Worse(tip, b)
        /\ \A b \in Ancestors(tip) : ~Failed(b)

\* The key of a member of a std::set must not change: no block gets another
\* sequence id while it is in setOfBlockIndexCandidates.
KeysStable == ~rekeyed

\* preciousblock treats the block as if it came before the others of its
\* height, whatever earlier calls of it have done.
PreciousComesFirst ==
    [][\A t \in Threads, b \in linked :
          preciousblock(t, b) =>
              \A c \in linked \ {b} :
                  nHeight(c) = nHeight(b) => WorseIn(nSequenceId', c, b)]_vars

\* ActivateBestChain does not use pindexNewTip before it has a value.
NoNullTip == \A t \in Threads : pc[t] # "nulltip"

\* Every call of ActivateBestChain returns.
ActivationEnds ==
    \A t \in Threads : pc[t] # "idle" ~> pc[t] = "idle"
=============================================================================
