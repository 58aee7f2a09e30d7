--------------------------- MODULE BlockDownload ---------------------------
(***************************************************************************)
(* How blocks are fetched from peers (net_processing.cpp): which block is  *)
(* asked of whom, the books kept of it in mapBlocksInFlight and in every   *)
(* CNodeInfo, and what happens when answers are late, come twice, come     *)
(* unasked or never, or a peer goes away.                                  *)
(*                                                                         *)
(* Messages are handled one at a time under cs_main by the message thread; *)
(* FinalizeNode runs in the socket thread, and blocks of the node's own    *)
(* come from others.  Every block is valid.  Clocks are left out: what     *)
(* depends on the age of the tip or of a request may go either way.        *)
(***************************************************************************)
EXTENDS Integers, Sequences, FiniteSetsExt

CONSTANTS
    Blocks, Genesis, Parent,          \* the tree of blocks
    Peers, PeerTip,                   \* connections, and the chain each is on
    Answering,                        \* the peers that answer in time and stay
    Preferred,                        \* outbound or whitelisted
    BLOCK_DOWNLOAD_WINDOW,
    MAX_BLOCKS_IN_TRANSIT_PER_PEER,
    banscore,                         \* in messages that cannot be read
    None

ASSUME TreeAssumption ==
    /\ Genesis \in Blocks /\ Parent \in [Blocks \ {Genesis} -> Blocks]
    /\ \A S \in SUBSET (Blocks \ {Genesis}) : S # {} => \E b \in S : Parent[b] \notin S
ASSUME PeerAssumption ==
    IsFiniteSet(Peers) /\ PeerTip \in [Peers -> Blocks] /\ Answering \subseteq Peers
ASSUME BoundAssumption ==
    /\ BLOCK_DOWNLOAD_WINDOW \in Nat /\ MAX_BLOCKS_IN_TRANSIT_PER_PEER \in Nat
    /\ banscore \in Nat \ {0}

Path[b \in Blocks] == IF b = Genesis THEN <<b>> ELSE Append(Path[Parent[b]], b)
ChainTo == [b \in Blocks |-> Range(Path[b])]
nHeight == [b \in Blocks |-> Len(Path[b]) - 1]

VARIABLES
    index, data, tip,   \* mapBlockIndex, BLOCK_DATA_EXISTS, chainActive.Tip()
    books,              \* what FinalizeNode and the two Mark functions change
    asked,              \* per peer: the unanswered getdata and getblocktxn
    gone                \* connections that are over

vars == <<index, data, tip, books, asked, gone>>

(* books.node[p] is p's CNodeInfo, or None.  All callers of MarkBlockAsInFlight
   give it the index entry, so nBlocksInFlightValidHeaders is nBlocksInFlight. *)
NodeInfo == [pindexBestKnownBlock : Blocks \cup {None}, hashLastUnknownBlock : Blocks \cup {None},
             pindexLastCommonBlock : Blocks \cup {None},
             fPreferredDownload : BOOLEAN, nStallingSince : BOOLEAN, nBlocksInFlight : Nat,
             vBlocksInFlight : Seq([hash : Blocks, partialBlock : BOOLEAN]),
             nMisbehavior : 0..banscore, fDisconnect : BOOLEAN]
ASSUME NoneAssumption == None \notin NodeInfo \cup Blocks \cup Peers

NewInfo == [pindexBestKnownBlock |-> None, hashLastUnknownBlock |-> None, pindexLastCommonBlock |-> None,
            fPreferredDownload |-> FALSE, nStallingSince |-> FALSE, nBlocksInFlight |-> 0, vBlocksInFlight |-> <<>>,
            nMisbehavior |-> 0, fDisconnect |-> FALSE]

Books == [node : [Peers -> NodeInfo \cup {None}], mapBlocksInFlight : [Blocks -> Peers \cup {None}],
          nPeersWithValidatedDownloads : Nat, nPreferredDownload : Nat]

TypeOK ==
    /\ data \subseteq index /\ index \subseteq Blocks /\ tip \in data
    /\ books \in Books
    /\ asked \in [Peers -> SUBSET (Blocks \X {"block", "txn"})]
    /\ gone \subseteq Peers

Init ==
    /\ index = {Genesis} /\ data = {Genesis} /\ tip = Genesis
    /\ books = [node |-> [p \in Peers |-> None],
                mapBlocksInFlight |-> [b \in Blocks |-> None],
                nPeersWithValidatedDownloads |-> 0, nPreferredDownload |-> 0]
    /\ asked = [p \in Peers |-> {}] /\ gone = {}

----------------------------------------------------------------------------
(* The books *)

info(p) == books.node[p]
Connected(p) == info(p) # None /\ ~info(p).fDisconnect

CountWithout(bk, p) ==
    bk.nPeersWithValidatedDownloads - (IF bk.node[p].nBlocksInFlight = 1 THEN 1 ELSE 0)

\* The queue without b's entry, to which mapBlocksInFlight has an iterator.
Erased(queue, b) ==
    LET i == CHOOSE k \in DOMAIN queue : queue[k].hash = b
    IN  SubSeq(queue, 1, i - 1) \o SubSeq(queue, i + 1, Len(queue))

StallKept(i) == i.nStallingSince
StallAfterReceipt(i) == FALSE

\* What becomes of a peer's entry in the two Mark functions.
Received(i, b) ==
    [i EXCEPT !.vBlocksInFlight = Erased(@, b), !.nBlocksInFlight = @ - 1,
              !.nStallingSince = StallAfterReceipt(i)]
Awaiting(i, b, partial) ==
    [i EXCEPT !.vBlocksInFlight = Append(@, [hash |-> b, partialBlock |-> partial]),
              !.nBlocksInFlight = @ + 1]

MarkBlockAsReceived(bk, b) ==
    LET p == bk.mapBlocksInFlight[b]
    IN  IF p = None THEN bk
        ELSE [bk EXCEPT
                !.node[p] = Received(@, b),
                !.mapBlocksInFlight[b] = None,
                !.nPeersWithValidatedDownloads = CountWithout(bk, p)]

MarkBlockAsInFlight(bk, p, b, partial) ==
    IF bk.mapBlocksInFlight[b] = p THEN bk
    ELSE LET st == MarkBlockAsReceived(bk, b)
         IN  [st EXCEPT
                !.node[p] = Awaiting(@, b, partial),
                !.nPeersWithValidatedDownloads = @ + IF st.node[p].nBlocksInFlight = 0 THEN 1 ELSE 0,
                !.mapBlocksInFlight[b] = p]

\* The better of the best known block and another.
BetterKnown(best, b) == IF best = None THEN b ELSE IF nHeight[b] >= nHeight[best] THEN b ELSE best

\* ProcessBlockAvailability, with the headers idx.
ProcessBlockAvailability(bk, p, idx) ==
    LET i == bk.node[p]
        best == BetterKnown(i.pindexBestKnownBlock, i.hashLastUnknownBlock)
    IN  IF i.hashLastUnknownBlock \notin idx THEN bk
        ELSE [bk EXCEPT !.node[p] = [i EXCEPT !.pindexBestKnownBlock = best, !.hashLastUnknownBlock = None]]

UpdateBlockAvailability(bk, p, b, idx) ==
    LET st == ProcessBlockAvailability(bk, p, idx)
    IN  IF b \in idx THEN [st EXCEPT !.node[p].pindexBestKnownBlock = BetterKnown(@, b)]
        ELSE [st EXCEPT !.node[p].hashLastUnknownBlock = b]

----------------------------------------------------------------------------
(* Connections *)

\* InitializeNode, and the version message with UpdatePreferredDownload.
Connect(p) ==
    /\ info(p) = None /\ p \notin gone
    /\ books' = [books EXCEPT !.node[p] = [NewInfo EXCEPT !.fPreferredDownload = p \in Preferred],
                              !.nPreferredDownload = @ + IF p \in Preferred THEN 1 ELSE 0]
    /\ UNCHANGED <<index, data, tip, asked, gone>>

One(cond) == IF cond THEN 1 ELSE 0

HadDownloads(p) == info(p).nBlocksInFlight # 0

\* The blocks that FinalizeNode erases from mapBlocksInFlight.
NotErased(p) == {}
ErasedWith(p) == {q.hash : q \in Range(info(p).vBlocksInFlight)}

\* The connection is closed by either side.
FinalizeNode(p) ==
    /\ info(p) # None
    /\ p \in Answering => info(p).fDisconnect
    /\ books' = [node |-> [books.node EXCEPT ![p] = None],
                 mapBlocksInFlight |-> [b \in Blocks |->
                     IF b \in ErasedWith(p) THEN None ELSE books.mapBlocksInFlight[b]],
                 nPeersWithValidatedDownloads |->
                     books.nPeersWithValidatedDownloads - One(HadDownloads(p)),
                 nPreferredDownload |-> books.nPreferredDownload - One(info(p).fPreferredDownload)]
    /\ asked' = [asked EXCEPT ![p] = {}] /\ gone' = gone \cup {p}
    /\ UNCHANGED <<index, data, tip>>

----------------------------------------------------------------------------
(* Blocks *)

\* ActivateBestChain: the highest chain with data, the old one among equals.
BestTips(d) ==
    LET linked == {b \in d : ChainTo[b] \subseteq d}
        highest == {b \in linked : \A c \in linked : nHeight[c] <= nHeight[b]}
    IN  IF tip \in highest THEN {tip} ELSE highest

\* ProcessNewBlock of b, with the header when its parent is known.
ProcessNewBlock(b, forced) ==
    IF b \in index \/ Parent[b] \in index
    THEN /\ index' = index \cup {b}
         /\ data' = IF forced \/ nHeight[b] > nHeight[tip] THEN data \cup {b} ELSE data
         /\ tip' \in BestTips(data')
    ELSE UNCHANGED <<index, data, tip>>

\* A block message: the answer to a getdata, perhaps a late one, or unasked.
Block(p, b) ==
    /\ Connected(p) /\ b \in ChainTo[PeerTip[p]] \ {Genesis}
    /\ asked' = [asked EXCEPT ![p] = @ \ {<<b, "block">>}]
    /\ books' = MarkBlockAsReceived(books, b)
    /\ ProcessNewBlock(b, books.mapBlocksInFlight[b] # None)
    /\ UNCHANGED gone

\* A block comes from elsewhere: it is mined, or submitted.
SubmitBlock(b) ==
    /\ b \notin data /\ Parent[b] \in data
    /\ ProcessNewBlock(b, TRUE)
    /\ UNCHANGED <<books, asked, gone>>

----------------------------------------------------------------------------
(* Headers and invs *)

\* The blocks of s that are in T, in the order of s.
Selected(s, T) ==
    LET first[n \in 0 .. Len(s)] ==
            IF n = 0 THEN <<>> ELSE IF s[n] \in T THEN Append(first[n - 1], s[n]) ELSE first[n - 1]
    IN  first[Len(s)]
\* The same as one value, which TLC evaluates once.
Within(s, T) == CHOOSE r \in {Selected(q, T) : q \in {s}} : TRUE

\* The last MAX + 1 blocks on the way to b that are missing and not in flight.
Missing(b, bk) ==
    LET all == Within(Path[b], {c \in Blocks \ data : bk.mapBlocksInFlight[c] = None})
        n == Len(all)
        most == MAX_BLOCKS_IN_TRANSIT_PER_PEER + 1
    IN  IF n > most THEN SubSeq(all, n - most + 1, n) ELSE all
LargeReorg(missing) ==
    Len(missing) > MAX_BLOCKS_IN_TRANSIT_PER_PEER /\ Parent[Head(missing)] \notin ChainTo[tip]

\* The first blocks of s for which p has room.
WithinTransit(bk, p, s) ==
    LET room == MAX_BLOCKS_IN_TRANSIT_PER_PEER - bk.node[p].nBlocksInFlight
    IN  IF room <= 0 THEN <<>> ELSE SubSeq(s, 1, Min({room, Len(s)}))

\* The loop that marks the blocks of s one after the other.
AllInFlight(bk, p, s) ==
    LET after[n \in 0 .. Len(s)] ==
            IF n = 0 THEN bk ELSE MarkBlockAsInFlight(after[n - 1], p, s[n], FALSE)
    IN  after[Len(s)]

GetData(p, s) == [asked EXCEPT ![p] = @ \cup {<<b, "block">> : b \in Range(s)}]

\* What is requested at once when the headers up to b were accepted.
DirectFetch(bk, b, canDirectFetch) ==
    LET missing == Missing(b, bk)
    IN  IF ~canDirectFetch \/ nHeight[tip] > nHeight[b] \/ LargeReorg(missing)
        THEN <<>> ELSE missing

\* The second part of the headers handler.
HeadersAccepted(p, b, idx) ==
    \E canDirectFetch \in BOOLEAN :
    LET bk == UpdateBlockAvailability(books, p, b, idx)
        fetch == WithinTransit(bk, p, DirectFetch(bk, b, canDirectFetch))
    IN  /\ books' = AllInFlight(bk, p, fetch)
        /\ asked' = GetData(p, fetch)

\* A headers message with the headers from first to last.
Headers(p, first, last) ==
    /\ Connected(p)
    /\ last \in ChainTo[PeerTip[p]] /\ first \in ChainTo[last] \ {Genesis}
    /\ IF Parent[first] \notin index
       THEN /\ books' = UpdateBlockAvailability(books, p, last, index)
            /\ UNCHANGED <<index, asked>>
       ELSE /\ index' = index \cup (ChainTo[last] \ ChainTo[Parent[first]])
            /\ HeadersAccepted(p, last, index')
    /\ UNCHANGED <<data, tip, gone>>

Inv(p, b) ==
    /\ Connected(p) /\ b \in ChainTo[PeerTip[p]]
    /\ books' = UpdateBlockAvailability(books, p, b, index)
    /\ UNCHANGED <<index, data, tip, asked, gone>>

----------------------------------------------------------------------------
(* Compact blocks *)

\* FillBlock gave the whole block: the end of the blocktxn handler.
Completed(bk, b) == books' = MarkBlockAsReceived(bk, b) /\ ProcessNewBlock(b, TRUE)

Ask(p, b, what) == asked' = [asked EXCEPT ![p] = @ \cup {<<b, what>>}]
HasPartial(bk, p, b) == \E q \in Range(bk.node[p].vBlocksInFlight) : q.hash = b /\ q.partialBlock
WithPartial(bk, p, b) ==
    LET queue == bk.node[p].vBlocksInFlight
    IN  [bk EXCEPT !.node[p].vBlocksInFlight = [k \in DOMAIN queue |->
            [hash |-> queue[k].hash, partialBlock |-> queue[k].partialBlock \/ queue[k].hash = b]]]

\* Misbehaving, and SendRejectsAndCheckIfBanned at the end of ProcessMessages.
Misbehaving(bk, p) ==
    LET i == bk.node[p]
        n == i.nMisbehavior + 1
    IN  [bk EXCEPT !.node[p] = [i EXCEPT !.nMisbehavior = n, !.fDisconnect = n = banscore]]

\* READ_STATUS_INVALID, for the message of a peer that is not to be relied on.
Unreadable(p, bk, b) ==
    /\ p \notin Answering /\ UNCHANGED <<data, tip>>
    /\ books' = Misbehaving(MarkBlockAsReceived(bk, b), p)

\* The block is near the tip, and p is the one to have it from: the pool
\* yields all, some or, if short ids collide, none of its transactions.
Reconstruct(p, b, bk) ==
    LET st == WithPartial(MarkBlockAsInFlight(bk, p, b, TRUE), p, b)
    IN  IF HasPartial(bk, p, b)
        THEN books' = bk /\ index' = index \cup {b} /\ UNCHANGED <<data, tip, asked>>
        ELSE \/ Completed(st, b) /\ UNCHANGED asked
             \/ /\ books' = st /\ index' = index \cup {b} /\ UNCHANGED <<data, tip>>
                /\ \E what \in {"block", "txn"} : Ask(p, b, what)
             \/ /\ Unreadable(p, st, b) /\ index' = index \cup {b} /\ UNCHANGED asked

CompactBlock(p, b) ==
    /\ Connected(p) /\ b \in ChainTo[PeerTip[p]] \ {Genesis} /\ Parent[b] \in index
    /\ LET idx == index \cup {b}
           bk == UpdateBlockAvailability(books, p, b, idx)
           owner == bk.mapBlocksInFlight[b]
           noted == books' = bk /\ index' = idx /\ UNCHANGED <<data, tip>>
       IN  CASE b \in data -> noted /\ UNCHANGED asked
             [] b \notin data /\ nHeight[b] <= nHeight[tip] ->
                   noted /\ IF owner # None THEN Ask(p, b, "block") ELSE UNCHANGED asked
             [] nHeight[b] > nHeight[tip] + 2 /\ b \notin data ->
                   \/ owner # None /\ noted /\ Ask(p, b, "block")
                   \/ owner = None /\ noted /\ UNCHANGED asked
                   \/ owner = None /\ index' = idx /\ HeadersAccepted(p, b, idx) /\ UNCHANGED <<data, tip>>
             [] OTHER ->
                   \/ owner = None /\ noted /\ UNCHANGED asked
                   \/ /\ owner = p \/ (owner = None /\ bk.node[p].nBlocksInFlight < MAX_BLOCKS_IN_TRANSIT_PER_PEER)
                      /\ Reconstruct(p, b, bk)
                   \/ /\ owner # p /\ (owner # None \/ bk.node[p].nBlocksInFlight >= MAX_BLOCKS_IN_TRANSIT_PER_PEER)
                      /\ (noted \/ Completed(bk, b)) /\ UNCHANGED asked
    /\ UNCHANGED gone

\* Short ids may have collided: the whole block is asked for.
NoFallback(a, p, b) == a
FallBack(a, p, b) == [a EXCEPT ![p] = @ \cup {<<b, "block">>}]

\* The transactions asked for with getblocktxn, perhaps late.
BlockTxn(p, b) ==
    /\ Connected(p) /\ <<b, "txn">> \in asked[p]
    /\ LET answered == [asked EXCEPT ![p] = @ \ {<<b, "txn">>}]
       IN  IF books.mapBlocksInFlight[b] = p /\ HasPartial(books, p, b)
           THEN \/ Completed(books, b) /\ asked' = answered
                \/ /\ asked' = FallBack(answered, p, b)
                   /\ UNCHANGED <<index, data, tip, books>>
                \/ Unreadable(p, books, b) /\ asked' = answered /\ UNCHANGED index
           ELSE asked' = answered /\ UNCHANGED <<index, data, tip, books>>
    /\ UNCHANGED gone

----------------------------------------------------------------------------
(* SendMessages *)

LastCommonAncestor(a, b) ==
    CHOOSE c \in ChainTo[a] \cap ChainTo[b] :
        \A d \in ChainTo[a] \cap ChainTo[b] : nHeight[d] <= nHeight[c]

\* The blocks of walk to ask for, and who holds up the rest: the sender of the
\* first one in flight, if only the window keeps p from asking for a block.
FetchFrom(p, walk, windowEnd, count) ==
    LET lacking == Blocks \ (data \cup ChainTo[tip])
        free == Within(walk, {b \in lacking : books.mapBlocksInFlight[b] = None})
        inWindow == Within(free, {b \in lacking : nHeight[b] <= windowEnd})
        awaited == Within(walk, {b \in lacking : books.mapBlocksInFlight[b] # None})
        waitingfor == IF awaited = <<>> THEN None ELSE books.mapBlocksInFlight[Head(awaited)]
    IN  [blocks |-> SubSeq(inWindow, 1, Min({count, Len(inWindow)})),
         staller |-> IF inWindow = <<>> /\ free # <<>> /\ waitingfor # p THEN waitingfor ELSE None]

\* The last of the blocks, in the order of the chain, that came with all before.
LastLinked(common, walk) ==
    LET linked == Within(walk, {b \in Blocks : ChainTo[b] \subseteq data})
    IN  IF linked = <<>> THEN common ELSE linked[Len(linked)]

\* The walk from the last common block on the way to the best known one.
FoundAfter(p, common, best, count) ==
    LET windowEnd == nHeight[common] + BLOCK_DOWNLOAD_WINDOW
        walk == SubSeq(Path[best], nHeight[common] + 2, Min({nHeight[best], windowEnd + 1}) + 1)
        fetch == FetchFrom(p, walk, windowEnd, count)
    IN  [common |-> LastLinked(common, walk), blocks |-> fetch.blocks, staller |-> fetch.staller]

\* FindNextBlocksToDownload, with availability up to date in the entry i of p.
FindNextBlocksToDownload(p, i, count) ==
    LET best == i.pindexBestKnownBlock
        guess == IF i.pindexLastCommonBlock # None THEN i.pindexLastCommonBlock
                 ELSE Path[tip][Min({nHeight[best], nHeight[tip]}) + 1]
    IN  IF best = None \/ nHeight[best] < nHeight[tip]
        THEN [common |-> i.pindexLastCommonBlock, blocks |-> <<>>, staller |-> None]
        ELSE CHOOSE found \in {FoundAfter(p, common, best, count) : common \in {LastCommonAncestor(guess, best)}} : TRUE

\* A stall or a request has lasted too long.
OnlyStalls(p) == info(p).nStallingSince
Overdue(p) == info(p).nStallingSince \/ info(p).nBlocksInFlight > 0

SendMessagesTimesOut(p) ==
    /\ Connected(p) /\ p \notin Answering /\ Overdue(p)
    /\ UNCHANGED <<index, data, tip, asked, gone>>
    /\ books' = [books EXCEPT !.node[p].fDisconnect = TRUE]

\* Getdata for blocks, and the mark on who holds the download up.
Requested(bk, p, found) ==
    LET st == AllInFlight([bk EXCEPT !.node[p].pindexLastCommonBlock = found.common], p, found.blocks)
    IN  IF st.node[p].nBlocksInFlight = 0 /\ found.staller # None
        THEN [st EXCEPT !.node[found.staller].nStallingSince = TRUE] ELSE st

\* During the initial download only a peer with fFetch is asked; since that may
\* be over or not, SendMessages has no guard of it, but only with fFetch is it fair.
fFetch(p) == info(p).fPreferredDownload \/ books.nPreferredDownload = 0

SendMessages(p) ==
    /\ Connected(p) /\ UNCHANGED <<index, data, tip, gone>>
    /\ info(p).nBlocksInFlight < MAX_BLOCKS_IN_TRANSIT_PER_PEER
    /\ \E bk \in {ProcessBlockAvailability(books, p, index)} :
       \E found \in {FindNextBlocksToDownload(
                        p, bk.node[p], MAX_BLOCKS_IN_TRANSIT_PER_PEER - info(p).nBlocksInFlight)} :
          books' \in {Requested(bk, p, found)} /\ asked' = GetData(p, found.blocks)

----------------------------------------------------------------------------
\* An answering peer announces its chain and sends what was asked of it; the
\* others send what they like.
Answers(p) ==
    \/ \E b \in Blocks : <<b, "block">> \in asked[p] /\ Block(p, b)
    \/ \E b \in Blocks : BlockTxn(p, b)
Announces(p) ==
    /\ info(p) # None /\ info(p).pindexBestKnownBlock # PeerTip[p]
    /\ \/ \E first \in Blocks : Headers(p, first, PeerTip[p])
       \/ CompactBlock(p, PeerTip[p])
Message(p) ==
    \/ \E b \in Blocks : Block(p, b) \/ Inv(p, b) \/ CompactBlock(p, b) \/ BlockTxn(p, b)
    \/ \E first, last \in Blocks : Headers(p, first, last)

Next ==
    \/ \E p \in Peers : Connect(p) \/ SendMessagesTimesOut(p) \/ SendMessages(p) \/ FinalizeNode(p)
    \/ \E p \in Answering : Answers(p) \/ Announces(p)
    \/ \E p \in Peers \ Answering : Message(p)
    \/ \E b \in Blocks \ {Genesis} : SubmitBlock(b)

FlaggedGoes(p) == info(p) # None /\ info(p).fDisconnect /\ FinalizeNode(p)

\* The message thread comes to each peer again and again, and clocks go on.
Fairness ==
    /\ \A p \in Peers \ Answering : WF_vars(SendMessagesTimesOut(p) \/ FlaggedGoes(p))
    /\ \A p \in Answering : WF_vars(SendMessages(p) /\ fFetch(p)) /\ WF_vars(Answers(p)) /\ WF_vars(Announces(p))

Spec == Init /\ [][Next]_vars
FairSpec == Spec /\ Fairness

----------------------------------------------------------------------------
\* mapBlocksInFlight and the queues of the peers name each other: a block in
\* flight is in the queue of the one peer that is said to send it, which is still
\* connected, and the counters agree with the queues.  FinalizeNode asserts it of
\* the last peer, and the pointers and iterators of the map rely on it.
InFlightConsistent ==
    /\ TypeOK
    /\ \A b \in Blocks, p \in Peers :
          books.mapBlocksInFlight[b] = p <=>
             info(p) # None /\ \E q \in Range(info(p).vBlocksInFlight) : q.hash = b
    /\ \A p \in Peers : info(p) # None =>
          /\ info(p).nBlocksInFlight = Len(info(p).vBlocksInFlight)
          /\ Cardinality({q.hash : q \in Range(info(p).vBlocksInFlight)}) = info(p).nBlocksInFlight
          /\ info(p).nBlocksInFlight <= MAX_BLOCKS_IN_TRANSIT_PER_PEER
    /\ books.nPeersWithValidatedDownloads
          = Cardinality({p \in Peers : info(p) # None /\ info(p).nBlocksInFlight > 0})
    /\ books.nPreferredDownload
          = Cardinality({p \in Peers : info(p) # None /\ info(p).fPreferredDownload})

\* A block is in flight from a peer only while a request to that peer is open
\* whose answer will be taken for it: nothing waits for what nobody was asked.
EveryFlightAsked ==
    \A b \in Blocks : books.mapBlocksInFlight[b] # None =>
        LET p == books.mapBlocksInFlight[b]
        IN  <<b, "block">> \in asked[p] \/ (<<b, "txn">> \in asked[p] /\ HasPartial(books, p, b))

\* A peer is held to be stalling only while it owes a block: one that has sent
\* everything is not disconnected for the time others took.
StallerOwes ==
    \A p \in Peers : info(p) # None /\ info(p).nStallingSince => info(p).nBlocksInFlight > 0

\* While a preferred peer that answers is connected, its chain is downloaded,
\* though others hold blocks back, time out, or go.
Downloads ==
    \A p \in Answering \cap Preferred : info(p) # None ~> nHeight[tip] >= nHeight[PeerTip[p]]
=============================================================================
