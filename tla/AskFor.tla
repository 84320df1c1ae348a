------------------------------- MODULE AskFor -------------------------------
(***************************************************************************)
(* How a node fetches what its peers announce: the "inv" message,          *)
(* CNode::AskFor, the getdata loop of SendMessages, and the arrival of the *)
(* block or transaction, which may be an orphan.                           *)
(*                                                                         *)
(* mapAlreadyAskedFor is shared by all peers: AskFor sets an object's time *)
(* two minutes after the last one, queues it with the peer that announced  *)
(* it, and the getdata loop of that peer sets the time back to the moment  *)
(* of the request.  An entry leaves its queue when it is due, whether or   *)
(* not the peer answers.                                                   *)
(*                                                                         *)
(* Times are relative to now, in ticks.  A time of mapAlreadyAskedFor that *)
(* is Retry or more in the past acts as none at all, an entry of mapAskFor *)
(* that is in the past is due.  Equal entries of one queue count as one.   *)
(*                                                                         *)
(* All objects are valid; a proof-of-stake block is refused all the same   *)
(* while its stake is one that the node has seen and no orphan waits for   *)
(* it.  The node is past its initial download.                             *)
(***************************************************************************)
EXTENDS Integers, FiniteSets

CONSTANTS
    Peer,
    Honest,     \* peers that stay connected and answer every getdata
    Block, Tx,  \* the objects
    Needs,      \* object -> the object without which it is an orphan
    Nothing,
    Has,        \* peer -> the objects that it announces, and can answer with
    Stake,      \* CBlock::GetProofOfStake
    NoStake,    \* that of a proof-of-work block
    Retry,      \* two minutes
    MaxAsks     \* object -> bound on the requests that announcements queue for it

Inv == Block \cup Tx

ASSUME AskForAssumption ==
    /\ Honest \subseteq Peer
    /\ Block \cap Tx = {}
    /\ Nothing \notin Inv
    /\ Needs \in [Inv -> Inv \cup {Nothing}]
    /\ \A b \in Block : Needs[b] \notin Tx
    /\ Has \in [Peer -> SUBSET Inv]
    /\ \A p \in Honest, b \in Block : b \in Has[p] => Needs[b] \in Has[p] \cup {Nothing}
    /\ Retry \in Nat \ {0}
    /\ MaxAsks \in [Inv -> Nat]

VARIABLES
    connected,
    mapAlreadyAskedFor,
    mapAskFor,     \* peer -> {<<object, earliest time of the request>>}
    requested,     \* {<<peer, object>>}: getdata sent and not answered
    getblocks,     \* peers to which a getblocks was sent
    have,          \* indexed blocks, and transactions of the pool or the chain
    orphans,
    orphanFrom,    \* the peer that an orphan block came from
    setStakeSeenOrphan,
    nAsks

vars == <<connected, mapAlreadyAskedFor, mapAskFor, requested, getblocks, have, orphans,
          orphanFrom, setStakeSeenOrphan, nAsks>>

peerVars == <<connected, requested, getblocks>>
heldVars == <<have, orphans, orphanFrom, setStakeSeenOrphan>>

Latest(x, y) == IF x >= y THEN x ELSE y

Init ==
    /\ connected = Peer
    /\ mapAlreadyAskedFor = [i \in Inv |-> -Retry]
    /\ mapAskFor = [p \in Peer |-> {}]
    /\ requested = {}
    /\ getblocks = {}
    /\ have = {}
    /\ orphans = {}
    /\ orphanFrom = [b \in Block |-> Nothing]
    /\ setStakeSeenOrphan = {}
    /\ nAsks = [i \in Inv |-> 0]

AlreadyHave(i) == i \in have \cup orphans

-----------------------------------------------------------------------------
(* Announcements.                                                          *)

RequestTime(i) == Latest(mapAlreadyAskedFor[i] + Retry, 0)

\* Mutant: an object that the peer has in its queue is not queued again.
AskForAllOnce(p, S) ==
    /\ mapAlreadyAskedFor' = [i \in Inv |-> IF i \in S THEN RequestTime(i) ELSE mapAlreadyAskedFor[i]]
    /\ mapAskFor' = [mapAskFor EXCEPT ![p] = @ \cup
                        {<<i, RequestTime(i)>> : i \in S \ {e[1] : e \in mapAskFor[p]}}]
    /\ nAsks' = [i \in Inv |-> IF i \in S THEN nAsks[i] + 1 ELSE nAsks[i]]

\* CNode::AskFor for each object of S.
AskForAll(p, S) ==
    /\ mapAlreadyAskedFor' = [i \in Inv |-> IF i \in S THEN RequestTime(i) ELSE mapAlreadyAskedFor[i]]
    /\ mapAskFor' = [mapAskFor EXCEPT ![p] = @ \cup {<<i, RequestTime(i)>> : i \in S}]
    /\ nAsks' = [i \in Inv |-> IF i \in S THEN nAsks[i] + 1 ELSE nAsks[i]]

\* An object of an "inv" message.  For an orphan block that is announced again the peer
\* is asked for the blocks before it, for the last block of the message, if it is there,
\* for the blocks after it.
ReceiveInv(p, i) ==
    /\ p \in connected
    /\ i \in Has[p]
    /\ \/ /\ ~AlreadyHave(i)
          /\ nAsks[i] < MaxAsks[i]
          /\ AskForAll(p, {i})
          /\ UNCHANGED getblocks
       \/ /\ i \in Block
          /\ AlreadyHave(i)
          /\ getblocks' = getblocks \cup {p}
          /\ UNCHANGED <<mapAlreadyAskedFor, mapAskFor, nAsks>>
    /\ UNCHANGED <<connected, requested, heldVars>>

\* The peer announces the blocks of its chain that the node lacks.
AnswerGetBlocks(p) ==
    /\ p \in getblocks \cap connected
    /\ AskForAll(p, {b \in Block \cap Has[p] : ~AlreadyHave(b) /\ nAsks[b] < MaxAsks[b]})
    /\ getblocks' = getblocks \ {p}
    /\ UNCHANGED <<connected, requested, heldVars>>

-----------------------------------------------------------------------------
(* Requests.                                                               *)

Due(p) == {e \in mapAskFor[p] : e[2] <= 0}

\* Mutant: an object for which a later request is queued is left to that one.
SendMessagesSkips(p) ==
    LET wanted == {e[1] : e \in Due(p)} \ (have \cup orphans)
        sent   == {i \in wanted : mapAlreadyAskedFor[i] <= 0}
    IN  /\ p \in connected
        /\ Due(p) # {}
        /\ requested' = requested \cup {<<p, i>> : i \in sent}
        /\ mapAlreadyAskedFor' = [i \in Inv |-> IF i \in sent THEN 0 ELSE mapAlreadyAskedFor[i]]
        /\ mapAskFor' = [mapAskFor EXCEPT ![p] = @ \ Due(p)]
        /\ UNCHANGED <<connected, getblocks, heldVars, nAsks>>

\* The getdata loop of SendMessages.
SendMessages(p) ==
    LET sent == {e[1] : e \in Due(p)} \ (have \cup orphans)
    IN  /\ p \in connected
        /\ Due(p) # {}
        /\ requested' = requested \cup {<<p, i>> : i \in sent}
        /\ mapAlreadyAskedFor' = [i \in Inv |-> IF i \in sent THEN 0 ELSE mapAlreadyAskedFor[i]]
        /\ mapAskFor' = [mapAskFor EXCEPT ![p] = @ \ Due(p)]
        /\ UNCHANGED <<connected, getblocks, heldVars, nAsks>>

Tick ==
    /\ mapAlreadyAskedFor' = [i \in Inv |-> Latest(mapAlreadyAskedFor[i] - 1, -Retry)]
    /\ mapAskFor' = [p \in Peer |-> {<<e[1], Latest(e[2] - 1, 0)>> : e \in mapAskFor[p]}]
    /\ UNCHANGED <<peerVars, heldVars, nAsks>>

-----------------------------------------------------------------------------
(* Answers.                                                                *)

\* The orphans among K that are accepted because i is.
Released(i, K) ==
    {o \in orphans \cap K : \A C \in SUBSET (orphans \cap K) :
        (\A c \in orphans \cap K : Needs[c] \in C \cup {i} => c \in C) => o \in C}

Lacks(i) == Needs[i] \notin have \cup {Nothing}

\* The first block before b that is not an orphan: what WantedByOrphan asks for.
Wanted(b) ==
    CHOOSE w \in Block :
        /\ w \notin orphans \cup {b}
        /\ \A C \in SUBSET Block :
              (b \in C /\ \A c \in C \cap (orphans \cup {b}) : Needs[c] \in C) => w \in C

Forget(S) == mapAlreadyAskedFor' = [i \in Inv |-> IF i \in S THEN -Retry ELSE mapAlreadyAskedFor[i]]

Answers(p, i) ==
    /\ <<p, i>> \in requested
    /\ i \in Has[p]
    /\ requested' = requested \ {<<p, i>>}

\* An object that is there already changes nothing.
ReceiveAgain(p, i) ==
    /\ Answers(p, i)
    /\ i \in have \/ (i \in orphans /\ (i \in Block \/ Lacks(i)))
    /\ UNCHANGED <<connected, getblocks, mapAlreadyAskedFor, mapAskFor, heldVars, nAsks>>

\* "tx", accepted, with the orphan transactions that depend on it.
ReceiveTx(p, i) ==
    /\ i \in Tx \ have
    /\ ~Lacks(i)
    /\ Answers(p, i)
    /\ have' = have \cup {i} \cup Released(i, Tx)
    /\ orphans' = orphans \ have'
    /\ Forget({i} \cup Released(i, Tx))
    /\ UNCHANGED <<connected, getblocks, mapAskFor, orphanFrom, setStakeSeenOrphan, nAsks>>

\* It is kept, but its time is not forgotten.
ReceiveOrphanTx(p, i) ==
    /\ i \in Tx \ (have \cup orphans)
    /\ Lacks(i)
    /\ Answers(p, i)
    /\ orphans' = orphans \cup {i}
    /\ UNCHANGED <<connected, getblocks, mapAlreadyAskedFor, mapAskFor, have, orphanFrom,
                   setStakeSeenOrphan, nAsks>>

StakesOf(S) == {Stake[b] : b \in S \cap Block} \ {NoStake}

setStakeSeen == StakesOf(have)

\* Mutant: an orphan that waits for the block makes no difference.
IsDuplicateStakeAlways(b) ==
    Stake[b] \in setStakeSeen \cup (IF Lacks(b) THEN setStakeSeenOrphan ELSE {})

\* "Duplicate stake allowed only when there is orphan child block".
IsDuplicateStake(b) ==
    /\ Stake[b] \in setStakeSeen \cup (IF Lacks(b) THEN setStakeSeenOrphan ELSE {})
    /\ \A c \in orphans \cap Block : Needs[c] # b

\* ProcessBlock refuses the block, and its time is not forgotten.
ReceiveDuplicateStake(p, i) ==
    /\ i \in Block \ (have \cup orphans)
    /\ IsDuplicateStake(i)
    /\ Answers(p, i)
    /\ UNCHANGED <<connected, getblocks, mapAlreadyAskedFor, mapAskFor, heldVars, nAsks>>

\* "block", accepted, with the orphan blocks that depend on it; orphan transactions wait
\* for a transaction.
ReceiveBlock(p, i) ==
    /\ i \in Block \ (have \cup orphans)
    /\ ~IsDuplicateStake(i)
    /\ ~Lacks(i)
    /\ Answers(p, i)
    /\ have' = have \cup {i} \cup Released(i, Block)
    /\ orphans' = orphans \ have'
    /\ setStakeSeenOrphan' = setStakeSeenOrphan \ StakesOf(Released(i, Block))
    /\ Forget({i})
    /\ UNCHANGED <<connected, getblocks, mapAskFor, orphanFrom, nAsks>>

\* It is held; the peer is sent a getblocks, and is also asked for the missing ancestor,
\* which may have been refused for its stake before.
ReceiveOrphanBlock(p, i) ==
    LET w == Wanted(i)
    IN  /\ i \in Block \ (have \cup orphans)
        /\ ~IsDuplicateStake(i)
        /\ Lacks(i)
        /\ Answers(p, i)
        /\ orphans' = orphans \cup {i}
        /\ orphanFrom' = [orphanFrom EXCEPT ![i] = p]
        /\ setStakeSeenOrphan' = setStakeSeenOrphan \cup StakesOf({i})
        /\ getblocks' = getblocks \cup {p}
        /\ mapAskFor' = [mapAskFor EXCEPT ![p] = @ \cup {<<w, RequestTime(w)>>}]
        /\ mapAlreadyAskedFor' = [mapAlreadyAskedFor EXCEPT ![w] = RequestTime(w), ![i] = -Retry]
        /\ nAsks' = [nAsks EXCEPT ![w] = @ + 1]
        /\ UNCHANGED <<connected, have>>

Answer(p, i) ==
    \/ ReceiveAgain(p, i)
    \/ ReceiveTx(p, i) \/ ReceiveOrphanTx(p, i)
    \/ ReceiveDuplicateStake(p, i)
    \/ ReceiveBlock(p, i) \/ ReceiveOrphanBlock(p, i)

-----------------------------------------------------------------------------
(* Losses.                                                                 *)

Disconnect(p) ==
    /\ p \in connected \ Honest
    /\ connected' = connected \ {p}
    /\ mapAskFor' = [mapAskFor EXCEPT ![p] = {}]
    /\ requested' = {r \in requested : r[1] # p}
    /\ getblocks' = getblocks \ {p}
    /\ UNCHANGED <<mapAlreadyAskedFor, heldVars, nAsks>>

\* LimitOrphanTxSize, or the PruneOrphanBlocks with which ProcessBlock makes room for an
\* orphan, of this module or from elsewhere.  A block is removed only if no orphan depends
\* on it.
EvictOrphan(o) ==
    /\ o \in orphans
    /\ o \in Block => \A c \in orphans \cap Block : Needs[c] # o
    /\ orphans' = orphans \ {o}
    /\ setStakeSeenOrphan' = setStakeSeenOrphan \ StakesOf({o})
    /\ UNCHANGED <<peerVars, mapAlreadyAskedFor, mapAskFor, have, orphanFrom, nAsks>>

Next ==
    \/ Tick
    \/ \E p \in Peer :
          \/ \E i \in Inv : ReceiveInv(p, i)
          \/ AnswerGetBlocks(p)
          \/ SendMessages(p)
          \/ \E i \in Inv : Answer(p, i)
          \/ Disconnect(p)
    \/ \E o \in Inv : EvictOrphan(o)

\* The clock runs, ThreadMessageHandler2 calls SendMessages for every peer again and
\* again, and an honest peer answers.  Nothing makes a peer announce, or answer a
\* getblocks with what is missing.
Fairness ==
    /\ WF_vars(Tick)
    /\ \A p \in Peer : WF_vars(SendMessages(p))
    /\ \A p \in Honest, i \in Inv : WF_vars(Answer(p, i))

Spec == Init /\ [][Next]_vars /\ Fairness

-----------------------------------------------------------------------------
(* Properties.                                                             *)

\* A block that has the stake of another that is indexed or held.
HasTwin(i) ==
    \E b \in (have \cup orphans) \cap Block :
        i \in Block \ {b} /\ Stake[i] = Stake[b] /\ Stake[i] # NoStake

\* What an honest peer has announced is obtained, whatever other peers announce, how
\* late they make the request, and whether they answer it or vanish; unless it is a block
\* and another has its stake.
AnnouncedIsObtained ==
    \A p \in Honest, i \in Inv :
        (\E e \in mapAskFor[p] : e[1] = i) ~> AlreadyHave(i) \/ HasTwin(i)

\* The block that an orphan of an honest peer waits for is fetched, or held as an orphan
\* itself, even if the peer never announces it, and even if it was refused before for its
\* stake.  Only when the orphan is evicted meanwhile may it be refused again.
AncestorIsFetched ==
    \A o \in Block :
        (o \in orphans /\ orphanFrom[o] \in Honest)
            ~> AlreadyHave(Needs[o]) \/ (o \notin orphans /\ HasTwin(Needs[o]))

\* The time up to which i is put off, although no request is queued for that time.
PutOffInVain(i) ==
    /\ mapAlreadyAskedFor[i] > 0
    /\ \A p \in Peer : <<i, mapAlreadyAskedFor[i]>> \notin mapAskFor[p]

\* mapAlreadyAskedFor keeps a peer waiting only for a request that is really queued with
\* another, whatever is answered, lost or evicted; but when a peer disconnects, its
\* requests are gone and the others still wait for them.
OnlyDisconnectPutsOffInVain ==
    [][ \A i \in Inv : PutOffInVain(i)' =>
            PutOffInVain(i) \/ \E p \in Peer : Disconnect(p) ]_vars
=============================================================================
