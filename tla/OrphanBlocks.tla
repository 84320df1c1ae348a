---------------------------- MODULE OrphanBlocks ----------------------------
(***************************************************************************)
(* The blocks that arrive before their parent: ProcessBlock and            *)
(* PruneOrphanBlocks of main.cpp, with AcceptBlock reduced to its outcome. *)
(*                                                                         *)
(* AcceptBlock may refuse a block, or index it and fail afterwards (in     *)
(* SetBestChain), or succeed; what it does to the chain is ChainState's    *)
(* subject.  ProcessBlock holds cs_main; its loop over the orphans that    *)
(* waited for the new block is followed orphan by orphan.                  *)
(***************************************************************************)
EXTENDS Integers, Sequences, FiniteSets

CONSTANTS
    Block, Genesis, NoBlock,
    Parent,              \* CBlock::hashPrevBlock
    Stake,               \* CBlock::GetProofOfStake
    NoStake,             \* that of a proof-of-work block
    MaxOrphanBlocks      \* -maxorphanblocks

ASSUME BlockAssumption ==
    /\ Genesis \in Block
    /\ NoBlock \notin Block
    /\ Parent \in [Block -> Block \cup {NoBlock}]
    /\ \A b \in Block : Parent[b] # b
    /\ Stake[Genesis] = NoStake

ASSUME MaxAssumption == MaxOrphanBlocks \in Nat

VARIABLES
    mapBlockIndex,
    setStakeSeen,
    mapOrphanBlocks,
    mapOrphanBlocksByPrev,   \* the orphans that are listed under their parent
    setStakeSeenOrphan,
    vWorkQueue,              \* blocks whose orphans are still to be tried
    vTry,                    \* orphans of the first of them still to be tried
    setFailed                \* indexed blocks for which AcceptBlock returned false

vars == <<mapBlockIndex, setStakeSeen, mapOrphanBlocks, mapOrphanBlocksByPrev,
          setStakeSeenOrphan, vWorkQueue, vTry, setFailed>>

IsProofOfStake(b) == Stake[b] # NoStake

TypeOK ==
    /\ mapBlockIndex \subseteq Block
    /\ mapOrphanBlocks \subseteq Block
    /\ mapOrphanBlocksByPrev \subseteq Block
    /\ vWorkQueue \in Seq(Block)
    /\ vTry \subseteq Block
    /\ setFailed \subseteq mapBlockIndex

Init ==
    /\ mapBlockIndex = {Genesis}
    /\ setStakeSeen = {}
    /\ mapOrphanBlocks = {}
    /\ mapOrphanBlocksByPrev = {}
    /\ setStakeSeenOrphan = {}
    /\ vWorkQueue = <<>>
    /\ vTry = {}
    /\ setFailed = {}

Idle == vWorkQueue = <<>>

OrphansOf(b) == {o \in mapOrphanBlocksByPrev : Parent[o] = b}

\* The checks that ProcessBlock starts with.
IsNew(b) ==
    /\ b \notin mapBlockIndex
    /\ b \notin mapOrphanBlocks
    /\ ~(IsProofOfStake(b) /\ Stake[b] \in setStakeSeen /\ OrphansOf(b) = {})

-----------------------------------------------------------------------------
(* A block without its parent, from a peer.                                *)

\* What PruneOrphanBlocks may remove: nothing below the limit, otherwise an
\* orphan that no other orphan depends on.
Prunable(S) ==
    IF Cardinality(mapOrphanBlocksByPrev) <= MaxOrphanBlocks
    THEN S = {}
    ELSE \E o \in mapOrphanBlocksByPrev : OrphansOf(o) = {} /\ S = {o}

\* Mutant: the orphan is pruned after the stake of the new one was remembered.
HoldOrphanPrunesLast(b) ==
    /\ Idle
    /\ IsNew(b)
    /\ Parent[b] \notin mapBlockIndex
    /\ ~(IsProofOfStake(b) /\ Stake[b] \in setStakeSeenOrphan /\ OrphansOf(b) = {})
    /\ \E S \in SUBSET mapOrphanBlocksByPrev :
          /\ Prunable(S)
          /\ mapOrphanBlocks' = (mapOrphanBlocks \ S) \cup {b}
          /\ mapOrphanBlocksByPrev' = (mapOrphanBlocksByPrev \ S) \cup {b}
          /\ setStakeSeenOrphan' = (setStakeSeenOrphan \cup ({Stake[b]} \ {NoStake}))
                                      \ {Stake[o] : o \in S}
    /\ UNCHANGED <<mapBlockIndex, setStakeSeen, vWorkQueue, vTry, setFailed>>

HoldOrphan(b) ==
    /\ Idle
    /\ IsNew(b)
    /\ Parent[b] \notin mapBlockIndex
    /\ ~(IsProofOfStake(b) /\ Stake[b] \in setStakeSeenOrphan /\ OrphansOf(b) = {})
    /\ \E S \in SUBSET mapOrphanBlocksByPrev :
          /\ Prunable(S)
          /\ mapOrphanBlocks' = (mapOrphanBlocks \ S) \cup {b}
          /\ mapOrphanBlocksByPrev' = (mapOrphanBlocksByPrev \ S) \cup {b}
          /\ setStakeSeenOrphan' = (setStakeSeenOrphan \ {Stake[o] : o \in S}) \cup
                                      ({Stake[b]} \ {NoStake})
    /\ UNCHANGED <<mapBlockIndex, setStakeSeen, vWorkQueue, vTry, setFailed>>

-----------------------------------------------------------------------------
(* A block with its parent.                                                *)

\* AddToBlockIndex, as part of AcceptBlock.
IndexBlock(b) ==
    /\ mapBlockIndex' = mapBlockIndex \cup {b}
    /\ setStakeSeen' = setStakeSeen \cup ({Stake[b]} \ {NoStake})

\* AcceptBlock succeeds: the orphans that waited for b are tried next.
AcceptBlock(b) ==
    /\ Idle
    /\ IsNew(b)
    /\ Parent[b] \in mapBlockIndex
    /\ IndexBlock(b)
    /\ vWorkQueue' = <<b>>
    /\ vTry' = OrphansOf(b)
    /\ UNCHANGED <<mapOrphanBlocks, mapOrphanBlocksByPrev, setStakeSeenOrphan, setFailed>>

\* Mutant: a block that fails after it was indexed is taken out of the index.
AcceptBlockFailsUnindexed(b) ==
    /\ Idle
    /\ IsNew(b)
    /\ Parent[b] \in mapBlockIndex
    /\ setFailed' = setFailed \cup {b}
    /\ UNCHANGED <<mapBlockIndex, setStakeSeen, mapOrphanBlocks, mapOrphanBlocksByPrev,
                   setStakeSeenOrphan, vWorkQueue, vTry>>

\* AcceptBlock indexes b and then fails: ProcessBlock returns at once.
AcceptBlockFails(b) ==
    /\ Idle
    /\ IsNew(b)
    /\ Parent[b] \in mapBlockIndex
    /\ IndexBlock(b)
    /\ setFailed' = setFailed \cup {b}
    /\ UNCHANGED <<mapOrphanBlocks, mapOrphanBlocksByPrev, setStakeSeenOrphan,
                   vWorkQueue, vTry>>

\* Mutant: an accepted orphan is not put on the work queue.
TryOrphanNotQueued(o) ==
    /\ o \in vTry
    /\ IndexBlock(o)
    /\ vTry' = vTry \ {o}
    /\ mapOrphanBlocks' = mapOrphanBlocks \ {o}
    /\ setStakeSeenOrphan' = setStakeSeenOrphan \ {Stake[o]}
    /\ UNCHANGED <<mapOrphanBlocksByPrev, setFailed, vWorkQueue>>

\* Mutant: the stake of a tried orphan is not forgotten.
TryOrphanKeepsStake(o) ==
    /\ o \in vTry
    /\ IndexBlock(o)
    /\ vWorkQueue' = Append(vWorkQueue, o)
    /\ vTry' = vTry \ {o}
    /\ mapOrphanBlocks' = mapOrphanBlocks \ {o}
    /\ UNCHANGED <<mapOrphanBlocksByPrev, setStakeSeenOrphan, setFailed>>

\* One turn of the loop: whatever AcceptBlock says, o is no orphan any more.
TryOrphan(o) ==
    /\ o \in vTry
    /\ \/ /\ UNCHANGED <<mapBlockIndex, setStakeSeen, setFailed, vWorkQueue>>
       \/ /\ IndexBlock(o)
          /\ setFailed' = setFailed \cup {o}
          /\ UNCHANGED vWorkQueue
       \/ /\ IndexBlock(o)
          /\ vWorkQueue' = Append(vWorkQueue, o)
          /\ UNCHANGED setFailed
    /\ vTry' = vTry \ {o}
    /\ mapOrphanBlocks' = mapOrphanBlocks \ {o}
    /\ setStakeSeenOrphan' = setStakeSeenOrphan \ {Stake[o]}
    /\ UNCHANGED mapOrphanBlocksByPrev

\* Mutant: the tried orphans stay listed under their parent.
NextInQueueKeepsByPrev ==
    /\ vWorkQueue # <<>>
    /\ vTry = {}
    /\ vWorkQueue' = Tail(vWorkQueue)
    /\ vTry' = IF Tail(vWorkQueue) = <<>> THEN {} ELSE OrphansOf(vWorkQueue[2])
    /\ UNCHANGED <<mapBlockIndex, setStakeSeen, mapOrphanBlocks, mapOrphanBlocksByPrev,
                   setStakeSeenOrphan, setFailed>>

\* All orphans of the first block in the queue were tried.
NextInQueue ==
    /\ vWorkQueue # <<>>
    /\ vTry = {}
    /\ mapOrphanBlocksByPrev' = mapOrphanBlocksByPrev \ OrphansOf(Head(vWorkQueue))
    /\ vWorkQueue' = Tail(vWorkQueue)
    /\ vTry' = IF Tail(vWorkQueue) = <<>> THEN {}
               ELSE {o \in mapOrphanBlocksByPrev' : Parent[o] = vWorkQueue[2]}
    /\ UNCHANGED <<mapBlockIndex, setStakeSeen, mapOrphanBlocks, setStakeSeenOrphan,
                   setFailed>>

\* Only the block index survives; setStakeSeen is rebuilt from it.
Restart ==
    /\ mapOrphanBlocks' = {}
    /\ mapOrphanBlocksByPrev' = {}
    /\ setStakeSeenOrphan' = {}
    /\ setStakeSeen' = {Stake[b] : b \in mapBlockIndex} \ {NoStake}
    /\ vWorkQueue' = <<>>
    /\ vTry' = {}
    /\ UNCHANGED <<mapBlockIndex, setFailed>>

ProcessBlock(b) == HoldOrphan(b) \/ AcceptBlock(b) \/ AcceptBlockFails(b)

ProcessOrphans == (\E o \in Block : TryOrphan(o)) \/ NextInQueue

Next ==
    \/ \E b \in Block : ProcessBlock(b)
    \/ ProcessOrphans
    \/ Restart

Spec == Init /\ [][Next]_vars

-----------------------------------------------------------------------------
(* Safety.                                                                 *)

\* Between two calls of ProcessBlock mapOrphanBlocks and mapOrphanBlocksByPrev
\* hold the same orphans (one is asked what we have, the other what to try
\* next), and no orphan is indexed as well.
OrphanMapsMatch ==
    Idle => /\ mapOrphanBlocks = mapOrphanBlocksByPrev
            /\ mapOrphanBlocks \cap mapBlockIndex = {}

\* No orphan is left waiting for a block that was accepted: the loop over the
\* orphans reaches the orphans of orphans too.
NoOrphanLeftBehind ==
    Idle => \A o \in mapOrphanBlocks : Parent[o] \in mapBlockIndex => Parent[o] \in setFailed

\* setStakeSeenOrphan never holds the stake of an orphan that is gone, for which
\* every later orphan with that stake would be refused.
OrphanStakeIsHeld ==
    \A s \in setStakeSeenOrphan : \E o \in mapOrphanBlocks : Stake[o] = s

\* The stake of an orphan is remembered when it is held, and, although a set cannot
\* tell two orphans of one stake apart, for as long as it is held, unless another
\* orphan with that stake is tried or pruned: from then on orphans with that stake are
\* taken again without a child.
OnlySharedStakeIsForgotten ==
    [][\A o \in mapOrphanBlocks' :
          IsProofOfStake(o) /\ Stake[o] \notin setStakeSeenOrphan' =>
              /\ o \in mapOrphanBlocks
              /\ \/ Stake[o] \notin setStakeSeenOrphan
                 \/ \E p \in mapOrphanBlocks \ mapOrphanBlocks' : Stake[p] = Stake[o]]_vars
=============================================================================
