------------------------------ MODULE MemPool ------------------------------
(***************************************************************************)
(* The memory pool and the orphan transactions of main.cpp (CTxMemPool,    *)
(* AddOrphanTx, EraseOrphanTx, LimitOrphanTxSize, the "tx" message)        *)
(* composed with the best chain: SetBestChainInner and Reorganize take     *)
(* transactions out of the pool and put them back, and ConnectBlock tells  *)
(* the wallets about every transaction it connects.                        *)
(*                                                                         *)
(* Every action is one of ChainState's with what the same function does to *)
(* the pool, or a transaction arriving between two calls of SetBestChain   *)
(* (cs_main is held throughout both).  The handler of "tx" is followed     *)
(* orphan by orphan, because which orphan is accepted first decides which  *)
(* of two conflicting ones is.                                             *)
(***************************************************************************)
EXTENDS ChainState, Sequences, FiniteSets

CONSTANTS
    Poolable,            \* transactions that pass the checks which accept makes before it
                         \* fetches the inputs: CheckTransaction, neither coinbase nor
                         \* coinstake, standard
    Large,               \* transactions of more than 5000 bytes
    MaxOrphans           \* MAX_ORPHAN_TRANSACTIONS

ASSUME PoolAssumption ==
    /\ Poolable \subseteq Tx
    /\ Large \subseteq Tx
    /\ MaxOrphans \in Nat

VARIABLES
    mapTx,                         \* the transactions in the pool
    mapNextTx,                     \* output -> the pool transaction that spends it
    mapOrphanTransactions,
    mapOrphanTransactionsByPrev,   \* transaction -> the orphans that spend from it
    setKnown,                      \* what SyncWithWallets was called for
    vWorkQueue,                    \* of the "tx" handler; <<>> when it is not running
    vOrphans,                      \* orphans of the first entry still to be tried
    vEraseQueue

poolVars   == <<mapTx, mapNextTx>>
orphanVars == <<mapOrphanTransactions, mapOrphanTransactionsByPrev>>
queueVars  == <<vWorkQueue, vOrphans, vEraseQueue>>
allVars    == <<vars, poolVars, orphanVars, setKnown, queueVars>>

Idle == pc = "idle" /\ vWorkQueue = <<>>

-----------------------------------------------------------------------------
(* CTxMemPool.                                                             *)

\* mapNextTx while the pool holds the transactions S.
Without(next, S) ==
    [i \in Tx |-> IF \E s \in S : i \in Spends[s] THEN Absent ELSE next[i]]

With(next, S) ==
    [i \in Tx |-> IF SpentIn(S, i) THEN SpenderIn(S, i) ELSE next[i]]

Conflicts(t, next) == \E i \in Spends[t] : next[i] # Absent

MissingInputs(t) ==
    \E i \in Spends[t] : diskTx[i] = Absent /\ i \notin mapTx

\* Mutant: conflicts with the pool are not looked for.
NotTakenIgnoresConflicts(t) ==
    /\ t \in Poolable
    /\ t \notin mapTx
    /\ diskTx[t] = Absent

\* CTxMemPool::accept with fCheckInputs, up to FetchInputs: unknown to pool and
\* chain, and no conflict with the pool.
NotTaken(t) ==
    /\ t \in Poolable
    /\ t \notin mapTx
    /\ diskTx[t] = Absent
    /\ ~Conflicts(t, mapNextTx)

\* Mutant: an input that is nowhere passes for one that is unspent.
AcceptsMissing(t) ==
    /\ NotTaken(t)
    /\ \A i \in Spends[t] : diskTx[i] \in {Absent, Unspent}

\* accept may let t in: every input is in the chain and unspent, or in the pool.
\* Whether the inputs are standard and mature, the scripts pass and the fee and
\* the limit on free transactions allow it is left open: t may be refused still.
Accepts(t) ==
    /\ NotTaken(t)
    /\ ~MissingInputs(t)
    /\ \A i \in Spends[t] : diskTx[i] \in {Absent, Unspent}

\* FetchInputs finds an input nowhere, the outcome that makes the caller keep t as
\* an orphan: neither fee nor scripts have been looked at.
AcceptMisses(t) == NotTaken(t) /\ MissingInputs(t)

AddUnchecked(t) ==
    /\ mapTx' = mapTx \cup {t}
    /\ mapNextTx' = With(mapNextTx, {t})

\* remove(tx) for the transactions S of a connected block, as far as they are
\* in the pool.
Remove(S) ==
    /\ mapTx' = mapTx \ S
    /\ mapNextTx' = Without(mapNextTx, mapTx \cap S)

\* S and everything in pool that spends from it, directly or not: what
\* remove(tx, true) removes.
Descendants(S, pool) ==
    {t \in pool : \A C \in SUBSET pool :
        (S \subseteq C /\ \A c \in pool : Spends[c] \cap C # {} => c \in C) => t \in C}

-----------------------------------------------------------------------------
(* The calls that SetBestChainInner and Reorganize make.                   *)

\* AcceptToMemoryPool(txdb, false) for what was disconnected: nothing is checked
\* but what comes before FetchInputs, and a transaction in conflict with the pool
\* is refused.  The blocks are above the last checkpoint.
vResurrect ==
    {t \in Poolable \cap UNION {Txs[b] : b \in vDisconnect} :
        t \notin mapTx /\ ~Conflicts(t, mapNextTx)}

\* What of them enters the pool when they are put back one after the other: all of
\* them, unless pindexBest ends an invalid chain, which may hold two that conflict.
Resurrections ==
    {R \in SUBSET vResurrect :
        /\ \A s, r \in R : s # r => Spends[s] \cap Spends[r] = {}
        /\ \A t \in vResurrect \ R : \E r \in R : Spends[t] \cap Spends[r] # {}}

vDelete == UNION {Txs[b] : b \in vConnect}

\* Mutant: the connected transactions are deleted before the others are put back.
ReorganizePoolDeletesFirst ==
    LET kept == mapTx \ vDelete
        conf == {t \in kept : \E d \in vDelete : Spends[t] \cap Spends[d] # {}}
        left == kept \ Descendants(conf, kept)
    IN  \E R \in Resurrections :
          /\ mapTx' = left \cup R
          /\ mapNextTx' = With(Without(mapNextTx, mapTx \ left), R)

\* remove and removeConflicts for what was connected, after the resurrection.
ReorganizePool ==
    \E R \in Resurrections :
        LET pool == mapTx \cup R
            kept == pool \ vDelete
            conf == {t \in kept : \E d \in vDelete : Spends[t] \cap Spends[d] # {}}
        IN  /\ mapTx' = kept \ Descendants(conf, kept)
            /\ mapNextTx' = Without(With(mapNextTx, R), pool \ mapTx')

PoolInit ==
    /\ Init
    /\ mapTx = {}
    /\ mapNextTx = [t \in Tx |-> Absent]
    /\ mapOrphanTransactions = {}
    /\ mapOrphanTransactionsByPrev = [t \in Tx |-> {}]
    /\ setKnown = {}
    /\ vWorkQueue = <<>>
    /\ vOrphans = {}
    /\ vEraseQueue = {}

\* A step of the chain that leaves pool and wallets alone.
PoolUnchangedStep ==
    /\ vWorkQueue = <<>>
    /\ \/ \E b \in Block : AddToBlockIndex(b)
       \/ ExtendFails \/ BeginReorganize \/ ReorganizeDisconnect
       \/ ReorganizeFails \/ NewBestBlock
    /\ UNCHANGED <<poolVars, orphanVars, setKnown, queueVars>>

\* SetBestChainInner removes the block's transactions once the block is linked.
PoolExtendBest ==
    /\ vWorkQueue = <<>>
    /\ ExtendBest
    /\ IF PrevIsLinked(pindexNew, pnext) THEN Remove(Txs[pindexNew])
                                         ELSE UNCHANGED poolVars
    /\ setKnown' = setKnown \cup Txs[pindexNew]
    /\ UNCHANGED <<orphanVars, queueVars>>

PoolReorganizeConnect ==
    /\ vWorkQueue = <<>>
    /\ ReorganizeConnect
    /\ setKnown' = setKnown \cup Txs[tip']
    /\ UNCHANGED <<poolVars, orphanVars, queueVars>>

PoolReorganizeCommit ==
    /\ vWorkQueue = <<>>
    /\ ReorganizeCommit
    /\ IF ForkIsLinked THEN ReorganizePool ELSE UNCHANGED poolVars
    /\ UNCHANGED <<orphanVars, setKnown, queueVars>>

PoolSecondaryConnect ==
    /\ vWorkQueue = <<>>
    /\ SecondaryConnect
    /\ Remove(Txs[tip'])
    /\ setKnown' = setKnown \cup Txs[tip']
    /\ UNCHANGED <<orphanVars, queueVars>>

\* A further block that cannot be linked was connected, and the wallets told.
PoolSecondaryFails ==
    /\ vWorkQueue = <<>>
    /\ SecondaryFails
    /\ LET b == StepTowards(tip, pindexNew)
       IN  setKnown' = IF diskBest' = b THEN setKnown \cup Txs[b] ELSE setKnown
    /\ UNCHANGED <<poolVars, orphanVars, queueVars>>

\* The pool and the orphans are lost in a crash, the wallets are not.
PoolRestart ==
    /\ Restart
    /\ mapTx' = {}
    /\ mapNextTx' = [t \in Tx |-> Absent]
    /\ mapOrphanTransactions' = {}
    /\ mapOrphanTransactionsByPrev' = [t \in Tx |-> {}]
    /\ vWorkQueue' = <<>>
    /\ vOrphans' = {}
    /\ vEraseQueue' = {}
    /\ UNCHANGED setKnown

-----------------------------------------------------------------------------
(* Transactions that arrive.                                               *)

\* From the wallet or the raw transaction RPC, accepted: no orphan is looked at.
SubmitTx(t) ==
    /\ Idle
    /\ Accepts(t)
    /\ AddUnchecked(t)
    /\ setKnown' = setKnown \cup {t}
    /\ UNCHANGED <<vars, orphanVars, queueVars>>

\* Mutant: the wallets hear of the orphans' parent only when it has no orphans.
ReceiveTxForgetsWallets(t) ==
    /\ Idle
    /\ Accepts(t)
    /\ AddUnchecked(t)
    /\ setKnown' = IF mapOrphanTransactionsByPrev[t] = {} THEN setKnown \cup {t} ELSE setKnown
    /\ vWorkQueue' = <<t>>
    /\ vOrphans' = mapOrphanTransactionsByPrev[t]
    /\ vEraseQueue' = {t}
    /\ UNCHANGED <<vars, orphanVars>>

\* The "tx" message, accepted: its orphans are tried next.
ReceiveTx(t) ==
    /\ Idle
    /\ Accepts(t)
    /\ AddUnchecked(t)
    /\ setKnown' = setKnown \cup {t}
    /\ vWorkQueue' = <<t>>
    /\ vOrphans' = mapOrphanTransactionsByPrev[t]
    /\ vEraseQueue' = {t}
    /\ UNCHANGED <<vars, orphanVars>>

\* mapOrphanTransactionsByPrev restricted to the orphans S.
ByPrev(byPrev, S) == [p \in Tx |-> byPrev[p] \cap S]

\* The "tx" message with missing inputs: AddOrphanTx, then LimitOrphanTxSize,
\* which evicts at random and may evict the new one.
ReceiveOrphanTx(t) ==
    /\ Idle
    /\ AcceptMisses(t)
    /\ t \notin mapOrphanTransactions
    /\ t \notin Large
    /\ LET all == mapOrphanTransactions \cup {t}
           byPrev == [p \in Tx |-> mapOrphanTransactionsByPrev[p] \cup
                                       (IF p \in Spends[t] THEN {t} ELSE {})]
       IN  \E S \in SUBSET all :
             /\ Cardinality(S) = IF Cardinality(all) > MaxOrphans THEN MaxOrphans
                                 ELSE Cardinality(all)
             /\ mapOrphanTransactions' = S
             /\ mapOrphanTransactionsByPrev' = ByPrev(byPrev, S)
    /\ UNCHANGED <<vars, poolVars, setKnown, queueVars>>

\* Mutant: an accepted orphan is not queued, so its own orphans are not tried.
AcceptOrphanNotQueued(o) ==
    /\ vWorkQueue # <<>>
    /\ o \in vOrphans
    /\ Accepts(o)
    /\ AddUnchecked(o)
    /\ vOrphans' = vOrphans \ {o}
    /\ vEraseQueue' = vEraseQueue \cup {o}
    /\ UNCHANGED <<vars, orphanVars, setKnown, vWorkQueue>>

\* An orphan of the transaction at the head of the queue is accepted.  The
\* wallets are told of the transaction that came in, not of the orphan.
AcceptOrphan(o) ==
    /\ vWorkQueue # <<>>
    /\ o \in vOrphans
    /\ Accepts(o)
    /\ AddUnchecked(o)
    /\ vOrphans' = vOrphans \ {o}
    /\ vWorkQueue' = Append(vWorkQueue, o)
    /\ vEraseQueue' = vEraseQueue \cup {o}
    /\ UNCHANGED <<vars, orphanVars, setKnown>>

\* It is not: an orphan that still misses inputs stays, any other is dropped, be
\* it known, in conflict, or invalid or too cheap now that its inputs are fetched.
RefuseOrphan(o) ==
    /\ vWorkQueue # <<>>
    /\ o \in vOrphans
    /\ vOrphans' = vOrphans \ {o}
    /\ vEraseQueue' = IF AcceptMisses(o) THEN vEraseQueue ELSE vEraseQueue \cup {o}
    /\ UNCHANGED <<vars, poolVars, orphanVars, setKnown, vWorkQueue>>

NextInQueue ==
    /\ Len(vWorkQueue) > 1
    /\ vOrphans = {}
    /\ vWorkQueue' = Tail(vWorkQueue)
    /\ vOrphans' = mapOrphanTransactionsByPrev[vWorkQueue[2]]
    /\ UNCHANGED <<vars, poolVars, orphanVars, setKnown, vEraseQueue>>

\* Mutant: the orphans are erased but stay listed under their parents.
EraseOrphansKeepsByPrev ==
    /\ Len(vWorkQueue) = 1
    /\ vOrphans = {}
    /\ mapOrphanTransactions' = mapOrphanTransactions \ vEraseQueue
    /\ vWorkQueue' = <<>>
    /\ vEraseQueue' = {}
    /\ UNCHANGED <<vars, poolVars, mapOrphanTransactionsByPrev, setKnown, vOrphans>>

\* The queue is empty: EraseOrphanTx for everything on vEraseQueue.
EraseOrphans ==
    /\ Len(vWorkQueue) = 1
    /\ vOrphans = {}
    /\ mapOrphanTransactions' = mapOrphanTransactions \ vEraseQueue
    /\ mapOrphanTransactionsByPrev' =
          ByPrev(mapOrphanTransactionsByPrev, mapOrphanTransactions')
    /\ vWorkQueue' = <<>>
    /\ vEraseQueue' = {}
    /\ UNCHANGED <<vars, poolVars, setKnown, vOrphans>>

ProcessOrphans ==
    \/ \E o \in Tx : AcceptOrphan(o) \/ RefuseOrphan(o)
    \/ NextInQueue
    \/ EraseOrphans

PoolSetBestChain ==
    \/ PoolUnchangedStep
    \/ PoolExtendBest
    \/ PoolReorganizeConnect \/ PoolReorganizeCommit
    \/ PoolSecondaryConnect \/ PoolSecondaryFails

PoolNext ==
    \/ PoolSetBestChain
    \/ PoolRestart
    \/ \E t \in Tx : SubmitTx(t) \/ ReceiveTx(t) \/ ReceiveOrphanTx(t)
    \/ ProcessOrphans

PoolSpec == PoolInit /\ [][PoolNext]_allVars

-----------------------------------------------------------------------------
(* Safety.                                                                 *)

\* mapNextTx names exactly the spenders in the pool, so the pool never holds
\* two transactions that spend the same output, whatever blocks, orphans and
\* reorganisations did to it.
PoolHasNoDoubleSpend ==
    \A i, s \in Tx : mapNextTx[i] = s <=> s \in mapTx /\ i \in Spends[s]

\* No transaction is both in the pool and in the chain on disk.
PoolIsOutsideChain == \A t \in mapTx : diskTx[t] = Absent

\* While memory and disk agree on the best chain, no step brings a transaction into both
\* the pool and the chain on disk, although a reorganisation puts transactions back
\* without looking for them there.  (After a further block has failed, a block that
\* extends it is connected but its transactions stay in the pool.)
PoolStaysOutsideChain ==
    [][ ChainInv /\ PoolIsOutsideChain => PoolIsOutsideChain' ]_allVars

\* Orphans are bounded, and mapOrphanTransactionsByPrev lists every orphan under
\* every transaction it spends from and nothing else, so that none is missed when
\* its parent arrives and none is followed after it was erased.
OrphanMapsAgree ==
    /\ Cardinality(mapOrphanTransactions) <= MaxOrphans
    /\ mapOrphanTransactionsByPrev =
          [p \in Tx |-> {o \in mapOrphanTransactions : p \in Spends[o]}]

\* Orphans that could be accepted now, have a parent among the transactions that the "tx"
\* handler has been through, and are not going to be tried by it.
Forgotten ==
    {o \in mapOrphanTransactions \ (vEraseQueue \cup vOrphans) :
        /\ Accepts(o)
        /\ Spends[o] \cap vEraseQueue # {}
        /\ \A k \in 2..Len(vWorkQueue) : vWorkQueue[k] \notin Spends[o]}

\* The handler forgets no orphan, however long the chain of orphans that it follows and
\* whichever of two conflicting ones it meets first, except behind an orphan that pool or
\* chain already hold: it is refused, and what waits for it is not looked at.
OnlyKnownOrphansHideOthers ==
    [][ \A o \in Forgotten' : o \in Forgotten \/
            \E r \in Spends[o] : RefuseOrphan(r) /\ (r \in mapTx \/ diskTx[r] # Absent) ]_allVars

\* Pool transactions with an input that is neither in the chain nor in the pool.
Stranded ==
    {t \in mapTx : \E i \in Spends[t] : i \notin mapTx /\ diskTx[i] = Absent}

\* What is in the pool connects to the chain or to the pool through every arrival, every
\* block and every eviction; only a reorganisation strands transactions, by putting
\* nothing back that conflicts with the pool or that was created by the blocks.
OnlyReorganizeStrands ==
    [][ Stranded' \subseteq Stranded \/ ReorganizeCommit ]_allVars

\* While memory and disk agree, the wallets hear of everything that enters the pool,
\* whichever way it comes, but for an orphan that is accepted after its parent.  (Of a
\* block that was never connected they do not hear, and a reorganisation away from it
\* puts its transactions into the pool.)
OnlyOrphansEscapeWallets ==
    [][ ChainInv => \/ mapTx' \ setKnown' \subseteq mapTx \ setKnown
                    \/ \E o \in Tx : AcceptOrphan(o) ]_allVars
=============================================================================
