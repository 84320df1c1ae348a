--------------------------- MODULE MemPool_proofs ---------------------------
(***************************************************************************)
(* Theorems about the memory pool and the orphan transactions, for every   *)
(* tree of blocks, every set of transactions and every order of arrivals,  *)
(* reorganisations and crashes.                                            *)
(***************************************************************************)
EXTENDS MemPool, ChainState_proofs, FiniteSetTheorems

\* Every step is one of the chain, or leaves the chain alone.
LEMMA PoolStepOfChain ==
    ASSUME [PoolNext]_allVars
    PROVE  [Next]_vars
<1>1. CASE PoolSetBestChain
  BY <1>1 DEF PoolSetBestChain, PoolUnchangedStep, PoolExtendBest, PoolReorganizeConnect,
              PoolReorganizeCommit, PoolSecondaryConnect, PoolSecondaryFails,
              Next, NextNoCrash, SetBestChain
<1>2. CASE PoolRestart
  BY <1>2 DEF PoolRestart, Next
<1>3. CASE \E t \in Tx : SubmitTx(t) \/ ReceiveTx(t) \/ ReceiveOrphanTx(t)
  BY <1>3 DEF SubmitTx, ReceiveTx, ReceiveOrphanTx
<1>4. CASE ProcessOrphans
  BY <1>4 DEF ProcessOrphans, AcceptOrphan, RefuseOrphan, NextInQueue, EraseOrphans
<1>5. CASE UNCHANGED allVars
  BY <1>5 DEF allVars
<1>6. QED
  BY <1>1, <1>2, <1>3, <1>4, <1>5 DEF PoolNext

-----------------------------------------------------------------------------
(* mapNextTx.                                                              *)

\* next names exactly the spenders in pool.
Names(pool, next) ==
    \A i, s \in Tx : next[i] = s <=> s \in pool /\ i \in Spends[s]

PoolInv ==
    /\ mapTx \subseteq Tx
    /\ mapNextTx \in [Tx -> Tx \cup {Absent}]
    /\ Names(mapTx, mapNextTx)

\* addUnchecked for transactions that conflict neither with the pool nor with each other.
LEMMA WithNames ==
    ASSUME NEW pool \in SUBSET Tx, NEW next \in [Tx -> Tx \cup {Absent}], Names(pool, next),
           NEW R \in SUBSET Tx,
           \A s, r \in R : s # r => Spends[s] \cap Spends[r] = {},
           \A t \in R : ~Conflicts(t, next)
    PROVE  /\ With(next, R) \in [Tx -> Tx \cup {Absent}]
           /\ Names(pool \cup R, With(next, R))
<1>1. \A i \in Tx : SpentIn(R, i) => SpenderIn(R, i) \in R /\ i \in Spends[SpenderIn(R, i)]
  BY DEF SpentIn, SpenderIn
<1>2. With(next, R) \in [Tx -> Tx \cup {Absent}]
  BY <1>1 DEF With
<1>3. ASSUME NEW i \in Tx, NEW s \in Tx
      PROVE  With(next, R)[i] = s <=> s \in pool \cup R /\ i \in Spends[s]
  <2>1. CASE SpentIn(R, i)
    <3>1. PICK w \in R : i \in Spends[w] /\ With(next, R)[i] = w
      BY <1>1, <2>1 DEF With
    <3>2. s \notin R \/ s = w \/ i \notin Spends[s]
      BY <3>1
    <3>3. s \notin pool \/ i \notin Spends[s]
      BY <3>1, TxAssumption DEF Conflicts, Names
    <3> QED BY <3>1, <3>2, <3>3
  <2>2. CASE ~SpentIn(R, i)
    <3>1. With(next, R)[i] = next[i]
      BY <2>2 DEF With
    <3>2. s \in R => i \notin Spends[s]
      BY <2>2 DEF SpentIn
    <3> QED BY <3>1, <3>2 DEF Names
  <2> QED BY <2>1, <2>2
<1>4. QED
  BY <1>2, <1>3 DEF Names

\* remove for transactions of the pool.
LEMMA WithoutNames ==
    ASSUME NEW pool \in SUBSET Tx, NEW next \in [Tx -> Tx \cup {Absent}], Names(pool, next),
           NEW S \in SUBSET pool
    PROVE  /\ Without(next, S) \in [Tx -> Tx \cup {Absent}]
           /\ Names(pool \ S, Without(next, S))
<1>1. Without(next, S) \in [Tx -> Tx \cup {Absent}]
  BY DEF Without
<1>2. ASSUME NEW i \in Tx, NEW s \in Tx
      PROVE  Without(next, S)[i] = s <=> s \in pool \ S /\ i \in Spends[s]
  <2>1. CASE \E r \in S : i \in Spends[r]
    <3>1. PICK r \in S : i \in Spends[r]
      BY <2>1
    <3>2. Without(next, S)[i] = Absent /\ Absent # s
      BY <2>1, TxAssumption DEF Without
    <3>3. next[i] = r
      BY <3>1 DEF Names
    <3>4. ~(s \in pool \ S /\ i \in Spends[s])
      BY <3>3 DEF Names
    <3> QED BY <3>2, <3>4
  <2>2. CASE ~\E r \in S : i \in Spends[r]
    <3>1. Without(next, S)[i] = next[i]
      BY <2>2 DEF Without
    <3> QED BY <2>2, <3>1 DEF Names
  <2> QED BY <2>1, <2>2
<1>3. QED
  BY <1>1, <1>2 DEF Names

\* One transaction without a conflict is added.
LEMMA AddStep1 ==
    ASSUME PoolInv, NEW t \in Tx, ~Conflicts(t, mapNextTx), AddUnchecked(t)
    PROVE  PoolInv'
<1>1. /\ With(mapNextTx, {t}) \in [Tx -> Tx \cup {Absent}]
      /\ Names(mapTx \cup {t}, With(mapNextTx, {t}))
  BY WithNames DEF PoolInv
<1>2. QED
  BY <1>1 DEF PoolInv, AddUnchecked, Names

LEMMA RemoveStep ==
    ASSUME PoolInv, NEW S, Remove(S)
    PROVE  PoolInv'
<1>1. /\ Without(mapNextTx, mapTx \cap S) \in [Tx -> Tx \cup {Absent}]
      /\ Names(mapTx \ (mapTx \cap S), Without(mapNextTx, mapTx \cap S))
  BY WithoutNames DEF PoolInv
<1>2. mapTx \ (mapTx \cap S) = mapTx \ S
  OBVIOUS
<1>3. QED
  BY <1>1, <1>2 DEF PoolInv, Remove, Names

LEMMA ReorganizePoolStep ==
    ASSUME PoolInv, ReorganizePool
    PROVE  PoolInv'
<1>1. PICK R \in Resurrections :
          /\ mapTx' \subseteq mapTx \cup R
          /\ mapNextTx' = Without(With(mapNextTx, R), (mapTx \cup R) \ mapTx')
  BY DEF ReorganizePool
<1>2. /\ R \subseteq Tx
      /\ \A s, r \in R : s # r => Spends[s] \cap Spends[r] = {}
      /\ \A t \in R : ~Conflicts(t, mapNextTx)
  <2>1. /\ R \subseteq vResurrect
        /\ \A s, r \in R : s # r => Spends[s] \cap Spends[r] = {}
    BY DEF Resurrections
  <2>2. \A t \in vResurrect : t \in Poolable /\ ~Conflicts(t, mapNextTx)
    BY DEF vResurrect
  <2> QED BY <2>1, <2>2, PoolAssumption
<1> DEFINE pool == mapTx \cup R
           next == With(mapNextTx, R)
<1>3. pool \in SUBSET Tx /\ next \in [Tx -> Tx \cup {Absent}] /\ Names(pool, next)
  BY <1>2, WithNames DEF PoolInv
<1> HIDE DEF pool, next
<1>4. /\ Without(next, pool \ mapTx') \in [Tx -> Tx \cup {Absent}]
      /\ Names(pool \ (pool \ mapTx'), Without(next, pool \ mapTx'))
  BY <1>3, WithoutNames
<1>5. mapTx' \subseteq pool /\ mapNextTx' = Without(next, pool \ mapTx')
  BY <1>1 DEF pool, next
<1>6. pool \ (pool \ mapTx') = mapTx'
  BY <1>5
<1>7. QED
  BY <1>3, <1>4, <1>5, <1>6 DEF PoolInv, Names

LEMMA PoolInvStep ==
    ASSUME PoolInv, [PoolNext]_allVars
    PROVE  PoolInv'
<1>1. CASE UNCHANGED poolVars
  BY <1>1 DEF poolVars, PoolInv, Names
<1>2. CASE PoolSetBestChain
  <2>1. CASE PoolUnchangedStep \/ PoolReorganizeConnect \/ PoolSecondaryFails
    BY <1>1, <2>1 DEF PoolUnchangedStep, PoolReorganizeConnect, PoolSecondaryFails
  <2>2. CASE PoolExtendBest \/ PoolSecondaryConnect
    BY <1>1, <2>2, RemoveStep DEF PoolExtendBest, PoolSecondaryConnect
  <2>3. CASE PoolReorganizeCommit
    BY <1>1, <2>3, ReorganizePoolStep DEF PoolReorganizeCommit
  <2> QED BY <1>2, <2>1, <2>2, <2>3 DEF PoolSetBestChain
<1>3. CASE PoolRestart
  BY <1>3, TxAssumption DEF PoolRestart, PoolInv, Names
<1>4. ASSUME NEW t \in Tx, Accepts(t), AddUnchecked(t) PROVE PoolInv'
  BY <1>4, AddStep1 DEF Accepts, NotTaken
<1>5. CASE \E t \in Tx : SubmitTx(t) \/ ReceiveTx(t) \/ ReceiveOrphanTx(t)
  BY <1>1, <1>4, <1>5 DEF SubmitTx, ReceiveTx, ReceiveOrphanTx
<1>6. CASE ProcessOrphans
  BY <1>1, <1>4, <1>6 DEF ProcessOrphans, AcceptOrphan, RefuseOrphan, NextInQueue, EraseOrphans
<1>7. CASE UNCHANGED allVars
  BY <1>1, <1>7 DEF allVars
<1>8. QED
  BY <1>2, <1>3, <1>5, <1>6, <1>7 DEF PoolNext

LEMMA PoolInvInit == PoolInit => PoolInv
  BY TxAssumption DEF PoolInit, PoolInv, Names

\* CTxMemPool never holds two transactions that spend the same output, and mapNextTx
\* names exactly the spenders, through every arrival, block, reorganisation (also away
\* from a chain that is not valid) and crash.
THEOREM NoDoubleSpend == PoolSpec => []PoolHasNoDoubleSpend
<1>1. PoolInv => PoolHasNoDoubleSpend
  BY DEF PoolInv, Names, PoolHasNoDoubleSpend
<1>2. QED
  BY <1>1, PoolInvInit, PoolInvStep, PTL DEF PoolSpec

-----------------------------------------------------------------------------
(* The orphan maps.                                                        *)

OrphanInv ==
    /\ mapOrphanTransactions \subseteq Tx
    /\ IsFiniteSet(mapOrphanTransactions)
    /\ OrphanMapsAgree

LEMMA OrphanInvInit == PoolInit => OrphanInv
<1> SUFFICES ASSUME PoolInit PROVE OrphanInv
  OBVIOUS
<1>1. IsFiniteSet({}) /\ Cardinality({}) = 0
  BY FS_EmptySet
<1>2. [t \in Tx |-> {}] = [p \in Tx |-> {o \in {} : p \in Spends[o]}]
  OBVIOUS
<1>3. QED
  BY <1>1, <1>2, PoolAssumption DEF PoolInit, OrphanInv, OrphanMapsAgree

\* AddOrphanTx and LimitOrphanTxSize.
LEMMA AddOrphanStep ==
    ASSUME OrphanInv, NEW t \in Tx, ReceiveOrphanTx(t)
    PROVE  OrphanInv'
<1> DEFINE all == mapOrphanTransactions \cup {t}
           byPrev == [p \in Tx |-> mapOrphanTransactionsByPrev[p] \cup
                                       (IF p \in Spends[t] THEN {t} ELSE {})]
<1>1. PICK S \in SUBSET all :
          /\ Cardinality(S) = IF Cardinality(all) > MaxOrphans THEN MaxOrphans
                              ELSE Cardinality(all)
          /\ mapOrphanTransactions' = S
          /\ mapOrphanTransactionsByPrev' = ByPrev(byPrev, S)
  BY DEF ReceiveOrphanTx
<1>2. IsFiniteSet(all)
  BY FS_AddElement DEF OrphanInv
<1>3. Cardinality(all) \in Nat
  BY <1>2, FS_CardinalityType
<1>4. IsFiniteSet(S) /\ S \subseteq Tx
  BY <1>2, FS_Subset DEF OrphanInv
<1>5. Cardinality(S) <= MaxOrphans
  BY <1>1, <1>3, PoolAssumption
<1>6. \A p \in Tx : mapOrphanTransactionsByPrev[p] = {o \in mapOrphanTransactions : p \in Spends[o]}
  BY DEF OrphanInv, OrphanMapsAgree
<1>7. ASSUME NEW p \in Tx PROVE byPrev[p] \cap S = {o \in S : p \in Spends[o]}
  BY <1>6
<1>8. ByPrev(byPrev, S) = [p \in Tx |-> {o \in S : p \in Spends[o]}]
  BY <1>7 DEF ByPrev
<1>9. QED
  BY <1>1, <1>4, <1>5, <1>8 DEF OrphanInv, OrphanMapsAgree

\* EraseOrphanTx for everything on vEraseQueue.
LEMMA EraseOrphansStep ==
    ASSUME OrphanInv, EraseOrphans
    PROVE  OrphanInv'
<1> DEFINE S == mapOrphanTransactions \ vEraseQueue
<1>1. mapOrphanTransactions' = S /\ mapOrphanTransactionsByPrev' = ByPrev(mapOrphanTransactionsByPrev, S)
  BY DEF EraseOrphans
<1>2. IsFiniteSet(S) /\ Cardinality(S) <= Cardinality(mapOrphanTransactions) /\ S \subseteq Tx
  BY FS_Subset DEF OrphanInv
<1>3. Cardinality(S) \in Nat /\ Cardinality(mapOrphanTransactions) \in Nat
  BY <1>2, FS_CardinalityType DEF OrphanInv
<1>4. Cardinality(S) <= MaxOrphans
  BY <1>2, <1>3, PoolAssumption DEF OrphanInv, OrphanMapsAgree
<1>5. \A p \in Tx : mapOrphanTransactionsByPrev[p] = {o \in mapOrphanTransactions : p \in Spends[o]}
  BY DEF OrphanInv, OrphanMapsAgree
<1>6. ASSUME NEW p \in Tx
      PROVE  mapOrphanTransactionsByPrev[p] \cap S = {o \in S : p \in Spends[o]}
  BY <1>5
<1>7. ByPrev(mapOrphanTransactionsByPrev, S) = [p \in Tx |-> {o \in S : p \in Spends[o]}]
  BY <1>6 DEF ByPrev
<1>8. QED
  BY <1>1, <1>2, <1>4, <1>7 DEF OrphanInv, OrphanMapsAgree

LEMMA OrphanInvStep ==
    ASSUME OrphanInv, [PoolNext]_allVars
    PROVE  OrphanInv'
<1>1. CASE UNCHANGED orphanVars
  BY <1>1 DEF orphanVars, OrphanInv, OrphanMapsAgree
<1>2. CASE PoolSetBestChain
  BY <1>1, <1>2 DEF PoolSetBestChain, PoolUnchangedStep, PoolExtendBest, PoolReorganizeConnect,
                    PoolReorganizeCommit, PoolSecondaryConnect, PoolSecondaryFails
<1>3. CASE PoolRestart
  <2>1. IsFiniteSet({}) /\ Cardinality({}) = 0
    BY FS_EmptySet
  <2>2. [t \in Tx |-> {}] = [p \in Tx |-> {o \in {} : p \in Spends[o]}]
    OBVIOUS
  <2> QED BY <1>3, <2>1, <2>2, PoolAssumption DEF PoolRestart, OrphanInv, OrphanMapsAgree
<1>4. CASE \E t \in Tx : SubmitTx(t) \/ ReceiveTx(t) \/ ReceiveOrphanTx(t)
  BY <1>1, <1>4, AddOrphanStep DEF SubmitTx, ReceiveTx
<1>5. CASE ProcessOrphans
  BY <1>1, <1>5, EraseOrphansStep DEF ProcessOrphans, AcceptOrphan, RefuseOrphan, NextInQueue
<1>6. CASE UNCHANGED allVars
  BY <1>1, <1>6 DEF allVars
<1>7. QED
  BY <1>2, <1>3, <1>4, <1>5, <1>6 DEF PoolNext

\* AddOrphanTx, LimitOrphanTxSize and EraseOrphanTx keep the orphans within their bound
\* and the second map exact, whatever is evicted, accepted, refused or lost in a crash.
THEOREM OrphansAgree == PoolSpec => []OrphanMapsAgree
<1>1. OrphanInv => OrphanMapsAgree
  BY DEF OrphanInv
<1>2. QED
  BY <1>1, OrphanInvInit, OrphanInvStep, PTL DEF PoolSpec

-----------------------------------------------------------------------------
(* The orphans that the "tx" handler tries.                                *)

QueueInv ==
    /\ vWorkQueue \in Seq(Tx)
    /\ vOrphans \subseteq Tx
    /\ vWorkQueue = <<>> => vOrphans = {} /\ vEraseQueue = {}

LEMMA QueueInvStep ==
    ASSUME OrphanInv, QueueInv, [PoolNext]_allVars
    PROVE  QueueInv'
<1>1. CASE UNCHANGED queueVars
  BY <1>1 DEF queueVars, QueueInv
<1>2. \A p \in Tx : mapOrphanTransactionsByPrev[p] \subseteq Tx
  BY DEF OrphanInv, OrphanMapsAgree
<1>3. CASE PoolSetBestChain
  BY <1>1, <1>3 DEF PoolSetBestChain, PoolUnchangedStep, PoolExtendBest, PoolReorganizeConnect,
                    PoolReorganizeCommit, PoolSecondaryConnect, PoolSecondaryFails
<1>4. CASE PoolRestart
  BY <1>4 DEF PoolRestart, QueueInv
<1>5. CASE \E t \in Tx : SubmitTx(t) \/ ReceiveTx(t) \/ ReceiveOrphanTx(t)
  <2>1. ASSUME NEW t \in Tx, ReceiveTx(t) PROVE QueueInv'
    BY <1>2, <2>1 DEF ReceiveTx, QueueInv
  <2> QED BY <1>1, <1>5, <2>1 DEF SubmitTx, ReceiveOrphanTx
<1>6. CASE ProcessOrphans
  <2>1. ASSUME NEW o \in Tx, AcceptOrphan(o) PROVE QueueInv'
    <3>1. vWorkQueue' = Append(vWorkQueue, o) /\ vOrphans' \subseteq vOrphans
      BY <2>1 DEF AcceptOrphan
    <3>2. vWorkQueue' \in Seq(Tx) /\ vWorkQueue' # <<>>
      BY <3>1 DEF QueueInv
    <3> QED BY <3>1, <3>2 DEF QueueInv
  <2>2. ASSUME NEW o \in Tx, RefuseOrphan(o) PROVE QueueInv'
    BY <2>2 DEF RefuseOrphan, QueueInv
  <2>3. CASE NextInQueue
    <3>1. /\ vWorkQueue' \in Seq(Tx) /\ vWorkQueue' # <<>> /\ vWorkQueue[2] \in Tx
      BY <2>3 DEF NextInQueue, QueueInv
    <3> QED BY <1>2, <2>3, <3>1 DEF NextInQueue, QueueInv
  <2>4. CASE EraseOrphans
    BY <2>4 DEF EraseOrphans, QueueInv
  <2> QED BY <1>6, <2>1, <2>2, <2>3, <2>4 DEF ProcessOrphans
<1>7. CASE UNCHANGED allVars
  BY <1>1, <1>7 DEF allVars
<1>8. QED
  BY <1>3, <1>4, <1>5, <1>6, <1>7 DEF PoolNext

\* What is acceptable after o was added, and does not spend from o, was so before.
LEMMA AcceptsBefore ==
    ASSUME PoolInv, NEW o \in Tx, NEW x \in Tx, o \notin Spends[x],
           AddUnchecked(o), UNCHANGED diskTx, Accepts(x)'
    PROVE  Accepts(x)
<1>1. mapTx' = mapTx \cup {o} /\ mapNextTx' = With(mapNextTx, {o}) /\ Spends[x] \subseteq Tx
  BY TxAssumption DEF AddUnchecked
<1>2. /\ x \in Poolable /\ x \notin mapTx' /\ diskTx[x] = Absent
      /\ \A i \in Spends[x] : mapNextTx'[i] = Absent
      /\ \A i \in Spends[x] : diskTx[i] # Absent \/ i \in mapTx'
      /\ \A i \in Spends[x] : diskTx[i] \in {Absent, Unspent}
  BY DEF Accepts, NotTaken, Conflicts, MissingInputs
<1>3. \A i \in Tx : SpentIn({o}, i) => SpenderIn({o}, i) \in Tx
  BY DEF SpentIn, SpenderIn
<1>4. ASSUME NEW i \in Spends[x] PROVE mapNextTx[i] = Absent
  <2>1. i \in Tx /\ mapNextTx'[i] = Absent
    BY <1>1, <1>2
  <2>2. mapNextTx'[i] = IF SpentIn({o}, i) THEN SpenderIn({o}, i) ELSE mapNextTx[i]
    BY <1>1, <2>1 DEF With
  <2> QED BY <1>3, <2>1, <2>2, TxAssumption
<1>5. \A i \in Spends[x] : diskTx[i] # Absent \/ i \in mapTx
  BY <1>1, <1>2
<1>6. QED
  BY <1>1, <1>2, <1>4, <1>5 DEF Accepts, NotTaken, Conflicts, MissingInputs

LEMMA ForgottenStep ==
    ASSUME PoolInv, OrphanInv, QueueInv, QueueInv', [PoolNext]_allVars, NEW o \in Forgotten'
    PROVE  \/ o \in Forgotten
           \/ \E r \in Spends[o] : RefuseOrphan(r) /\ (r \in mapTx \/ diskTx[r] # Absent)
<1>1. /\ o \in mapOrphanTransactions' /\ o \notin vEraseQueue' /\ o \notin vOrphans'
      /\ Accepts(o)'
      /\ Spends[o] \cap vEraseQueue' # {}
      /\ \A k \in 2..Len(vWorkQueue') : vWorkQueue'[k] \notin Spends[o]
  BY DEF Forgotten
<1>2. vEraseQueue' # {} /\ vWorkQueue' # <<>>
  BY <1>1 DEF QueueInv
<1>3. CASE UNCHANGED allVars
  BY <1>1, <1>3 DEF Forgotten, allVars, vars, diskVars, poolVars, orphanVars, queueVars,
                    Accepts, NotTaken, Conflicts, MissingInputs
<1>4. CASE PoolSetBestChain \/ PoolRestart
  <2>1. vWorkQueue' = <<>>
    BY <1>4 DEF PoolSetBestChain, PoolUnchangedStep, PoolExtendBest, PoolReorganizeConnect,
                PoolReorganizeCommit, PoolSecondaryConnect, PoolSecondaryFails, PoolRestart, queueVars
  <2> QED BY <1>2, <2>1
<1>5. ASSUME NEW t \in Tx, SubmitTx(t) \/ ReceiveOrphanTx(t) PROVE FALSE
  BY <1>2, <1>5 DEF SubmitTx, ReceiveOrphanTx, Idle, queueVars
<1>6. ASSUME NEW t \in Tx, ReceiveTx(t) PROVE FALSE
  <2>1. t \in Spends[o] /\ o \in mapOrphanTransactions /\ o \notin mapOrphanTransactionsByPrev[t]
    BY <1>1, <1>6 DEF ReceiveTx, orphanVars
  <2> QED BY <2>1 DEF OrphanInv, OrphanMapsAgree
<1>7. ASSUME NEW a \in Tx, AcceptOrphan(a) PROVE o \in Forgotten
  <2>1. /\ vWorkQueue' = Append(vWorkQueue, a) /\ AddUnchecked(a) /\ UNCHANGED diskTx
        /\ UNCHANGED orphanVars
        /\ vEraseQueue' = vEraseQueue \cup {a} /\ vOrphans' = vOrphans \ {a}
        /\ vWorkQueue # <<>>
    BY <1>7 DEF AcceptOrphan, vars, diskVars
  <2>2. /\ Len(vWorkQueue') \in 2..Len(vWorkQueue') /\ vWorkQueue'[Len(vWorkQueue')] = a
        /\ \A k \in 2..Len(vWorkQueue) : k \in 2..Len(vWorkQueue') /\ vWorkQueue'[k] = vWorkQueue[k]
    BY <2>1 DEF QueueInv
  <2>3. a \notin Spends[o] /\ \A k \in 2..Len(vWorkQueue) : vWorkQueue[k] \notin Spends[o]
    BY <1>1, <2>2
  <2>4. o \in mapOrphanTransactions /\ o \in Tx
    BY <1>1, <2>1 DEF orphanVars, OrphanInv
  <2>5. Accepts(o)
    BY <1>1, <2>1, <2>3, <2>4, AcceptsBefore
  <2>6. o \notin vEraseQueue \cup vOrphans /\ Spends[o] \cap vEraseQueue # {}
    BY <1>1, <2>1, <2>3
  <2> QED BY <2>3, <2>4, <2>5, <2>6 DEF Forgotten
<1>8. ASSUME NEW r \in Tx, RefuseOrphan(r)
      PROVE  \/ o \in Forgotten
             \/ r \in Spends[o] /\ (r \in mapTx \/ diskTx[r] # Absent)
  <2>1. /\ UNCHANGED <<diskTx, mapTx, mapNextTx, mapOrphanTransactions, vWorkQueue>>
        /\ vOrphans' = vOrphans \ {r}
        /\ vEraseQueue' = IF AcceptMisses(r) THEN vEraseQueue ELSE vEraseQueue \cup {r}
    BY <1>8 DEF RefuseOrphan, vars, diskVars, poolVars, orphanVars
  <2>2. Accepts(o)
    BY <1>1, <2>1 DEF Accepts, NotTaken, Conflicts, MissingInputs
  <2>3. o # r /\ o \notin vOrphans /\ o \notin vEraseQueue
    BY <1>1, <2>1, <2>2 DEF Accepts, AcceptMisses
  <2>4. CASE r \in Spends[o]
    BY <2>2, <2>4 DEF Accepts, MissingInputs
  <2>5. CASE r \notin Spends[o]
    <3>1. Spends[o] \cap vEraseQueue # {}
      BY <1>1, <2>1, <2>5
    <3> QED BY <1>1, <2>1, <2>2, <2>3, <3>1 DEF Forgotten
  <2> QED BY <2>4, <2>5
<1>9. CASE NextInQueue
  <2>1. /\ UNCHANGED <<diskTx, mapTx, mapNextTx, orphanVars, vEraseQueue>>
        /\ Len(vWorkQueue) > 1 /\ vOrphans = {} /\ vWorkQueue' = Tail(vWorkQueue)
        /\ vOrphans' = mapOrphanTransactionsByPrev[vWorkQueue[2]]
    BY <1>9 DEF NextInQueue, vars, diskVars, poolVars
  <2>2. Accepts(o)
    BY <1>1, <2>1 DEF Accepts, NotTaken, Conflicts, MissingInputs
  <2>3. vWorkQueue[2] \in Tx /\ o \in mapOrphanTransactions
    BY <1>1, <2>1 DEF QueueInv, orphanVars
  <2>4. vWorkQueue[2] \notin Spends[o]
    BY <1>1, <2>1, <2>3 DEF OrphanInv, OrphanMapsAgree
  <2>5. ASSUME NEW k \in 2..Len(vWorkQueue) PROVE vWorkQueue[k] \notin Spends[o]
    <3>1. CASE k = 2
      BY <2>4, <3>1
    <3>2. CASE k # 2
      <4>1. k - 1 \in 2..Len(vWorkQueue') /\ vWorkQueue'[k - 1] = vWorkQueue[k]
        BY <2>1, <3>2 DEF QueueInv
      <4> QED BY <1>1, <4>1
    <3> QED BY <3>1, <3>2
  <2> QED BY <1>1, <2>1, <2>2, <2>3, <2>5 DEF Forgotten
<1>10. CASE EraseOrphans
  BY <1>2, <1>10 DEF EraseOrphans
<1>11. ASSUME NEW r \in Tx, RefuseOrphan(r)
       PROVE  \/ o \in Forgotten
              \/ \E q \in Spends[o] : RefuseOrphan(q) /\ (q \in mapTx \/ diskTx[q] # Absent)
  BY <1>8, <1>11
<1>12. QED
  BY <1>3, <1>4, <1>5, <1>6, <1>7, <1>9, <1>10, <1>11 DEF PoolNext, ProcessOrphans

\* The "tx" handler leaves no orphan behind that has become acceptable, for every graph of
\* orphans and every order in which it meets them, except behind an orphan that pool or
\* chain hold already.
THEOREM HandlerForgetsNone == PoolSpec => OnlyKnownOrphansHideOthers
<1> DEFINE Inv == PoolInv /\ OrphanInv /\ QueueInv
<1>1. PoolInit => Inv
  BY PoolInvInit, OrphanInvInit DEF PoolInit, QueueInv
<1>2. Inv /\ [PoolNext]_allVars => Inv'
  BY PoolInvStep, OrphanInvStep, QueueInvStep
<1>3. Inv /\ [PoolNext]_allVars =>
        [\A o \in Forgotten' : o \in Forgotten \/
            \E r \in Spends[o] : RefuseOrphan(r) /\ (r \in mapTx \/ diskTx[r] # Absent)]_allVars
  BY ForgottenStep, QueueInvStep
<1>4. QED
  BY <1>1, <1>2, <1>3, PTL DEF PoolSpec, OnlyKnownOrphansHideOthers

-----------------------------------------------------------------------------
(* The pool and the chain.                                                 *)

\* What a commit in an agreeing state does to the index on disk.
LEMMA IndexAbsent ==
    ASSUME NEW b \in Block, NEW t \in Tx
    PROVE  IndexOf(b)[t] = Absent <=> t \notin TxsOf(b)
  BY IndexOfIs, TxAssumption

\* Of two blocks of a branch one is above the other.
LEMMA ChainLinear ==
    \A c \in Block : \A a, b \in Chain[c] : a \in Chain[b] \/ b \in Chain[a]
<1> DEFINE Q(c) == \A a, b \in Chain[c] : a \in Chain[b] \/ b \in Chain[a]
           S == {c \in Block : ~Q(c)}
<1>1. SUFFICES ASSUME S # {} PROVE FALSE
  OBVIOUS
<1>2. PICK c \in S : c # Genesis => Parent[c] \notin S
  <2>1. S \in SUBSET Block
    OBVIOUS
  <2> HIDE DEF S
  <2> QED BY <1>1, <2>1, LowestBlock
<1>3. CASE c = Genesis
  BY <1>2, <1>3, ChainAssumption
<1>4. CASE c # Genesis
  <2>1. c \in Block /\ Parent[c] \in Block /\ Q(Parent[c])
    BY <1>2, <1>4, TreeAssumption
  <2>2. Chain[c] = {c} \cup Chain[Parent[c]]
    BY <1>4, <2>1, ChainAssumption
  <2>3. Q(c)
    BY <2>1, <2>2
  <2> QED BY <1>2, <2>3
<1>5. QED
  BY <1>3, <1>4

\* No transaction is in two blocks of a valid branch.
LEMMA OneBlock ==
    ASSUME NEW c \in Block, Sound(c), NEW a \in Chain[c], NEW b \in Chain[c], a # b,
           NEW t \in Txs[a]
    PROVE  t \notin Txs[b]
<1>1. a \in Block /\ b \in Block /\ Sound(a) /\ Sound(b)
  BY ChainAssumption, SoundChain
<1>2. WellFormed(a) /\ WellFormed(b)
  BY <1>1, SoundWellFormed
<1>3. a \in Chain[b] \/ b \in Chain[a]
  BY ChainLinear
<1>4. ASSUME NEW x \in Block, NEW y \in Block, x \in Chain[y], x # y, WellFormed(y)
      PROVE  Txs[x] \cap Txs[y] = {}
  <2>1. y # Genesis
    BY <1>4, ChainAssumption
  <2>2. x \in Chain[Parent[y]]
    BY <1>4, <2>1, ChainAssumption
  <2>3. Txs[x] \subseteq TxsOf(Parent[y])
    BY <2>2 DEF TxsOf
  <2> QED BY <1>4, <2>1, <2>3 DEF WellFormed
<1>5. QED
  BY <1>1, <1>2, <1>3, <1>4

\* A block that is connected leaves the pool.
LEMMA ConnectOutside ==
    ASSUME ChainInv, PoolInv, PoolIsOutsideChain,
           NEW b \in mapBlockIndex, b # Genesis, Parent[b] = diskBest, pc # "reorganize",
           CanConnect(b, diskTx), CommitBlock(b), Remove(Txs[b])
    PROVE  PoolIsOutsideChain'
<1>1. b \in Block /\ diskTx = IndexOf(diskBest) /\ diskBest \in Block
  BY DEF ChainInv, TypeOK, DiskIsReplayOfBest
<1>2. diskTx' = IndexOf(b)
  BY CommitStep DEF CommitBlock
<1>3. TxsOf(b) = Txs[b] \cup TxsOf(diskBest)
  BY <1>1, TxsOfStep
<1>4. ASSUME NEW t \in mapTx' PROVE diskTx'[t] = Absent
  <2>1. t \in mapTx /\ t \notin Txs[b] /\ t \in Tx /\ diskTx[t] = Absent
    BY <1>4 DEF Remove, PoolInv, PoolIsOutsideChain
  <2>2. t \notin TxsOf(diskBest)
    BY <1>1, <2>1, IndexAbsent
  <2> QED BY <1>1, <1>2, <1>3, <2>1, <2>2, IndexAbsent
<1>5. QED
  BY <1>4 DEF PoolIsOutsideChain

\* What is put back was in no block that stays, and what is connected is taken out.
LEMMA ReorganizeOutside ==
    ASSUME ChainInv, PoolInv, PoolInv', PoolIsOutsideChain, ReorganizeCommit, ReorganizePool
    PROVE  PoolIsOutsideChain'
<1>1. pc = "reorganize" /\ tip = pindexIntermediate /\ diskTx' = viewTx
  BY DEF ReorganizeCommit
<1>2. /\ pindexBest \in Block /\ pindexIntermediate \in Block /\ pindexBest = diskBest
      /\ diskTx' = IndexOf(pindexIntermediate)
      /\ diskTx = IndexOf(pindexBest) /\ Sound(pindexBest)
  BY <1>1, ReorganizeFacts DEF ChainInv, DiskIsReplayOfBest
<1>3. PICK R \in Resurrections : mapTx' \subseteq (mapTx \cup R) \ vDelete
  BY DEF ReorganizePool
<1>4. ASSUME NEW t \in mapTx', t \in TxsOf(pindexIntermediate) PROVE FALSE
  <2>1. PICK a \in Chain[pindexIntermediate] : t \in Txs[a]
    BY <1>4 DEF TxsOf
  <2>2. t \notin vDelete /\ t \in mapTx \cup R /\ t \in Tx
    BY <1>3, <1>4 DEF PoolInv
  <2>3. a \in Chain[pindexBest]
    BY <2>1, <2>2 DEF vDelete, vConnect
  <2>4. t \in TxsOf(pindexBest)
    BY <2>1, <2>3 DEF TxsOf
  <2>5. t \notin mapTx
    BY <1>2, <2>2, <2>4, IndexAbsent DEF PoolIsOutsideChain
  <2>6. t \in vResurrect
    BY <2>2, <2>5 DEF Resurrections
  <2>7. PICK b \in vDisconnect : t \in Txs[b]
    BY <2>6 DEF vResurrect
  <2>8. b \in Chain[pindexBest] /\ a # b
    BY <2>1, <2>7 DEF vDisconnect
  <2> QED BY <1>2, <2>1, <2>3, <2>7, <2>8, OneBlock
<1>5. QED
  BY <1>2, <1>4, IndexAbsent DEF PoolIsOutsideChain, PoolInv

LEMMA OutsideStep ==
    ASSUME ChainInv, PoolInv, PoolIsOutsideChain, [PoolNext]_allVars
    PROVE  PoolIsOutsideChain'
<1>0. PoolInv'
  BY PoolInvStep
<1>1. CASE UNCHANGED <<diskTx, mapTx>>
  BY <1>1 DEF PoolIsOutsideChain
<1>2. CASE PoolUnchangedStep
  <2>1. UNCHANGED <<diskTx, mapTx>>
    BY <1>2 DEF PoolUnchangedStep, AddToBlockIndex, ExtendFails, BeginReorganize,
                ReorganizeDisconnect, ReorganizeFails, NewBestBlock, diskVars, poolVars
  <2> QED BY <1>1, <2>1
<1>3. CASE PoolExtendBest
  <2>1. /\ pindexNew \in mapBlockIndex /\ pindexNew # Genesis /\ Parent[pindexNew] = diskBest
        /\ pc # "reorganize" /\ CanConnect(pindexNew, diskTx) /\ CommitBlock(pindexNew)
    BY <1>3 DEF PoolExtendBest, ExtendBest, ChainInv, WorkInv, RecordsInv
  <2>2. PrevIsLinked(pindexNew, pnext)
    BY <2>1, CommitStep
  <2>3. Remove(Txs[pindexNew])
    BY <1>3, <2>2 DEF PoolExtendBest
  <2> QED BY <2>1, <2>3, ConnectOutside
<1>4. CASE PoolReorganizeConnect
  <2>1. UNCHANGED <<diskTx, mapTx>>
    BY <1>4 DEF PoolReorganizeConnect, ReorganizeConnect, diskVars, poolVars
  <2> QED BY <1>1, <2>1
<1>5. CASE PoolReorganizeCommit
  <2>1. ReorganizeCommit /\ pc = "reorganize"
    BY <1>5 DEF PoolReorganizeCommit, ReorganizeCommit
  <2>2. ForkIsLinked
    BY <2>1, ReorganizeFacts, ForkLinked
  <2>3. ReorganizePool
    BY <1>5, <2>2 DEF PoolReorganizeCommit
  <2> QED BY <1>0, <2>1, <2>3, ReorganizeOutside
<1>6. CASE PoolSecondaryConnect
  <2> DEFINE b == StepTowards(tip, pindexNew)
  <2>1. /\ pc = "secondary" /\ tip # pindexNew
        /\ CanConnect(b, diskTx) /\ CommitBlock(b) /\ tip' = b /\ Remove(Txs[tip'])
    BY <1>6 DEF PoolSecondaryConnect, SecondaryConnect
  <2>2. b \in mapBlockIndex /\ b # Genesis /\ Parent[b] = diskBest
    BY <2>1, SecondaryFacts
  <2> HIDE DEF b
  <2> QED BY <2>1, <2>2, ConnectOutside
<1>7. CASE PoolSecondaryFails
  <2> DEFINE b == StepTowards(tip, pindexNew)
  <2>1. /\ pc = "secondary" /\ tip # pindexNew /\ UNCHANGED poolVars
        /\ (CanConnect(b, diskTx) /\ ~PrevIsLinked(b, pnext)) \/ UNCHANGED diskVars
    BY <1>7 DEF PoolSecondaryFails, SecondaryFails
  <2>2. b \in mapBlockIndex /\ b # Genesis /\ Parent[b] = diskBest
    BY <2>1, SecondaryFacts
  <2> HIDE DEF b
  <2>3. UNCHANGED <<diskTx, mapTx>>
    BY <2>1, <2>2, CommitStep DEF diskVars, poolVars
  <2> QED BY <1>1, <2>3
<1>8. CASE PoolRestart
  BY <1>8 DEF PoolRestart, PoolIsOutsideChain
<1>9. ASSUME NEW t \in Tx, Accepts(t), AddUnchecked(t), UNCHANGED vars PROVE PoolIsOutsideChain'
  BY <1>9 DEF Accepts, NotTaken, AddUnchecked, vars, diskVars, PoolIsOutsideChain
<1>10. CASE \E t \in Tx : SubmitTx(t) \/ ReceiveTx(t) \/ ReceiveOrphanTx(t)
  BY <1>1, <1>9, <1>10 DEF SubmitTx, ReceiveTx, ReceiveOrphanTx, vars, diskVars, poolVars
<1>11. CASE ProcessOrphans
  BY <1>1, <1>9, <1>11 DEF ProcessOrphans, AcceptOrphan, RefuseOrphan, NextInQueue, EraseOrphans,
                           vars, diskVars, poolVars
<1>12. CASE UNCHANGED allVars
  BY <1>1, <1>12 DEF allVars, vars, diskVars, poolVars
<1>13. QED
  BY <1>2, <1>3, <1>4, <1>5, <1>6, <1>7, <1>8, <1>10, <1>11, <1>12 DEF PoolNext, PoolSetBestChain

\* SetBestChainInner and Reorganize keep pool and chain apart, whatever is put back.
THEOREM PoolStaysApart == PoolSpec => PoolStaysOutsideChain
<1>1. PoolInv /\ [PoolNext]_allVars =>
        [ChainInv /\ PoolIsOutsideChain => PoolIsOutsideChain']_allVars
  BY OutsideStep
<1>2. QED
  BY <1>1, PoolInvInit, PoolInvStep, PTL DEF PoolSpec, PoolStaysOutsideChain

\* The invariants of the chain and of the pool together, while no further block fails.
LEMMA PoolAgreement ==
    PoolSpec /\ FurtherBlocksConnect => [](ChainInv /\ PoolInv /\ PoolIsOutsideChain)
<1> DEFINE Inv == ChainInv /\ PoolInv /\ PoolIsOutsideChain
<1>1. PoolInit => Inv
  BY PoolInvInit, ChainInit DEF PoolInit, PoolIsOutsideChain
<1>2. Inv /\ [PoolNext]_allVars /\ [~SecondaryFails]_vars => Inv'
  <2> SUFFICES ASSUME Inv, [PoolNext]_allVars, [~SecondaryFails]_vars PROVE Inv'
    OBVIOUS
  <2>1. [Next]_vars
    BY PoolStepOfChain
  <2>2. CASE UNCHANGED vars
    BY <2>2, StutterStep, PoolInvStep, OutsideStep
  <2>3. CASE ~SecondaryFails
    BY <2>1, <2>3, ChainStep, PoolInvStep, OutsideStep
  <2> QED BY <2>2, <2>3
<1>3. QED
  BY <1>1, <1>2, PTL DEF PoolSpec, FurtherBlocksConnect

\* Until a further block fails after a reorganisation, the pool never holds what the chain
\* on disk has, with crashes and invalid blocks anywhere.
THEOREM PoolApart == PoolSpec /\ FurtherBlocksConnect => []PoolIsOutsideChain
  BY PoolAgreement, PTL

-----------------------------------------------------------------------------
(* Stranded transactions.                                                  *)

\* Connecting a block never takes a record away and leaves one for each of its
\* transactions.
LEMMA ConnectKeeps ==
    ASSUME NEW b \in Block, NEW idx, NEW i \in Tx
    PROVE  ConnectTx(b, idx)[i] = Absent => idx[i] = Absent /\ i \notin Txs[b]
<1>1. SpentIn(Txs[b], i) => SpenderIn(Txs[b], i) \in Tx
  BY TxAssumption DEF SpentIn, SpenderIn
<1>2. ConnectTx(b, idx)[i] = IF SpentIn(Txs[b], i) THEN SpenderIn(Txs[b], i)
                             ELSE IF i \in Txs[b] THEN Unspent ELSE idx[i]
  BY DEF ConnectTx
<1>3. QED
  BY <1>1, <1>2, TxAssumption

\* Nobody is stranded if the pool loses only what the index gains.
LEMMA StrandedKeeps ==
    ASSUME PoolInv', mapTx' \subseteq mapTx,
           \A i \in Tx : diskTx'[i] = Absent =>
               diskTx[i] = Absent /\ (i \in mapTx => i \in mapTx')
    PROVE  Stranded' \subseteq Stranded
<1> SUFFICES ASSUME NEW t \in Stranded' PROVE t \in Stranded
  OBVIOUS
<1>1. t \in mapTx' /\ t \in Tx /\ \E i \in Spends[t] : i \notin mapTx' /\ diskTx'[i] = Absent
  BY DEF Stranded, PoolInv
<1>2. PICK i \in Spends[t] : i \notin mapTx' /\ diskTx'[i] = Absent
  BY <1>1
<1>3. i \in Tx
  BY <1>1, TxAssumption
<1>4. diskTx[i] = Absent /\ i \notin mapTx
  BY <1>2, <1>3
<1>5. QED
  BY <1>1, <1>2, <1>4 DEF Stranded

LEMMA StrandedStep ==
    ASSUME PoolInv, TypeOK, FoundInv, [PoolNext]_allVars
    PROVE  Stranded' \subseteq Stranded \/ ReorganizeCommit
<1>0. PoolInv'
  BY PoolInvStep
<1>1. CASE UNCHANGED <<diskTx, mapTx>>
  BY <1>1 DEF Stranded
<1>2. CASE PoolUnchangedStep \/ PoolReorganizeConnect
  <2>1. UNCHANGED <<diskTx, mapTx>>
    BY <1>2 DEF PoolUnchangedStep, AddToBlockIndex, ExtendFails, BeginReorganize,
                ReorganizeDisconnect, ReorganizeFails, NewBestBlock, diskVars, poolVars,
                PoolReorganizeConnect, ReorganizeConnect
  <2> QED BY <1>1, <2>1
<1>3. ASSUME NEW b \in Block, CommitBlock(b), Remove(Txs[b]) \/ UNCHANGED poolVars
      PROVE  Stranded' \subseteq Stranded
  <2>1. \A i \in Tx : diskTx'[i] = Absent => diskTx[i] = Absent /\ i \notin Txs[b]
    BY <1>3, ConnectKeeps DEF CommitBlock
  <2>2. mapTx' \subseteq mapTx /\ \A i \in mapTx \ Txs[b] : i \in mapTx'
    BY <1>3 DEF Remove, poolVars
  <2> QED BY <1>0, <2>1, <2>2, StrandedKeeps
<1>4. CASE PoolExtendBest
  <2>1. pindexNew \in Block /\ CommitBlock(pindexNew)
        /\ (Remove(Txs[pindexNew]) \/ UNCHANGED poolVars)
    BY <1>4 DEF PoolExtendBest, ExtendBest, TypeOK
  <2> QED BY <1>3, <2>1
<1>5. CASE PoolSecondaryConnect
  <2> DEFINE b == StepTowards(tip, pindexNew)
  <2>1. b \in Block /\ CommitBlock(b) /\ tip' = b /\ Remove(Txs[tip'])
    BY <1>5, WorkBlock DEF PoolSecondaryConnect, SecondaryConnect
  <2> HIDE DEF b
  <2> QED BY <1>3, <2>1
<1>6. CASE PoolSecondaryFails
  <2> DEFINE b == StepTowards(tip, pindexNew)
  <2>1. b \in Block /\ (CommitBlock(b) \/ UNCHANGED diskVars) /\ UNCHANGED poolVars
    BY <1>6, WorkBlock DEF PoolSecondaryFails, SecondaryFails
  <2> HIDE DEF b
  <2> QED BY <1>1, <1>3, <2>1 DEF diskVars, poolVars
<1>7. CASE PoolRestart
  BY <1>7 DEF PoolRestart, Stranded
<1>8. ASSUME NEW t \in Tx, Accepts(t), AddUnchecked(t), UNCHANGED vars
      PROVE  Stranded' \subseteq Stranded
  BY <1>8 DEF Accepts, MissingInputs, AddUnchecked, vars, diskVars, Stranded
<1>9. CASE \E t \in Tx : SubmitTx(t) \/ ReceiveTx(t) \/ ReceiveOrphanTx(t)
  BY <1>1, <1>8, <1>9 DEF SubmitTx, ReceiveTx, ReceiveOrphanTx, vars, diskVars, poolVars
<1>10. CASE ProcessOrphans
  BY <1>1, <1>8, <1>10 DEF ProcessOrphans, AcceptOrphan, RefuseOrphan, NextInQueue, EraseOrphans,
                           vars, diskVars, poolVars
<1>11. CASE UNCHANGED allVars
  BY <1>1, <1>11 DEF allVars, vars, diskVars, poolVars
<1>12. CASE PoolReorganizeCommit
  BY <1>12 DEF PoolReorganizeCommit
<1>13. QED
  BY <1>2, <1>4, <1>5, <1>6, <1>7, <1>9, <1>10, <1>11, <1>12 DEF PoolNext, PoolSetBestChain

\* Whatever blocks, failures and crashes come, only the commit of a reorganisation leaves
\* a transaction in the pool without its inputs.
THEOREM ReorganizeStrands == PoolSpec => OnlyReorganizeStrands
<1> DEFINE Inv == PoolInv /\ TypeOK /\ FoundInv
<1>1. PoolInit => Inv
  BY PoolInvInit, ChainInit, FoundInit DEF PoolInit, ChainInv
<1>2. Inv /\ [PoolNext]_allVars => Inv'
  BY PoolStepOfChain, PoolInvStep, TypeStep, FoundStep
<1>3. Inv /\ [PoolNext]_allVars => [Stranded' \subseteq Stranded \/ ReorganizeCommit]_allVars
  BY StrandedStep
<1>4. QED
  BY <1>1, <1>2, <1>3, PTL DEF PoolSpec, OnlyReorganizeStrands

-----------------------------------------------------------------------------
(* What the wallets are told.                                              *)

\* The wallets know every transaction of the chain on disk and of the branch in the batch.
KnownInv ==
    /\ TxsOf(diskBest) \subseteq setKnown
    /\ pc = "reorganize" => TxsOf(tip) \subseteq setKnown

LEMMA KnownStep ==
    ASSUME ChainInv, ChainInv', KnownInv, [PoolNext]_allVars
    PROVE  KnownInv'
<1>0. /\ diskBest \in Block /\ tip \in Block /\ pindexBest \in Block
      /\ pc # "secondary" => pindexBest = diskBest
  BY DEF ChainInv, TypeOK, RecordsInv
<1>1. CASE UNCHANGED <<diskBest, pc, tip, setKnown>>
  BY <1>1 DEF KnownInv, TxsOf
<1>2. ASSUME setKnown \subseteq setKnown', diskBest' = diskBest, pc' # "reorganize"
      PROVE  KnownInv'
  BY <1>2 DEF KnownInv, TxsOf
<1>3. ASSUME NEW b \in Block, b # Genesis, Parent[b] = diskBest, diskBest' = b,
             setKnown' = setKnown \cup Txs[b], pc' # "reorganize"
      PROVE  KnownInv'
  <2>1. TxsOf(b) = Txs[b] \cup TxsOf(diskBest)
    BY <1>3, TxsOfStep
  <2> QED BY <1>3, <2>1 DEF KnownInv, TxsOf
<1>4. CASE PoolUnchangedStep
  <2>1. UNCHANGED setKnown
    BY <1>4 DEF PoolUnchangedStep
  <2>2. ASSUME NEW b \in Block, AddToBlockIndex(b) PROVE KnownInv'
    BY <1>2, <2>1, <2>2 DEF AddToBlockIndex
  <2>3. CASE ExtendFails \/ ReorganizeFails \/ NewBestBlock
    BY <1>2, <2>1, <2>3 DEF ExtendFails, ReorganizeFails, NewBestBlock, Finish, diskVars
  <2>4. CASE BeginReorganize
    <3>1. tip' = diskBest /\ diskBest' = diskBest
      BY <1>0, <2>4 DEF BeginReorganize, diskVars
    <3> QED BY <2>1, <3>1 DEF KnownInv, TxsOf
  <2>5. CASE ReorganizeDisconnect
    <3>1. /\ pc = "reorganize" /\ tip \notin Chain[pindexIntermediate] /\ tip' = Parent[tip]
          /\ diskBest' = diskBest
      BY <2>5 DEF ReorganizeDisconnect, diskVars
    <3>2. tip # Genesis
      BY <3>1, ReorganizeFacts, ChainAncestry DEF Ancestry
    <3>3. TxsOf(tip) = Txs[tip] \cup TxsOf(Parent[tip])
      BY <1>0, <3>2, TxsOfStep
    <3> QED BY <2>1, <3>1, <3>3 DEF KnownInv, TxsOf
  <2> QED BY <1>4, <2>2, <2>3, <2>4, <2>5 DEF PoolUnchangedStep
<1>5. CASE PoolExtendBest
  <2>1. /\ pindexNew \in Block /\ pindexNew # Genesis /\ Parent[pindexNew] = diskBest
        /\ diskBest' = pindexNew /\ pc' # "reorganize" /\ setKnown' = setKnown \cup Txs[pindexNew]
    BY <1>0, <1>5 DEF PoolExtendBest, ExtendBest, CommitBlock, Finish, ChainInv, TypeOK, WorkInv
  <2> QED BY <1>3, <2>1
<1>6. CASE PoolReorganizeConnect
  <2> DEFINE b == StepTowards(tip, pindexIntermediate)
  <2>1. /\ pc = "reorganize" /\ tip \in Chain[pindexIntermediate] \ {pindexIntermediate}
        /\ tip' = b /\ diskBest' = diskBest /\ setKnown' = setKnown \cup Txs[tip']
    BY <1>6 DEF PoolReorganizeConnect, ReorganizeConnect, diskVars
  <2>2. b \in Block /\ b # Genesis /\ Parent[b] = tip
    BY <2>1, StepTowardsIs DEF ChainInv, TypeOK
  <2> HIDE DEF b
  <2>3. TxsOf(b) = Txs[b] \cup TxsOf(tip)
    BY <2>2, TxsOfStep
  <2> QED BY <2>1, <2>3 DEF KnownInv, TxsOf
<1>7. CASE PoolReorganizeCommit
  <2>1. /\ pc = "reorganize" /\ tip = pindexIntermediate /\ diskBest' = pindexIntermediate
        /\ setKnown' = setKnown /\ pc' # "reorganize"
    BY <1>7 DEF PoolReorganizeCommit, ReorganizeCommit, Finish
  <2> QED BY <2>1 DEF KnownInv, TxsOf
<1>8. CASE PoolSecondaryConnect
  <2> DEFINE b == StepTowards(tip, pindexNew)
  <2>1. /\ pc = "secondary" /\ tip # pindexNew /\ CommitBlock(b) /\ tip' = b /\ pc' = pc
        /\ setKnown' = setKnown \cup Txs[tip']
    BY <1>8 DEF PoolSecondaryConnect, SecondaryConnect
  <2>2. b \in Block /\ b # Genesis /\ Parent[b] = diskBest
    BY <2>1, SecondaryFacts
  <2> HIDE DEF b
  <2> QED BY <1>3, <2>1, <2>2 DEF CommitBlock
<1>9. CASE PoolSecondaryFails
  <2> DEFINE b == StepTowards(tip, pindexNew)
  <2>1. /\ pc = "secondary" /\ tip # pindexNew /\ pc' # "reorganize"
        /\ setKnown' = IF diskBest' = b THEN setKnown \cup Txs[b] ELSE setKnown
        /\ diskBest' = b \/ diskBest' = diskBest
    BY <1>9 DEF PoolSecondaryFails, SecondaryFails, CommitBlock, Finish, diskVars
  <2>2. b \in Block /\ b # Genesis /\ Parent[b] = diskBest
    BY <2>1, SecondaryFacts
  <2> HIDE DEF b
  <2> QED BY <1>2, <1>3, <2>1, <2>2
<1>10. CASE PoolRestart
  BY <1>2, <1>10 DEF PoolRestart, Restart, Finish, diskVars
<1>11. ASSUME setKnown \subseteq setKnown', UNCHANGED vars PROVE KnownInv'
  BY <1>11 DEF KnownInv, TxsOf, vars, diskVars, workVars
<1>12. CASE \E t \in Tx : SubmitTx(t) \/ ReceiveTx(t) \/ ReceiveOrphanTx(t)
  BY <1>11, <1>12 DEF SubmitTx, ReceiveTx, ReceiveOrphanTx
<1>13. CASE ProcessOrphans
  BY <1>11, <1>13 DEF ProcessOrphans, AcceptOrphan, RefuseOrphan, NextInQueue, EraseOrphans
<1>14. CASE UNCHANGED allVars
  BY <1>11, <1>14 DEF allVars
<1>15. QED
  BY <1>4, <1>5, <1>6, <1>7, <1>8, <1>9, <1>10, <1>12, <1>13, <1>14 DEF PoolNext, PoolSetBestChain

LEMMA WalletsStep ==
    ASSUME ChainInv, KnownInv, [PoolNext]_allVars
    PROVE  mapTx' \ setKnown' \subseteq mapTx \ setKnown \/ \E o \in Tx : AcceptOrphan(o)
<1>1. ASSUME setKnown \subseteq setKnown', mapTx' \subseteq mapTx \cup setKnown'
      PROVE  mapTx' \ setKnown' \subseteq mapTx \ setKnown
  BY <1>1
<1>2. CASE PoolUnchangedStep \/ PoolReorganizeConnect
  BY <1>1, <1>2 DEF PoolUnchangedStep, PoolReorganizeConnect, poolVars
<1>3. CASE PoolExtendBest \/ PoolSecondaryConnect
  BY <1>1, <1>3 DEF PoolExtendBest, PoolSecondaryConnect, Remove, poolVars
<1>4. CASE PoolSecondaryFails
  <2>1. mapTx' = mapTx /\ setKnown \subseteq setKnown'
    BY <1>4 DEF PoolSecondaryFails, poolVars
  <2> QED BY <1>1, <2>1
<1>5. CASE PoolReorganizeCommit
  <2>1. /\ pindexBest = diskBest /\ setKnown' = setKnown
    BY <1>5 DEF PoolReorganizeCommit, ReorganizeCommit, ChainInv, RecordsInv
  <2>2. ASSUME ReorganizePool PROVE mapTx' \subseteq mapTx \cup vResurrect
    <3>1. PICK R \in Resurrections : mapTx' \subseteq mapTx \cup R
      BY <2>2 DEF ReorganizePool
    <3>2. R \subseteq vResurrect
      BY DEF Resurrections
    <3> QED BY <3>1, <3>2
  <2>3. vResurrect \subseteq TxsOf(diskBest)
    BY <2>1 DEF vResurrect, vDisconnect, TxsOf
  <2>4. mapTx' \subseteq mapTx \cup vResurrect
    BY <1>5, <2>2 DEF PoolReorganizeCommit, poolVars
  <2>5. mapTx' \subseteq mapTx \cup setKnown'
    BY <2>1, <2>3, <2>4 DEF KnownInv
  <2> QED BY <1>1, <2>1, <2>5
<1>6. CASE PoolRestart
  BY <1>6 DEF PoolRestart
<1>7. CASE \E t \in Tx : SubmitTx(t) \/ ReceiveTx(t) \/ ReceiveOrphanTx(t)
  BY <1>1, <1>7 DEF SubmitTx, ReceiveTx, ReceiveOrphanTx, AddUnchecked, poolVars
<1>8. CASE ProcessOrphans
  BY <1>1, <1>8 DEF ProcessOrphans, RefuseOrphan, NextInQueue, EraseOrphans, poolVars
<1>9. CASE UNCHANGED allVars
  BY <1>1, <1>9 DEF allVars, poolVars
<1>10. QED
  BY <1>2, <1>3, <1>4, <1>5, <1>6, <1>7, <1>8, <1>9 DEF PoolNext, PoolSetBestChain

\* Until a further block fails after a reorganisation: SyncWithWallets has been called for
\* everything in the pool that did not come in as an orphan.
THEOREM WalletsHear == PoolSpec /\ FurtherBlocksConnect => OnlyOrphansEscapeWallets
<1>1. PoolInit => KnownInv
  BY TreeAssumption, ChainAssumption, TxAssumption DEF PoolInit, Init, KnownInv, TxsOf
<1>2. ChainInv /\ ChainInv' /\ KnownInv /\ [PoolNext]_allVars => KnownInv'
  BY KnownStep
<1>3. ChainInv /\ KnownInv /\ [PoolNext]_allVars =>
        [ChainInv => \/ mapTx' \ setKnown' \subseteq mapTx \ setKnown
                     \/ \E o \in Tx : AcceptOrphan(o)]_allVars
  BY WalletsStep
<1>4. QED
  BY <1>1, <1>2, <1>3, PoolAgreement, PTL DEF PoolSpec, OnlyOrphansEscapeWallets
=============================================================================
