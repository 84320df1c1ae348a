------------------------ MODULE BlockTemplate_proofs ------------------------
(***************************************************************************)
(* Theorems about a mining thread, for every pool that arrivals, blocks,   *)
(* reorganisations and crashes can leave, and every order of the queue.    *)
(*                                                                         *)
(* The trust of the best block on disk only grows, so once it has left     *)
(* pindexPrev it never comes back to it: a block whose parent is the best  *)
(* block was collected on the index that it is now tested against.         *)
(***************************************************************************)
EXTENDS BlockTemplate, MemPool_proofs

\* The loop leaves chain and pool alone, and a crash ends it.
LEMMA TemplateStepOfPool ==
    ASSUME [TemplateNext]_<<allVars, templateVars>>
    PROVE  /\ [PoolNext]_allVars
           /\ miner = "collect" => UNCHANGED allVars \/ (PoolRestart /\ NoTemplate)
<1>1. CASE CreateNewBlock
  BY <1>1 DEF CreateNewBlock, ReadBest, BeginTemplate, PopHeap, LeaveOutTx, AddTx, EndTemplate,
              CheckWork
<1>2. CASE OtherThreads
  BY <1>2 DEF OtherThreads, PoolNext
<1>3. CASE PoolRestart /\ NoTemplate
  BY <1>3 DEF PoolNext
<1>4. QED
  BY <1>1, <1>2, <1>3 DEF TemplateNext

\* What the thread works on.
QueuesInv ==
    /\ vtx \in Seq(Tx)
    /\ miner \in {"idle", "prev"} => vtx = <<>> /\ setTried = {}
    /\ miner = "collect" =>
          /\ Taken \subseteq mapTx
          /\ vecPriority \subseteq mapTx
          /\ \A w \in Tx : setDependsOn[w] # {} => w \in mapTx

\* Appending to the block.
LEMMA AppendTaken ==
    ASSUME vtx \in Seq(Tx), NEW t \in Tx, vtx' = Append(vtx, t)
    PROVE  /\ vtx' \in Seq(Tx)
           /\ Len(vtx') = Len(vtx) + 1 /\ Len(vtx) \in Nat
           /\ vtx'[Len(vtx) + 1] = t
           /\ \A k \in 1..Len(vtx) : vtx'[k] = vtx[k]
           /\ Taken' = Taken \cup {t}
<1>1. /\ vtx' \in Seq(Tx)
      /\ Len(vtx') = Len(vtx) + 1 /\ Len(vtx) \in Nat
      /\ vtx'[Len(vtx) + 1] = t
      /\ \A k \in 1..Len(vtx) : vtx'[k] = vtx[k]
  OBVIOUS
<1>2. 1..Len(vtx') = (1..Len(vtx)) \cup {Len(vtx) + 1}
  BY <1>1
<1>3. Taken' = Taken \cup {t}
  BY <1>1, <1>2 DEF Taken
<1>4. QED
  BY <1>1, <1>3

LEMMA EmptyTaken ==
    ASSUME vtx = <<>>
    PROVE  vtx \in Seq(Tx) /\ Len(vtx) = 0 /\ Taken = {}
  BY DEF Taken

LEMMA EmptyTakenNext ==
    ASSUME vtx' = <<>>
    PROVE  vtx' \in Seq(Tx) /\ Len(vtx') = 0 /\ Taken' = {}
  BY DEF Taken

LEMMA QueuesStep ==
    ASSUME PoolInv, QueuesInv, [TemplateNext]_<<allVars, templateVars>>
    PROVE  QueuesInv'
<1>1. CASE UNCHANGED <<allVars, templateVars>>
  BY <1>1 DEF QueuesInv, Taken, allVars, poolVars, templateVars
<1>2. CASE ReadBest
  BY <1>2 DEF ReadBest, QueuesInv
<1>3. CASE BeginTemplate
  <2>1. /\ vtx = <<>> /\ UNCHANGED <<vtx, mapTx>> /\ vecPriority' \subseteq mapTx
        /\ miner' = "collect"
        /\ \A w \in Tx : setDependsOn'[w] # {} => w \in mapTx
    BY <1>3 DEF BeginTemplate, allVars, poolVars, QueuesInv
  <2> QED BY <2>1, EmptyTakenNext DEF QueuesInv
<1>4. ASSUME NEW t \in Tx, LeaveOutTx(t) PROVE QueuesInv'
  BY <1>4 DEF LeaveOutTx, PopHeap, QueuesInv, Taken, allVars, poolVars
<1>5. ASSUME NEW t \in Tx, AddTx(t) PROVE QueuesInv'
  <2>1. /\ miner = "collect" /\ miner' = "collect" /\ t \in vecPriority
        /\ vtx' = Append(vtx, t) /\ UNCHANGED mapTx
        /\ setDependsOn' = [w \in Tx |-> setDependsOn[w] \ {t}]
    BY <1>5 DEF AddTx, PopHeap, allVars, poolVars
  <2>2. PICK D \in SUBSET Dangling(t) :
            vecPriority' = (vecPriority \ {t}) \cup {w \in Tx : setDependsOn[w] = {t}} \cup D
    BY <1>5 DEF AddTx
  <2>3. D \subseteq mapTx
    BY DEF Dangling
  <2>4. vecPriority' \subseteq mapTx
    BY <2>1, <2>2, <2>3 DEF QueuesInv
  <2>5. \A w \in Tx : setDependsOn'[w] # {} => w \in mapTx
    BY <2>1 DEF QueuesInv
  <2>6. vtx' \in Seq(Tx) /\ Taken' \subseteq mapTx
    BY <2>1, AppendTaken DEF QueuesInv
  <2> QED BY <2>1, <2>4, <2>5, <2>6 DEF QueuesInv
<1>6. CASE EndTemplate
  BY <1>6 DEF EndTemplate, QueuesInv
<1>7. CASE NoTemplate
  BY <1>7, EmptyTakenNext DEF NoTemplate, QueuesInv
<1>8. CASE OtherThreads
  BY <1>8 DEF OtherThreads, templateVars, QueuesInv
<1>9. QED
  BY <1>1, <1>2, <1>3, <1>4, <1>5, <1>6, <1>7, <1>8 DEF TemplateNext, CreateNewBlock, CheckWork

-----------------------------------------------------------------------------
(* A block that is not stale connects.                                     *)

\* The best block on disk was never past pindexPrev when it was read, and has more trust
\* once it has moved on.
PrevInv ==
    miner # "idle" =>
        /\ pindexPrev \in Block
        /\ pindexPrev = diskBest \/ Trust[pindexPrev] < Trust[diskBest]

LEMMA PrevStep ==
    ASSUME ChainInv, ChainInv', PrevInv, [TemplateNext]_<<allVars, templateVars>>,
           [~SecondaryFails]_vars
    PROVE  /\ PrevInv'
           /\ pindexPrev' = diskBest' /\ miner \in {"collect", "block"} /\ miner' # "idle" =>
                 /\ pindexPrev = diskBest
                 /\ UNCHANGED <<pindexPrev, diskBest, diskTx>>
<1>1. /\ diskBest \in Block /\ diskBest' \in Block /\ pindexBest \in Block
      /\ \A b \in Block : Trust[b] \in Int
  BY TreeAssumption DEF ChainInv, TypeOK
<1>2. diskBest' = diskBest \/ Trust[diskBest'] > Trust[diskBest]
  <2>1. [Next]_vars
    BY TemplateStepOfPool, PoolStepOfChain
  <2>2. CASE UNCHANGED vars
    BY <2>2 DEF vars, diskVars
  <2>3. CASE ~SecondaryFails
    BY <2>1, <2>3, TrustStep
  <2> QED BY <2>2, <2>3
<1>3. diskBest' = diskBest => diskTx' = diskTx
  BY DEF ChainInv, DiskIsReplayOfBest, IndexOf
<1>4. CASE ReadBest
  <2>1. /\ pindexPrev' = pindexBest /\ miner = "idle" /\ UNCHANGED diskBest
    BY <1>4 DEF ReadBest, allVars, vars, diskVars
  <2>2. CASE pc = "secondary"
    BY <1>1, <2>1, <2>2 DEF ChainInv, RecordsInv, WorkInv, PrevInv
  <2>3. CASE pc # "secondary"
    BY <1>1, <2>1, <2>3 DEF ChainInv, RecordsInv, PrevInv
  <2> QED BY <2>2, <2>3, <2>1
<1>5. CASE NoTemplate
  BY <1>5 DEF NoTemplate, PrevInv
<1>6. CASE UNCHANGED pindexPrev /\ miner # "idle"
  BY <1>1, <1>2, <1>3, <1>6 DEF PrevInv
<1>7. CASE UNCHANGED <<miner, pindexPrev>>
  BY <1>1, <1>2, <1>3, <1>7 DEF PrevInv
<1>8. CASE CreateNewBlock
  BY <1>4, <1>5, <1>6, <1>8
     DEF CreateNewBlock, BeginTemplate, PopHeap, LeaveOutTx, AddTx, EndTemplate, CheckWork
<1>9. QED
  BY <1>5, <1>7, <1>8 DEF TemplateNext, OtherThreads, templateVars

ConnectsInv ==
    miner \in {"collect", "block"} /\ pindexPrev = diskBest => BlockConnects

\* What the loop adds to the block connects to it.
LEMMA AddConnects ==
    ASSUME PoolInv, PoolIsOutsideChain, QueuesInv, BlockConnects, NEW t \in Tx, AddTx(t)
    PROVE  BlockConnects'
<1>1. /\ miner = "collect" /\ t \in vecPriority /\ vtx' = Append(vtx, t) /\ UNCHANGED diskTx
      /\ MinerConnects(t)
  BY DEF AddTx, PopHeap, allVars, vars, diskVars
<1>2. diskTx[t] = Absent
  BY <1>1 DEF QueuesInv, PoolIsOutsideChain
<1> DEFINE n == Len(vtx)
<1>3. /\ Len(vtx') = n + 1 /\ n \in Nat /\ vtx'[n + 1] = t
      /\ \A k \in 1..n : vtx'[k] = vtx[k]
  BY <1>1, AppendTaken DEF QueuesInv
<1> HIDE DEF n
<1> SUFFICES ASSUME NEW k \in 1..(n + 1)
             PROVE  /\ diskTx[vtx'[k]] = Absent
                    /\ \A i \in Spends[vtx'[k]] :
                          /\ diskTx[i] = Unspent \/ \E j \in 1..(k - 1) : vtx'[j] = i
                          /\ \A j \in 1..(k - 1) : i \notin Spends[vtx'[j]]
  BY <1>1, <1>3 DEF BlockConnects
<1>4. \A j \in 1..(k - 1) : j \in 1..n /\ vtx'[j] = vtx[j]
  BY <1>3
<1>5. CASE k = n + 1
  <2> SUFFICES ASSUME NEW i \in Spends[t]
               PROVE  /\ diskTx[i] = Unspent \/ \E j \in 1..(k - 1) : vtx'[j] = i
                      /\ \A j \in 1..(k - 1) : i \notin Spends[vtx'[j]]
    BY <1>2, <1>3, <1>5
  <2>1. /\ \A j \in 1..n : i \notin Spends[vtx[j]]
        /\ diskTx[i] = Unspent \/ \E j \in 1..n : vtx[j] = i
    BY <1>1 DEF MinerConnects, SpentIn, Taken, n
  <2>2. k - 1 = n
    BY <1>3, <1>5
  <2> QED BY <1>4, <2>1, <2>2
<1>6. CASE k # n + 1
  <2>1. k \in 1..n /\ vtx'[k] = vtx[k]
    BY <1>3, <1>6
  <2>2. /\ diskTx[vtx[k]] = Absent
        /\ \A i \in Spends[vtx[k]] :
              /\ diskTx[i] = Unspent \/ \E j \in 1..(k - 1) : vtx[j] = i
              /\ \A j \in 1..(k - 1) : i \notin Spends[vtx[j]]
    BY <2>1 DEF BlockConnects, n
  <2> QED BY <1>4, <2>1, <2>2
<1>7. QED
  BY <1>5, <1>6

LEMMA ConnectsStep ==
    ASSUME ChainInv, ChainInv', PoolInv, PoolIsOutsideChain, QueuesInv, PrevInv, ConnectsInv,
           [TemplateNext]_<<allVars, templateVars>>, [~SecondaryFails]_vars
    PROVE  ConnectsInv'
<1> SUFFICES ASSUME miner' \in {"collect", "block"}, pindexPrev' = diskBest'
             PROVE  BlockConnects'
  BY DEF ConnectsInv
<1>1. CASE miner \in {"collect", "block"}
  <2>1. pindexPrev = diskBest /\ UNCHANGED diskTx /\ BlockConnects
    BY <1>1, PrevStep DEF ConnectsInv
  <2>2. CASE UNCHANGED vtx
    BY <2>1, <2>2 DEF BlockConnects
  <2>3. ASSUME NEW t \in Tx, AddTx(t) PROVE BlockConnects'
    BY <2>1, <2>3, AddConnects
  <2>4. CASE CreateNewBlock
    BY <1>1, <2>2, <2>3, <2>4
       DEF CreateNewBlock, ReadBest, BeginTemplate, PopHeap, LeaveOutTx, EndTemplate, CheckWork,
           NoTemplate
  <2> QED BY <2>2, <2>4 DEF TemplateNext, OtherThreads, NoTemplate, templateVars
<1>2. CASE miner \notin {"collect", "block"}
  <2>1. BeginTemplate
    BY <1>2 DEF TemplateNext, CreateNewBlock, ReadBest, PopHeap, LeaveOutTx, AddTx, EndTemplate,
                CheckWork, OtherThreads, NoTemplate, templateVars
  <2>2. vtx' = <<>>
    BY <2>1 DEF BeginTemplate, QueuesInv
  <2> QED BY <2>2, EmptyTakenNext DEF BlockConnects
<1>3. QED
  BY <1>1, <1>2

LEMMA TemplateOfPool == TemplateSpec => PoolSpec
<1>1. TemplateInit => PoolInit
  BY DEF TemplateInit
<1>2. [TemplateNext]_<<allVars, templateVars>> => [PoolNext]_allVars
  BY TemplateStepOfPool
<1>3. QED
  BY <1>1, <1>2, PTL DEF TemplateSpec, PoolSpec

\* Until a further block fails after a reorganisation, the transactions of every block that
\* CheckWork or CheckStake does not find stale connect to the best chain, whatever arrived
\* between reading the best block, collecting and solving, and with crashes anywhere.
THEOREM EveryTemplateConnects == TemplateSpec /\ FurtherBlocksConnect => []TemplateConnects
<1> DEFINE Pool == ChainInv /\ PoolInv /\ PoolIsOutsideChain
           Inv == QueuesInv /\ PrevInv /\ ConnectsInv
<1>1. TemplateInit => Inv
  BY EmptyTaken DEF TemplateInit, QueuesInv, PrevInv, ConnectsInv
<1>2. Pool /\ Pool' /\ Inv /\ [TemplateNext]_<<allVars, templateVars>> /\ [~SecondaryFails]_vars
        => Inv'
  BY QueuesStep, PrevStep, ConnectsStep
<1>3. Pool /\ Inv => TemplateConnects
  BY DEF TemplateConnects, ConnectsInv, Fresh, Idle, ChainInv, RecordsInv
<1>4. QED
  BY <1>1, <1>2, <1>3, TemplateOfPool, PoolAgreement, PTL DEF TemplateSpec, FurtherBlocksConnect

-----------------------------------------------------------------------------
(* No transaction is left waiting.                                         *)

\* What was neither tried nor is on the queue waits for exactly the transactions that
\* are not in the block yet, unless one of its inputs is nowhere.
WaitsInv ==
    miner = "collect" =>
        \A t \in mapTx \ (setTried \cup vecPriority) :
            DependsOn(t) \subseteq mapTx =>
                setDependsOn[t] = DependsOn(t) \ Taken /\ setDependsOn[t] # {}

LEMMA WaitsStep ==
    ASSUME PoolInv, QueuesInv, WaitsInv, [TemplateNext]_<<allVars, templateVars>>
    PROVE  WaitsInv'
<1>1. CASE UNCHANGED <<allVars, templateVars>>
  BY <1>1 DEF WaitsInv, Taken, DependsOn, allVars, vars, diskVars, poolVars, templateVars
<1>2. CASE miner' # "collect"
  BY <1>2 DEF WaitsInv
<1>3. CASE BeginTemplate
  <2>1. /\ UNCHANGED <<diskTx, mapTx, vtx>> /\ vtx = <<>>
        /\ vecPriority' = {t \in mapTx \ setTried' : DependsOn(t) = {}}
        /\ setDependsOn' = [t \in Tx |-> IF t \in mapTx \ setTried' /\ DependsOn(t) \subseteq mapTx
                                         THEN DependsOn(t) ELSE {}]
    BY <1>3 DEF BeginTemplate, QueuesInv, allVars, vars, diskVars, poolVars
  <2>2. Taken' = {}
    BY <2>1, EmptyTakenNext
  <2>3. \A t \in Tx : DependsOn(t)' = DependsOn(t)
    BY <2>1 DEF DependsOn
  <2>4. mapTx \subseteq Tx
    BY DEF PoolInv
  <2> SUFFICES ASSUME NEW t \in mapTx, t \notin vecPriority', t \notin setTried',
                      DependsOn(t) \subseteq mapTx
               PROVE  setDependsOn'[t] = DependsOn(t) \ {} /\ setDependsOn'[t] # {}
    BY <2>1, <2>2, <2>3, <2>4 DEF WaitsInv
  <2> QED BY <2>1, <2>4
<1>4. ASSUME NEW t \in Tx, LeaveOutTx(t) PROVE WaitsInv'
  <2>1. /\ UNCHANGED <<miner, diskTx, mapTx, vtx, setDependsOn>>
        /\ setTried' \cup vecPriority' = setTried \cup vecPriority
    BY <1>4 DEF LeaveOutTx, PopHeap, allVars, vars, diskVars, poolVars
  <2> QED BY <2>1 DEF WaitsInv, Taken, DependsOn
<1>5. ASSUME NEW t \in Tx, AddTx(t) PROVE WaitsInv'
  <2>1. /\ miner = "collect" /\ UNCHANGED <<miner, diskTx, mapTx>> /\ vtx' = Append(vtx, t)
        /\ setTried' = setTried \cup {t}
        /\ setDependsOn' = [w \in Tx |-> setDependsOn[w] \ {t}]
        /\ vecPriority \ {t} \subseteq vecPriority'
        /\ \A w \in Tx : setDependsOn[w] = {t} => w \in vecPriority'
    BY <1>5 DEF AddTx, PopHeap, allVars, vars, diskVars, poolVars
  <2>2. Taken' = Taken \cup {t}
    BY <2>1, AppendTaken DEF QueuesInv
  <2>3. \A w \in Tx : DependsOn(w)' = DependsOn(w)
    BY <2>1 DEF DependsOn
  <2>4. mapTx \subseteq Tx
    BY DEF PoolInv
  <2> SUFFICES ASSUME NEW w \in mapTx, w \notin setTried', w \notin vecPriority',
                      DependsOn(w) \subseteq mapTx
               PROVE  setDependsOn'[w] = DependsOn(w) \ Taken' /\ setDependsOn'[w] # {}
    BY <2>1, <2>3, <2>4 DEF WaitsInv
  <2>5. w \notin setTried \cup vecPriority /\ w \in Tx /\ setDependsOn[w] # {t}
    BY <2>1, <2>4
  <2>6. setDependsOn[w] = DependsOn(w) \ Taken /\ setDependsOn[w] # {}
    BY <2>1, <2>5 DEF WaitsInv
  <2> QED BY <2>1, <2>2, <2>5, <2>6
<1>6. CASE OtherThreads \/ NoTemplate
  BY <1>2, <1>6 DEF OtherThreads, NoTemplate, templateVars
<1>7. QED
  BY <1>1, <1>2, <1>3, <1>4, <1>5, <1>6
     DEF TemplateNext, CreateNewBlock, ReadBest, EndTemplate, CheckWork

\* CreateNewBlock tries every final pool transaction whose inputs are in the index or in its
\* block, for every graph of dependencies, every order of the queue and whatever it leaves
\* out; with crashes and failures of any kind before it.
THEOREM EveryTxTried == TemplateSpec => []EveryReadyTxIsTried
<1> DEFINE Inv == PoolInv /\ QueuesInv /\ WaitsInv
<1>1. TemplateInit => Inv
  BY PoolInvInit, EmptyTaken DEF TemplateInit, QueuesInv, WaitsInv
<1>2. Inv /\ [TemplateNext]_<<allVars, templateVars>> => Inv'
  BY TemplateStepOfPool, PoolInvStep, QueuesStep, WaitsStep
<1>3. Inv => EveryReadyTxIsTried
  <2> SUFFICES ASSUME Inv, miner = "collect", vecPriority = {}, NEW t \in mapTx \ setTried
               PROVE  \E i \in Spends[t] : diskTx[i] = Absent /\ i \notin Taken
    BY DEF EveryReadyTxIsTried
  <2>1. CASE DependsOn(t) \subseteq mapTx
    BY <2>1 DEF WaitsInv, DependsOn
  <2>2. CASE ~(DependsOn(t) \subseteq mapTx)
    BY <2>2 DEF QueuesInv, DependsOn
  <2> QED BY <2>1, <2>2
<1>4. QED
  BY <1>1, <1>2, <1>3, PTL DEF TemplateSpec
=============================================================================
