--------------------------- MODULE BlockTemplate ---------------------------
(***************************************************************************)
(* A mining thread of miner.cpp: the best block is read without a lock,    *)
(* CreateNewBlock puts a block together from the memory pool while it holds*)
(* cs_main and mempool.cs, and when the block is solved, CheckWork or      *)
(* CheckStake compares its parent with the best block again.  Blocks and   *)
(* transactions arrive in between.                                         *)
(*                                                                         *)
(* A pool transaction waits until the pool transactions it depends on are  *)
(* in the block.  The order of the priority queue is left open, and so are *)
(* the checks that leave a transaction out: the limits of the block, the   *)
(* minimal fee, the signature operations so far, maturity and scripts.     *)
(* Amounts are left out, nFees included.  A solved block that is not stale *)
(* goes to ProcessBlock like any other, which is ChainState's subject.     *)
(***************************************************************************)
EXTENDS MemPool

VARIABLES
    miner,            \* "idle", "prev": pindexPrev was read, "collect": in the
                      \* loop, "block": the block waits to be solved
    pindexPrev,
    vecPriority,      \* transactions ready to be taken
    setDependsOn,     \* what the others wait for (COrphan)
    vtx,              \* the block so far, without the coinbase
    setTried          \* not in the code: what was passed over as not final, or
                      \* taken off vecPriority

templateVars == <<miner, pindexPrev, vecPriority, setDependsOn, vtx, setTried>>

TemplateInit ==
    /\ PoolInit
    /\ miner = "idle"
    /\ pindexPrev = NoBlock
    /\ vecPriority = {}
    /\ setDependsOn = [t \in Tx |-> {}]
    /\ vtx = <<>>
    /\ setTried = {}

\* The thread has no block, or gives up the one it has.
NoTemplate ==
    /\ miner' = "idle"
    /\ pindexPrev' = NoBlock
    /\ vecPriority' = {}
    /\ setDependsOn' = [t \in Tx |-> {}]
    /\ vtx' = <<>>
    /\ setTried' = {}

Taken == {vtx[k] : k \in 1..Len(vtx)}

\* The pool transactions that t has to wait for: its inputs that are not on disk.
DependsOn(t) == {i \in Spends[t] : diskTx[i] = Absent}

\* The caller reads pindexBest; another thread may be inside SetBestChain.
ReadBest ==
    /\ miner = "idle"
    /\ miner' = "prev"
    /\ pindexPrev' = pindexBest
    /\ UNCHANGED <<allVars, vecPriority, setDependsOn, vtx, setTried>>

\* The locks are taken and the pool is read once; transactions that are not final yet
\* are passed over, and one with an input that is nowhere is left out.
BeginTemplate ==
    \E notFinal \in SUBSET mapTx :
        LET known == {t \in mapTx \ notFinal : DependsOn(t) \subseteq mapTx}
        IN  /\ Idle
            /\ miner = "prev"
            /\ miner' = "collect"
            /\ vecPriority' = {t \in known : DependsOn(t) = {}}
            /\ setDependsOn' = [t \in Tx |-> IF t \in known THEN DependsOn(t) ELSE {}]
            /\ setTried' = notFinal
            /\ UNCHANGED <<allVars, pindexPrev, vtx>>

\* t is taken off the queue.
PopHeap(t) ==
    /\ miner = "collect"
    /\ t \in vecPriority
    /\ setTried' = setTried \cup {t}
    /\ UNCHANGED <<allVars, miner, pindexPrev>>

\* A limit of the block is reached, an input cannot be fetched, the fee is too
\* small, or ConnectInputs fails, for whatever reason: t is left out.
LeaveOutTx(t) ==
    /\ PopHeap(t)
    /\ vecPriority' = vecPriority \ {t}
    /\ UNCHANGED <<setDependsOn, vtx>>

\* What FetchInputs and ConnectInputs with fMiner ask for, on the index as the
\* block so far changes it.
MinerConnects(t) ==
    \A i \in Spends[t] :
        /\ ~SpentIn(Taken, i)
        /\ i \in Taken \/ diskTx[i] = Unspent

\* Pool transactions that were left out after they had been listed in
\* mapDependers under t: the pointer there is to an element that vOrphan no longer
\* has.
Dangling(t) ==
    {w \in mapTx : t \in DependsOn(w) /\ ~(DependsOn(w) \subseteq mapTx)}

\* Mutant: a transaction that waits for t and another one is not taken up again.
AddTxForgetsOthers(t) ==
    /\ PopHeap(t)
    /\ MinerConnects(t)
    /\ vtx' = Append(vtx, t)
    /\ setDependsOn' = [w \in Tx |-> IF setDependsOn[w] = {t} THEN {} ELSE setDependsOn[w]]
    /\ vecPriority' = (vecPriority \ {t}) \cup {w \in Tx : setDependsOn[w] = {t}}

\* The transaction is added, and those that waited only for it are ready.  What
\* is found through a dangling pointer is undefined: the transaction left out may
\* be put on the queue after all, or not.
AddTx(t) ==
    /\ PopHeap(t)
    /\ MinerConnects(t)
    /\ vtx' = Append(vtx, t)
    /\ setDependsOn' = [w \in Tx |-> setDependsOn[w] \ {t}]
    /\ \E D \in SUBSET Dangling(t) :
          vecPriority' = (vecPriority \ {t}) \cup {w \in Tx : setDependsOn[w] = {t}} \cup D

\* The queue is empty: the locks are released, and the block is to be solved.
EndTemplate ==
    /\ miner = "collect"
    /\ vecPriority = {}
    /\ miner' = "block"
    /\ setDependsOn' = [t \in Tx |-> {}]
    /\ setTried' = {}
    /\ UNCHANGED <<allVars, pindexPrev, vecPriority, vtx>>

\* Mutant: the heights are compared.
FreshAtHeight == Height[pindexPrev] = Height[pindexBest]

\* "generated block is stale" is not said.
Fresh == pindexPrev = pindexBest

\* CheckWork or CheckStake under cs_main, or the solution is never found: the thread
\* starts again.
CheckWork ==
    /\ miner = "block"
    /\ Idle
    /\ NoTemplate
    /\ UNCHANGED allVars

CreateNewBlock ==
    \/ ReadBest \/ BeginTemplate
    \/ \E t \in Tx : LeaveOutTx(t) \/ AddTx(t)
    \/ EndTemplate \/ CheckWork

\* The steps of the other threads; none of them runs while the locks are held.
OtherThreads ==
    /\ miner # "collect"
    /\ \/ PoolSetBestChain
       \/ \E t \in Tx : SubmitTx(t) \/ ReceiveTx(t) \/ ReceiveOrphanTx(t)
       \/ ProcessOrphans
    /\ UNCHANGED templateVars

TemplateNext ==
    \/ CreateNewBlock
    \/ OtherThreads
    \/ PoolRestart /\ NoTemplate

TemplateSpec == TemplateInit /\ [][TemplateNext]_<<allVars, templateVars>>

-----------------------------------------------------------------------------
(* Safety.                                                                 *)

\* Every transaction of the block so far is new to the chain, and each input of it is
\* unspent in the index or an output of an earlier one, and is spent once.
BlockConnects ==
    \A k \in 1..Len(vtx) :
        /\ diskTx[vtx[k]] = Absent
        /\ \A i \in Spends[vtx[k]] :
              /\ diskTx[i] = Unspent \/ \E j \in 1..(k - 1) : vtx[j] = i
              /\ \A j \in 1..(k - 1) : i \notin Spends[vtx[j]]

\* When a block passes the test that it is not stale, its transactions other than the
\* coinbase connect to the best chain: although the best block was read before the locks
\* were taken, and other blocks came between that and the collecting, or between the
\* collecting and the solution; and although the pool may hold transactions whose inputs
\* are spent, in conflict with the chain, or gone.  (The amounts of the coinbase are not
\* stated: fees are added up before a transaction is left out.)
TemplateConnects ==
    miner \in {"collect", "block"} /\ Idle /\ Fresh => BlockConnects

\* At the end of the loop a final pool transaction that was never tried has an input that
\* is neither in the index nor in the block: none is left waiting for transactions that
\* are all there, however they depend on each other and in whatever order they came.
EveryReadyTxIsTried ==
    miner = "collect" /\ vecPriority = {} =>
        \A t \in mapTx \ setTried :
            \E i \in Spends[t] : diskTx[i] = Absent /\ i \notin Taken
=============================================================================
