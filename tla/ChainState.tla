----------------------------- MODULE ChainState -----------------------------
(***************************************************************************)
(* The block index and the best chain of a node: main.cpp (AddToBlockIndex,*)
(* SetBestChain, SetBestChainInner, Reorganize, ConnectBlock,              *)
(* DisconnectBlock, InvalidChainFound) over the transaction database of    *)
(* txdb-leveldb.{h,cpp}.                                                   *)
(*                                                                         *)
(* The block database is LevelDB; a CTxDB collects its writes in a batch   *)
(* between TxnBegin and TxnCommit and reads through that batch.  diskX is  *)
(* what LevelDB holds, viewX what a reader inside the open batch sees; with*)
(* no batch open the two are equal.  Memory (mapBlockIndex, pnext,         *)
(* mapBlockLookup, pindexBest) is lost in a crash and rebuilt from disk by *)
(* LoadBlockIndex.  All of this code runs under cs_main, so the only actor *)
(* that interleaves with it is a crash: an action is what happens between  *)
(* two points where a crash would leave something different behind.        *)
(*                                                                         *)
(* Abstraction: every transaction has one output, named by the transaction *)
(* itself, and a block is a set of transactions in a legal order.  The     *)
(* checks of ConnectBlock that depend only on a block and its ancestors    *)
(* (CheckBlock, colours, maturity, fees, rewards, signatures) are the      *)
(* constant set Rejected.  The wallet and the explore index, which the     *)
(* same functions call, are components of their own.                       *)
(***************************************************************************)
EXTENDS Integers

CONSTANTS
    Block, Genesis, NoBlock,
    Parent,          \* CBlockIndex::pprev
    Chain,           \* a block and all its ancestors
    Height,          \* CBlockIndex::nHeight
    Trust,           \* CBlockIndex::nChainTrust, the sum of GetBlockTrust
    Tx, Absent, Unspent,
    Txs,             \* CBlock::vtx
    Spends,          \* CTransaction::vin, as the transactions whose outputs it spends
    Rejected         \* blocks that ConnectBlock refuses whatever the index holds

Heights == {Height[b] : b \in Block}

\* Every block but the first has a parent, one lower and with less trust
\* (GetBlockTrust is at least 1).
ASSUME TreeAssumption ==
    /\ Genesis \in Block
    /\ NoBlock \notin Block
    /\ Parent \in [Block -> Block \cup {NoBlock}]
    /\ Parent[Genesis] = NoBlock
    /\ Height \in [Block -> Nat]
    /\ Trust \in [Block -> Nat]
    /\ \A b \in Block \ {Genesis} :
          /\ Parent[b] \in Block
          /\ Height[b] = Height[Parent[b]] + 1
          /\ Trust[b] > Trust[Parent[b]]

\* Chain is the ancestry of that tree.
ASSUME ChainAssumption ==
    /\ Chain \in [Block -> SUBSET Block]
    /\ Chain[Genesis] = {Genesis}
    /\ \A b \in Block \ {Genesis} : Chain[b] = {b} \cup Chain[Parent[b]]

\* A transaction names its inputs by hash, so spending is acyclic.
ASSUME TxAssumption ==
    /\ Absent \notin Tx
    /\ Unspent \notin Tx
    /\ Absent # Unspent
    /\ Txs \in [Block -> SUBSET Tx]
    /\ Txs[Genesis] = {}
    /\ Spends \in [Tx -> SUBSET Tx]
    /\ \A S \in SUBSET Tx : S # {} => \E t \in S : Spends[t] \cap S = {}
    /\ Rejected \subseteq Block

\* A transaction without inputs is a coinbase, and a coinbase starts with the
\* height of its block, so no other block of the same branch holds it.
ASSUME CoinbaseAssumption ==
    \A b \in Block : \A a \in Chain[b] \ {b} :
        \A t \in Txs[a] \cap Txs[b] : Spends[t] # {}

VARIABLES
    diskIndex,        \* the blocks with a CDiskBlockIndex record
    diskNext,         \* CDiskBlockIndex::hashNext
    diskBest,         \* the record hashBestChain
    diskTx,           \* the CTxIndex records: Absent, Unspent or the spender
    viewNext,         \* diskNext and diskTx seen through the open batch
    viewTx,
    nBestInvalidTrust,\* written to disk whenever it changes in memory
    mapBlockIndex,
    pnext,            \* CBlockIndex::pnext
    mapBlockLookup,   \* height -> block of the main chain
    pindexBest,       \* also hashBestChain, nBestHeight and nBestChainTrust
    pc,               \* where AddToBlockIndex/SetBestChain is
    pindexNew,        \* the block that SetBestChain is called for
    pindexIntermediate,
    tip               \* the last block connected through the open batch

diskVars == <<diskIndex, diskNext, diskBest, diskTx>>
memVars  == <<mapBlockIndex, pnext, mapBlockLookup, pindexBest>>
workVars == <<pindexNew, pindexIntermediate, tip>>
vars == <<diskVars, viewNext, viewTx, nBestInvalidTrust, memVars, pc, workVars>>

TypeOK ==
    /\ diskIndex \subseteq Block
    /\ diskNext \in [Block -> Block \cup {NoBlock}]
    /\ diskBest \in Block
    /\ diskTx \in [Tx -> Tx \cup {Absent, Unspent}]
    /\ viewNext \in [Block -> Block \cup {NoBlock}]
    /\ viewTx \in [Tx -> Tx \cup {Absent, Unspent}]
    /\ nBestInvalidTrust \in Nat
    /\ mapBlockIndex \subseteq Block
    /\ pnext \in [Block -> Block \cup {NoBlock}]
    /\ mapBlockLookup \in [Heights -> Block \cup {NoBlock}]
    /\ pindexBest \in Block
    /\ pc \in {"idle", "setbest", "reorganize", "secondary"}
    /\ pindexNew \in Block
    /\ pindexIntermediate \in Block
    /\ tip \in Block

-----------------------------------------------------------------------------
(* Connecting and disconnecting one block in the transaction index.        *)

\* ConnectBlock succeeds on the index idx: no unspent transaction is
\* overwritten (BIP30), and every input is there, or earlier in the block,
\* and unspent.
CanConnect(b, idx) ==
    /\ b \notin Rejected
    /\ \A t \in Txs[b] : idx[t] # Unspent
    /\ \A s \in Txs[b] : \A i \in Spends[s] : i \in Txs[b] \/ idx[i] = Unspent
    /\ \A s, r \in Txs[b] : s # r => Spends[s] \cap Spends[r] = {}

SpenderIn(S, t) == CHOOSE s \in S : t \in Spends[s]

SpentIn(S, t) == \E s \in S : t \in Spends[s]

\* The index after ConnectBlock: the inputs are marked spent, the new
\* transactions are entered with vSpent all null.
ConnectTx(b, idx) ==
    [t \in Tx |-> IF SpentIn(Txs[b], t) THEN SpenderIn(Txs[b], t)
                  ELSE IF t \in Txs[b] THEN Unspent ELSE idx[t]]

\* DisconnectInputs finds the index record of every input.
CanDisconnect(b, idx) ==
    \A s \in Txs[b] : \A i \in Spends[s] : idx[i] # Absent

\* Mutant: DisconnectInputs forgets to mark the inputs unspent.
DisconnectTxKeepsSpent(b, idx) ==
    [t \in Tx |-> IF t \in Txs[b] THEN Absent ELSE idx[t]]

\* The index after DisconnectBlock: its transactions are erased and what they
\* spent is marked unspent.
DisconnectTx(b, idx) ==
    [t \in Tx |-> IF t \in Txs[b] THEN Absent
                  ELSE IF SpentIn(Txs[b], t) THEN Unspent ELSE idx[t]]

\* ConnectBlock writes the block's own record, with hashNext taken from memory,
\* and then its parent's with hashNext set to the block.
ConnectNext(b, next) == [next EXCEPT ![b] = pnext[b], ![Parent[b]] = b]

DisconnectNext(b, next) == [next EXCEPT ![Parent[b]] = NoBlock]

\* The block on the way from a up to its descendant b.
StepTowards(a, b) == CHOOSE x \in Chain[b] : Parent[x] = a

-----------------------------------------------------------------------------
(* Pieces of the actions.                                                  *)

\* The test of SetBestChainInner and Reorganize, made after TxnCommit, that
\* the block before b is itself linked from its own parent.
PrevIsLinked(b, next) ==
    LET p == Parent[b]
    IN  p # Genesis => next[Parent[p]] = p

InvalidChainFound(b) ==
    nBestInvalidTrust' = IF Trust[b] > nBestInvalidTrust THEN Trust[b]
                                                         ELSE nBestInvalidTrust

\* Mutant: the batch survives the abort.
TxnAbortKeepsBatch == UNCHANGED <<viewNext, viewTx>>

\* The batch is dropped: readers see the disk again.
TxnAbort == /\ viewNext' = diskNext
            /\ viewTx' = diskTx

Finish == /\ pc' = "idle"
          /\ pindexNew' = Genesis
          /\ pindexIntermediate' = Genesis
          /\ tip' = Genesis

\* Mutant: the block is committed, the record hashBestChain is not.
CommitBlockKeepsBest(b) ==
    /\ diskTx' = ConnectTx(b, diskTx)
    /\ diskNext' = ConnectNext(b, diskNext)
    /\ viewTx' = diskTx'
    /\ viewNext' = diskNext'
    /\ UNCHANGED <<diskIndex, diskBest, nBestInvalidTrust, mapBlockIndex>>

\* SetBestChainInner up to TxnCommit: b and the hashBestChain record go to disk
\* in one batch.
CommitBlock(b) ==
    /\ diskTx' = ConnectTx(b, diskTx)
    /\ diskNext' = ConnectNext(b, diskNext)
    /\ diskBest' = b
    /\ viewTx' = diskTx'
    /\ viewNext' = diskNext'
    /\ UNCHANGED <<diskIndex, nBestInvalidTrust, mapBlockIndex>>

\* SetBestChainInner after TxnCommit.
LinkBlock(b) ==
    /\ pnext' = [pnext EXCEPT ![Parent[b]] = b]
    /\ mapBlockLookup' = [mapBlockLookup EXCEPT ![Height[b]] = b]

-----------------------------------------------------------------------------
(* The main chain that ends in b, as each structure records it.            *)

NextOf(b) ==
    [a \in Block |-> IF \E x \in Chain[b] : Parent[x] = a
                     THEN StepTowards(a, b) ELSE NoBlock]

LookupOf(b) ==
    [h \in Heights |-> IF \E x \in Chain[b] : Height[x] = h
                       THEN CHOOSE x \in Chain[b] : Height[x] = h ELSE NoBlock]

-----------------------------------------------------------------------------
(* AddToBlockIndex.                                                        *)

Init ==
    /\ diskIndex = {Genesis}
    /\ diskNext = [b \in Block |-> NoBlock]
    /\ diskBest = Genesis
    /\ diskTx = [t \in Tx |-> Absent]
    /\ viewNext = diskNext
    /\ viewTx = diskTx
    /\ nBestInvalidTrust = 0
    /\ mapBlockIndex = {Genesis}
    /\ pnext = [b \in Block |-> NoBlock]
    /\ mapBlockLookup = LookupOf(Genesis)
    /\ pindexBest = Genesis
    /\ pc = "idle"
    /\ pindexNew = Genesis
    /\ pindexIntermediate = Genesis
    /\ tip = Genesis

\* Mutant: the longest chain is chosen instead of the heaviest.
AddToBlockIndexByHeight(b) ==
    /\ pc = "idle"
    /\ b \notin mapBlockIndex
    /\ Parent[b] \in mapBlockIndex
    /\ mapBlockIndex' = mapBlockIndex \cup {b}
    /\ diskIndex' = diskIndex \cup {b}
    /\ IF Height[b] > Height[pindexBest]
       THEN pc' = "setbest" /\ pindexNew' = b
       ELSE UNCHANGED <<pc, pindexNew>>
    /\ UNCHANGED <<diskNext, diskBest, diskTx, viewNext, viewTx, nBestInvalidTrust,
                   pnext, mapBlockLookup, pindexBest, pindexIntermediate, tip>>

\* Mutant: a branch of equal trust is adopted too.
AddToBlockIndexOnTie(b) ==
    /\ pc = "idle"
    /\ b \notin mapBlockIndex
    /\ Parent[b] \in mapBlockIndex
    /\ mapBlockIndex' = mapBlockIndex \cup {b}
    /\ diskIndex' = diskIndex \cup {b}
    /\ IF Trust[b] >= Trust[pindexBest]
       THEN pc' = "setbest" /\ pindexNew' = b
       ELSE UNCHANGED <<pc, pindexNew>>
    /\ UNCHANGED <<diskNext, diskBest, diskTx, viewNext, viewTx, nBestInvalidTrust,
                   pnext, mapBlockLookup, pindexBest, pindexIntermediate, tip>>

\* Mutant: the block is linked in memory only.
AddToBlockIndexInMemory(b) ==
    /\ pc = "idle"
    /\ b \notin mapBlockIndex
    /\ Parent[b] \in mapBlockIndex
    /\ mapBlockIndex' = mapBlockIndex \cup {b}
    /\ UNCHANGED diskIndex
    /\ IF Trust[b] > Trust[pindexBest]
       THEN pc' = "setbest" /\ pindexNew' = b
       ELSE UNCHANGED <<pc, pindexNew>>
    /\ UNCHANGED <<diskNext, diskBest, diskTx, viewNext, viewTx, nBestInvalidTrust,
                   pnext, mapBlockLookup, pindexBest, pindexIntermediate, tip>>

\* AcceptBlock has checked that b is new and its parent is indexed.  The block's
\* own record is committed before SetBestChain is called for it.
AddToBlockIndex(b) ==
    /\ pc = "idle"
    /\ b \notin mapBlockIndex
    /\ Parent[b] \in mapBlockIndex
    /\ mapBlockIndex' = mapBlockIndex \cup {b}
    /\ diskIndex' = diskIndex \cup {b}
    /\ IF Trust[b] > Trust[pindexBest]
       THEN pc' = "setbest" /\ pindexNew' = b
       ELSE UNCHANGED <<pc, pindexNew>>
    /\ UNCHANGED <<diskNext, diskBest, diskTx, viewNext, viewTx, nBestInvalidTrust,
                   pnext, mapBlockLookup, pindexBest, pindexIntermediate, tip>>

-----------------------------------------------------------------------------
(* SetBestChain when the new block extends pindexBest.                     *)

ExtendBest ==
    /\ pc = "setbest"
    /\ Parent[pindexNew] = pindexBest
    /\ CanConnect(pindexNew, diskTx)
    /\ CommitBlock(pindexNew)
    /\ IF PrevIsLinked(pindexNew, pnext)
       THEN LinkBlock(pindexNew) /\ pindexBest' = pindexNew
       ELSE UNCHANGED <<pnext, mapBlockLookup, pindexBest>>
    /\ Finish

ExtendFails ==
    /\ pc = "setbest"
    /\ Parent[pindexNew] = pindexBest
    /\ ~CanConnect(pindexNew, diskTx)
    /\ InvalidChainFound(pindexNew)
    /\ TxnAbort
    /\ Finish
    /\ UNCHANGED <<diskVars, memVars>>

-----------------------------------------------------------------------------
(* SetBestChain when it does not: Reorganize, then the further blocks.     *)

\* Mutant: the first block of the branch, whatever its trust.
IsIntermediateAtFork(x) ==
    /\ x \in Chain[pindexNew] \ Chain[pindexBest]
    /\ Parent[x] \in Chain[pindexBest]

\* The first block on the way to pindexNew with more trust than pindexBest.
IsIntermediate(x) ==
    /\ x \in Chain[pindexNew]
    /\ x = pindexNew \/ Trust[x] > Trust[pindexBest]
    /\ Parent[x] \in Block => Trust[Parent[x]] <= Trust[pindexBest]

BeginReorganize ==
    /\ pc = "setbest"
    /\ Parent[pindexNew] # pindexBest
    /\ \E x \in Block : IsIntermediate(x) /\ pindexIntermediate' = x
    /\ pc' = "reorganize"
    /\ tip' = pindexBest
    /\ UNCHANGED <<diskVars, viewNext, viewTx, nBestInvalidTrust, memVars, pindexNew>>

\* Mutant: the fork itself is disconnected too.
ReorganizeDisconnectPastFork ==
    /\ pc = "reorganize"
    /\ CanDisconnect(tip, viewTx)
    /\ viewTx' = DisconnectTx(tip, viewTx)
    /\ viewNext' = [viewNext EXCEPT ![tip] = NoBlock]
    /\ tip' = Parent[tip]
    /\ UNCHANGED <<diskVars, nBestInvalidTrust, memVars, pc, pindexNew, pindexIntermediate>>

\* Blocks above the fork are disconnected from pindexBest down.
ReorganizeDisconnect ==
    /\ pc = "reorganize"
    /\ tip \notin Chain[pindexIntermediate]
    /\ CanDisconnect(tip, viewTx)
    /\ viewTx' = DisconnectTx(tip, viewTx)
    /\ viewNext' = DisconnectNext(tip, viewNext)
    /\ tip' = Parent[tip]
    /\ UNCHANGED <<diskVars, nBestInvalidTrust, memVars, pc, pindexNew, pindexIntermediate>>

\* Then the blocks from the fork up to pindexIntermediate are connected.
ReorganizeConnect ==
    /\ pc = "reorganize"
    /\ tip \in Chain[pindexIntermediate] \ {pindexIntermediate}
    /\ LET b == StepTowards(tip, pindexIntermediate)
       IN  /\ CanConnect(b, viewTx)
           /\ viewTx' = ConnectTx(b, viewTx)
           /\ viewNext' = ConnectNext(b, viewNext)
           /\ tip' = b
    /\ UNCHANGED <<diskVars, nBestInvalidTrust, memVars, pc, pindexNew, pindexIntermediate>>

\* Mutant: the old chain, and not the refused one, is reported invalid.
ReorganizeFailsBlamesBest ==
    /\ pc = "reorganize"
    /\ tip \in Chain[pindexIntermediate] \ {pindexIntermediate}
    /\ ~CanConnect(StepTowards(tip, pindexIntermediate), viewTx)
    /\ InvalidChainFound(pindexBest)
    /\ TxnAbort
    /\ Finish
    /\ UNCHANGED <<diskVars, memVars>>

\* Reorganize returns false before its TxnCommit: nothing of it remains.
ReorganizeFails ==
    /\ pc = "reorganize"
    /\ \/ /\ tip \notin Chain[pindexIntermediate]
          /\ ~CanDisconnect(tip, viewTx)
       \/ /\ tip \in Chain[pindexIntermediate] \ {pindexIntermediate}
          /\ ~CanConnect(StepTowards(tip, pindexIntermediate), viewTx)
    /\ InvalidChainFound(pindexNew)
    /\ TxnAbort
    /\ Finish
    /\ UNCHANGED <<diskVars, memVars>>

vDisconnect == Chain[pindexBest] \ Chain[pindexIntermediate]
vConnect    == Chain[pindexIntermediate] \ Chain[pindexBest]

UnlinkedNext ==
    [a \in Block |-> IF \E x \in vDisconnect : Parent[x] = a THEN NoBlock ELSE pnext[a]]

\* Mutant: heights above the new best block keep their entry.
UnlinkedLookupKeepsOld == mapBlockLookup

UnlinkedLookup ==
    [h \in Heights |-> IF \E x \in vDisconnect : Height[x] = h
                       THEN NoBlock ELSE mapBlockLookup[h]]

LinkedNext ==
    [a \in Block |-> IF \E x \in vConnect : Parent[x] = a
                     THEN CHOOSE x \in vConnect : Parent[x] = a ELSE UnlinkedNext[a]]

LinkedLookup ==
    [h \in Heights |-> IF \E x \in vConnect : Height[x] = h
                       THEN CHOOSE x \in vConnect : Height[x] = h ELSE UnlinkedLookup[h]]

\* The first block connected hangs from a block that is linked from its parent.
ForkIsLinked ==
    \A x \in vConnect : Parent[x] \notin vConnect => PrevIsLinked(x, UnlinkedNext)

\* TxnCommit of the whole reorganisation, then the memory structures.
ReorganizeCommit ==
    /\ pc = "reorganize"
    /\ tip = pindexIntermediate
    /\ diskTx' = viewTx
    /\ diskNext' = viewNext
    /\ diskBest' = pindexIntermediate
    /\ \/ /\ ForkIsLinked
          /\ pnext' = LinkedNext
          /\ mapBlockLookup' = LinkedLookup
          /\ pc' = "secondary"
          /\ UNCHANGED <<nBestInvalidTrust, workVars>>
       \/ /\ ~ForkIsLinked
          /\ pnext' = UnlinkedNext
          /\ mapBlockLookup' = UnlinkedLookup
          /\ InvalidChainFound(pindexNew)
          /\ Finish
    /\ UNCHANGED <<diskIndex, viewNext, viewTx, mapBlockIndex, pindexBest>>

\* The loop over vpindexSecondary, one block and one TxnCommit at a time.
SecondaryConnect ==
    /\ pc = "secondary"
    /\ tip # pindexNew
    /\ LET b == StepTowards(tip, pindexNew)
       IN  /\ CanConnect(b, diskTx)
           /\ CommitBlock(b)
           /\ PrevIsLinked(b, pnext)
           /\ LinkBlock(b)
           /\ tip' = b
    /\ UNCHANGED <<pindexBest, pc, pindexNew, pindexIntermediate>>

\* "errors now are not fatal": the loop breaks and SetBestChain goes on to make
\* pindexNew the best block in memory.
SecondaryFails ==
    /\ pc = "secondary"
    /\ tip # pindexNew
    /\ LET b == StepTowards(tip, pindexNew)
       IN  \/ /\ ~CanConnect(b, diskTx)
              /\ InvalidChainFound(b)
              /\ TxnAbort
              /\ UNCHANGED <<diskVars, mapBlockIndex>>
           \/ /\ CanConnect(b, diskTx)
              /\ ~PrevIsLinked(b, pnext)
              /\ CommitBlock(b)
    /\ pindexBest' = pindexNew
    /\ Finish
    /\ UNCHANGED <<pnext, mapBlockLookup>>

\* The end of SetBestChain.
NewBestBlock ==
    /\ pc = "secondary"
    /\ tip = pindexNew
    /\ pindexBest' = pindexNew
    /\ Finish
    /\ UNCHANGED <<diskVars, viewNext, viewTx, nBestInvalidTrust,
                   mapBlockIndex, pnext, mapBlockLookup>>

-----------------------------------------------------------------------------
\* A crash at any point, then CTxDB::LoadBlockIndex.  Its verification of the last
\* blocks (at the default level, CheckBlock) finds nothing: every indexed block has
\* passed CheckBlock in ProcessBlock.
Restart ==
    /\ mapBlockIndex' = diskIndex
    /\ pnext' = diskNext
    /\ pindexBest' = diskBest
    /\ mapBlockLookup' = LookupOf(diskBest)
    /\ TxnAbort
    /\ Finish
    /\ UNCHANGED <<diskVars, nBestInvalidTrust>>

SetBestChain ==
    \/ ExtendBest \/ ExtendFails
    \/ BeginReorganize
    \/ ReorganizeDisconnect \/ ReorganizeConnect \/ ReorganizeFails \/ ReorganizeCommit
    \/ SecondaryConnect \/ SecondaryFails \/ NewBestBlock

NextNoCrash == (\E b \in Block : AddToBlockIndex(b)) \/ SetBestChain
Next == NextNoCrash \/ Restart

Spec == Init /\ [][Next]_vars

\* No further block fails after a reorganisation: the assumption under which memory and
\* disk keep agreeing.  It holds of every behaviour if all blocks are valid.
FurtherBlocksConnect == [][~SecondaryFails]_vars

\* Without crashes.  SetBestChain is one call: once started it runs to its end.
SpecNoCrash == Init /\ [][NextNoCrash]_vars
FairSpecNoCrash == SpecNoCrash /\ WF_vars(SetBestChain)

-----------------------------------------------------------------------------
(* What a branch amounts to, independently of how it was reached.          *)

TxsOf(b) == UNION {Txs[a] : a \in Chain[b]}

\* The transaction index after replaying the branch of b from genesis.
IndexOf(b) ==
    [t \in Tx |-> IF t \notin TxsOf(b) THEN Absent
                  ELSE IF SpentIn(TxsOf(b), t) THEN SpenderIn(TxsOf(b), t)
                  ELSE Unspent]

\* Every block of the branch connects on top of its parent.
Sound(b) == \A a \in Chain[b] \ {Genesis} : CanConnect(a, IndexOf(Parent[a]))

-----------------------------------------------------------------------------
(* Safety.                                                                 *)

\* Whatever was connected, disconnected, aborted or lost in a crash, the
\* transaction index on disk is the replay of exactly the chain that the
\* hashBestChain record names, and every block of that chain connects.
DiskIsReplayOfBest ==
    /\ diskTx = IndexOf(diskBest)
    /\ Sound(diskBest)

\* Between two calls of SetBestChain, the best block in memory is the one on
\* disk, and pnext, mapBlockLookup and the hashNext records all trace the
\* chain that ends in it: the three agree on which blocks are in the main chain.
MemoryAgreesWithDisk ==
    pc = "idle" =>
        /\ pindexBest = diskBest
        /\ pnext = NextOf(pindexBest)
        /\ diskNext = NextOf(pindexBest)
        /\ mapBlockLookup = LookupOf(pindexBest)

\* No indexed block with more trust than the best one ends a branch that could
\* be connected: SetBestChain never leaves the heaviest valid chain behind.
BestIsHeaviest ==
    pc = "idle" =>
        \A b \in mapBlockIndex : Trust[b] > Trust[pindexBest] => ~Sound(b)

\* The trust that GetWarnings compares with the best chain's is that of a branch
\* that really cannot be connected.
InvalidTrustIsReal ==
    nBestInvalidTrust > 0 =>
        \E b \in mapBlockIndex : Trust[b] = nBestInvalidTrust /\ ~Sound(b)

\* LoadBlockIndex never meets a missing record: hashBestChain and every
\* ancestor of every indexed block are in the block index on disk, and memory
\* holds no block that a restart would forget.
RestartFindsEveryBlock ==
    /\ diskBest \in diskIndex
    /\ \A b \in diskIndex : Chain[b] \subseteq diskIndex
    /\ mapBlockIndex = diskIndex

\* SetBestChain only ever moves memory's best block to one with more trust.
BestTrustGrows ==
    [][pindexBest' # pindexBest => Trust[pindexBest'] > Trust[pindexBest]]_vars

\* A valid block that is indexed is eventually matched by the best chain.
ValidBlockIsMatched ==
    \A b \in Block :
        (b \in mapBlockIndex /\ Sound(b)) ~> Trust[pindexBest] >= Trust[b]

-----------------------------------------------------------------------------
(* The inductive invariant behind them.                                    *)

\* The batch is open only inside Reorganize, where it holds the replay of the
\* branch of tip.  tip never goes below the fork of the two branches.
BatchInv ==
    IF pc = "reorganize"
    THEN /\ viewTx = IndexOf(tip)
         /\ viewNext = NextOf(tip)
         /\ Sound(tip)
         /\ tip \in Chain[pindexBest] \cup Chain[pindexIntermediate]
         /\ Chain[pindexBest] \cap Chain[pindexIntermediate] \subseteq Chain[tip]
    ELSE viewTx = diskTx /\ viewNext = diskNext

\* pnext, hashNext and mapBlockLookup follow the best block on disk at all times;
\* pindexBest lags behind it while the further blocks are connected.
RecordsInv ==
    /\ diskNext = NextOf(diskBest)
    /\ pnext = NextOf(diskBest)
    /\ mapBlockLookup = LookupOf(diskBest)
    /\ pc = "secondary" => tip = diskBest
    /\ pc # "secondary" => pindexBest = diskBest

\* SetBestChain works on an indexed branch that has more trust than the best.
WorkInv ==
    /\ pc # "idle" =>
          /\ pindexNew \in mapBlockIndex \ {Genesis}
          /\ Trust[pindexNew] > Trust[pindexBest]
    /\ pc = "reorganize" =>
          /\ pindexIntermediate \in Chain[pindexNew]
          /\ Trust[pindexIntermediate] > Trust[pindexBest]
    /\ pc = "secondary" =>
          /\ tip \in Chain[pindexNew]
          /\ Trust[tip] > Trust[pindexBest]

ChainInv ==
    /\ TypeOK
    /\ RestartFindsEveryBlock
    /\ DiskIsReplayOfBest
    /\ BatchInv
    /\ RecordsInv
    /\ WorkInv

\* Without crashes the only indexed branch that may be valid and heavier than
\* the best chain is the one being worked on, so that no further block is ever
\* left to connect after Reorganize.
HeaviestInv ==
    /\ \A b \in mapBlockIndex :
          Trust[b] > Trust[pindexBest] => ~Sound(b) \/ (pc # "idle" /\ b = pindexNew)
    /\ pc = "secondary" => tip = pindexNew

-----------------------------------------------------------------------------
\* main.cpp says of a failure after the reorganisation that "errors now are not
\* fatal, we still did a reorganisation to a new chain in a valid way": the best
\* block in memory ends a valid chain.
BestChainIsValid == pc = "idle" => Sound(pindexBest)
=============================================================================
