--------------------------- MODULE Wallet_proofs ---------------------------
(***************************************************************************)
(* The wallet follows the chain: only a reorganisation that is given up,   *)
(* and repairwallet while a batch is open, lead its record astray, and a   *)
(* coin that it spends is opened again only for the reasons named.         *)
(***************************************************************************)
EXTENDS Wallet, MemPool_proofs

\* The chain takes the steps of ChainState.
LEMMA WalletStepOfChain ==
    ASSUME [WalletNext]_everything
    PROVE  [Next]_vars
<1> USE DEF Next, NextNoCrash, SetBestChain, allVars
<1>1. CASE WalletRuns
  <2>1. CASE WalletUnchangedStep \/ WalletReorganizeDisconnect \/ WalletReorganizeFails \/ WalletNewBestBlock
    BY <2>1 DEF WalletUnchangedStep, WalletReorganizeDisconnect, WalletReorganizeFails,
                WalletNewBestBlock
  <2>2. CASE WalletExtendBest \/ WalletReorganizeConnect \/ WalletReorganizeCommit
               \/ WalletSecondaryConnect \/ WalletSecondaryFails
    BY <2>2 DEF WalletExtendBest, WalletReorganizeConnect, WalletReorganizeCommit,
                WalletSecondaryConnect, WalletSecondaryFails, PoolExtendBest,
                PoolReorganizeConnect, PoolReorganizeCommit, PoolSecondaryConnect,
                PoolSecondaryFails
  <2>3. ASSUME NEW t \in Tx, WalletHearsOfTx(t) \/ CommitTransaction(t)
        PROVE  UNCHANGED vars
    BY <2>3 DEF WalletHearsOfTx, CommitTransaction, ReceiveTx, SubmitTx
  <2>4. CASE WalletMissesOrphans
    BY <2>4 DEF WalletMissesOrphans, ReceiveOrphanTx, ProcessOrphans, AcceptOrphan, RefuseOrphan,
                NextInQueue, EraseOrphans
  <2>5. CASE ReconcilerCounts \/ ReconcilerStores \/ FixSpentCoins \/ ReacceptWalletTransactions
    BY <2>5 DEF ReconcilerCounts, ReconcilerStores, FixSpentCoins, ReacceptWalletTransactions
  <2>6. ASSUME NEW b \in Block, WalletConnectBlock(b) PROVE UNCHANGED vars
    BY <2>6 DEF WalletConnectBlock
  <2>7. ASSUME NEW t \in Tx, SyncWithWallets(t) PROVE UNCHANGED vars
    BY <2>7 DEF SyncWithWallets
  <2> QED BY <1>1, <2>1, <2>2, <2>3, <2>4, <2>5, <2>6, <2>7 DEF WalletRuns
<1>2. CASE (\E b \in Block : ScanBlock(b)) \/ FillSnapshot
  BY <1>2 DEF ScanBlock, FillSnapshot
<1>3. CASE WalletRestart
  BY <1>3 DEF WalletRestart, PoolRestart
<1>4. CASE UNCHANGED everything
  BY <1>4 DEF everything
<1>5. QED
  BY <1>1, <1>2, <1>3, <1>4 DEF WalletNext

-----------------------------------------------------------------------------
(* What AddToWallet does to the record.                                    *)

WalletRecord ==
    [txs : SUBSET Tx, hashBlock : [Tx -> Block \cup {NoBlock}], vfSpent : SUBSET Tx]

\* v is w after AddToWallet for S.
Adds(w, S, b, v) ==
    /\ v \in WalletRecord
    /\ v.txs = w.txs \cup S
    /\ \A t \in Tx : v.hashBlock[t] = IF t \in S /\ b # NoBlock THEN b ELSE w.hashBlock[t]
    /\ v.vfSpent = (IF b = NoBlock THEN w.vfSpent ELSE w.vfSpent \ (S \cap Mine))
                       \cup UNION {Spends[t] \cap v.txs \cap Mine : t \in S}

LEMMA AddToWalletIs ==
    ASSUME NEW w \in WalletRecord, NEW S \in SUBSET Tx, NEW b \in Block \cup {NoBlock}
    PROVE  Adds(w, S, b, AddToWallet(w, S, b))
<1> SUFFICES ASSUME NEW v, v = AddToWallet(w, S, b) PROVE Adds(w, S, b, v)
  OBVIOUS
<1> DEFINE h == [t \in Tx |-> IF t \in S /\ b # NoBlock THEN b ELSE w.hashBlock[t]]
           added == [txs |-> w.txs \cup S, hashBlock |-> h, vfSpent |-> w.vfSpent]
           marked == UNION {OwnInputs(added, t) : t \in S}
<1>1. /\ w.txs \in SUBSET Tx /\ w.hashBlock \in [Tx -> Block \cup {NoBlock}]
      /\ w.vfSpent \in SUBSET Tx /\ Mine \subseteq Tx
      /\ h \in [Tx -> Block \cup {NoBlock}]
  BY WalletAssumption DEF WalletRecord
<1>2. added.txs = w.txs \cup S /\ added.vfSpent = w.vfSpent
  OBVIOUS
<1>3. marked = UNION {Spends[t] \cap (w.txs \cup S) \cap Mine : t \in S} /\ marked \in SUBSET Tx
  BY <1>1, <1>2 DEF OwnInputs
<1>4. v = WalletUpdateSpent(added, S, b)
  BY DEF AddToWallet
<1>5. v = [txs |-> w.txs \cup S, hashBlock |-> h,
           vfSpent |-> (IF b = NoBlock THEN w.vfSpent ELSE w.vfSpent \ (S \cap Mine)) \cup marked]
  BY <1>2, <1>4 DEF WalletUpdateSpent
<1> HIDE DEF marked, added
<1>6. v.txs = w.txs \cup S /\ v.hashBlock = h
      /\ v.vfSpent = (IF b = NoBlock THEN w.vfSpent ELSE w.vfSpent \ (S \cap Mine)) \cup marked
  BY <1>5
<1>7. v \in WalletRecord
  BY <1>1, <1>3, <1>5 DEF WalletRecord
<1>8. QED
  BY <1>3, <1>6, <1>7 DEF Adds

\* v is w after AddToWalletIfInvolvingMe for the transactions S of the block b.
LEMMA SyncIs ==
    ASSUME NEW w \in WalletRecord, NEW b \in Block, NEW S \in SUBSET Txs[b]
    PROVE  LET v  == AddToWalletIfInvolvingMe(w, S, b)
               In == Involving(w, S)
           IN  /\ v \in WalletRecord
               /\ In \subseteq S
               /\ v.txs = w.txs \cup In
               /\ \A t \in Tx : v.hashBlock[t] = IF t \in In THEN b ELSE w.hashBlock[t]
               /\ v.vfSpent = (w.vfSpent \ (In \cap Mine))
                                  \cup UNION {Spends[t] \cap v.txs \cap Mine : t \in In}
<1>1. Involving(w, S) \in SUBSET Tx /\ Involving(w, S) \subseteq S
  BY TxAssumption DEF Involving
<1>2. b # NoBlock
  BY TreeAssumption
<1>3. AddToWalletIfInvolvingMe(w, S, b) = AddToWallet(w, Involving(w, S), b)
  BY DEF AddToWalletIfInvolvingMe
<1>4. Adds(w, Involving(w, S), b, AddToWalletIfInvolvingMe(w, S, b))
  BY <1>1, <1>3, AddToWalletIs
<1>5. QED
  BY <1>1, <1>2, <1>4 DEF Adds

\* Every transaction of w that concerns the wallet.
Holds(w, S) == \A t \in S : Concerns(t) => t \in w.txs

\* A coin that w offers although a transaction of w spends it.
OpenIn(w, t) ==
    /\ t \in (w.txs \cap Mine) \ w.vfSpent
    /\ \E s \in w.txs \ Staking : t \in Spends[s]

\* What the wallet has of the chain of b, but for the transactions T of b, becomes what it
\* has but for T without t.
LEMMA SyncFollows ==
    ASSUME NEW w \in WalletRecord, NEW b \in Block, b # Genesis, Sound(b),
           NEW T \in SUBSET Txs[b], NEW t \in T, Spends[t] \cap T = {},
           Holds(w, TxsOf(b) \ T)
    PROVE  /\ Spends[t] \cap Mine \subseteq w.txs
           /\ Concerns(t) => Involving(w, {t}) = {t}
           /\ Holds(AddToWalletIfInvolvingMe(w, {t}, b), TxsOf(b) \ (T \ {t}))
<1>1. t \in TxsOf(b) /\ WellFormed(b)
  BY TxsOfStep, SoundWellFormed
<1>2. Spends[t] \cap Mine \subseteq w.txs
  <2> SUFFICES ASSUME NEW i \in Spends[t] \cap Mine PROVE i \in w.txs
    OBVIOUS
  <2>1. i \in TxsOf(b) \ T
    BY <1>1 DEF WellFormed
  <2> QED BY <2>1 DEF Holds, Concerns
<1>3. Concerns(t) => Involving(w, {t}) = {t}
  BY <1>2 DEF Involving, Concerns
<1>4. AddToWalletIfInvolvingMe(w, {t}, b).txs = w.txs \cup Involving(w, {t})
  BY SyncIs
<1>5. Holds(AddToWalletIfInvolvingMe(w, {t}, b), TxsOf(b) \ (T \ {t}))
  BY <1>3, <1>4 DEF Holds
<1>6. QED
  BY <1>2, <1>3, <1>5

\* It opens only coins of the block itself.
LEMMA SyncOpens ==
    ASSUME NEW w \in WalletRecord, NEW b \in Block, NEW S \in SUBSET Txs[b], NEW t,
           OpenIn(AddToWalletIfInvolvingMe(w, S, b), t), t \notin S
    PROVE  OpenIn(w, t)
<1> DEFINE v == AddToWalletIfInvolvingMe(w, S, b)
           In == Involving(w, S)
<1>1. /\ In \subseteq S
      /\ v.txs = w.txs \cup In
      /\ v.vfSpent = (w.vfSpent \ (In \cap Mine))
                         \cup UNION {Spends[s] \cap v.txs \cap Mine : s \in In}
  BY SyncIs
<1> HIDE DEF v, In
<1>2. PICK s \in v.txs \ Staking : t \in Spends[s]
  BY DEF OpenIn, v
<1>3. t \in w.txs \cap Mine /\ t \notin w.vfSpent /\ t \in v.txs /\ t \notin v.vfSpent
  BY <1>1 DEF OpenIn, v
<1>4. s \notin In
  BY <1>1, <1>2, <1>3
<1>5. QED
  BY <1>1, <1>2, <1>3, <1>4 DEF OpenIn

-----------------------------------------------------------------------------
(* The invariant.                                                          *)

\* A block that is being told of is the next one, the index lets it in, and its
\* transactions are told in their order.
ConnectingInv ==
    /\ connecting = NoBlock => untold = {}
    /\ connecting # NoBlock =>
           /\ Connectable(connecting)
           /\ CanConnect(connecting, viewTx)
           /\ untold \subseteq Txs[connecting]
           /\ \A s \in Txs[connecting] \ untold : Spends[s] \cap untold = {}

\* The end of the chain in the open batch, without the block that is being told of.
Under == IF pc = "reorganize" THEN tip ELSE diskBest

LEMMA ConnectableIs ==
    ASSUME ChainInv, NEW b, Connectable(b)
    PROVE  b \in Block /\ b # Genesis /\ Parent[b] = Under /\ pc # "idle"
<1>1. /\ tip \in Block /\ pindexNew \in Block /\ pindexIntermediate \in Block
      /\ pc # "secondary" => pindexBest = diskBest
      /\ pc # "idle" => pindexNew # Genesis
  BY DEF ChainInv, TypeOK, RecordsInv, WorkInv
<1>2. CASE pc = "setbest" /\ Parent[pindexNew] = pindexBest /\ b = pindexNew
  BY <1>1, <1>2 DEF Under
<1>3. CASE /\ pc = "reorganize"
           /\ tip \in Chain[pindexIntermediate] \ {pindexIntermediate}
           /\ b = StepTowards(tip, pindexIntermediate)
  BY <1>1, <1>3, StepTowardsIs DEF Under
<1>4. CASE pc = "secondary" /\ tip # pindexNew /\ b = StepTowards(tip, pindexNew)
  BY <1>4, SecondaryFacts DEF Under
<1>5. QED
  BY <1>2, <1>3, <1>4 DEF Connectable

\* The chain that ends in Tip is valid and is what the open batch shows.
LEMMA ViewIsTip ==
    ASSUME ChainInv, ConnectingInv
    PROVE  /\ Tip \in Block /\ diskBest \in Block /\ Under \in Block
           /\ Sound(Tip) /\ Sound(diskBest) /\ Sound(Under)
           /\ View = IndexOf(Tip) /\ diskTx = IndexOf(diskBest) /\ viewTx = IndexOf(Under)
           /\ connecting = NoBlock => Tip = Under /\ untold = {}
           /\ connecting # NoBlock => /\ Tip = connecting /\ Tip # Genesis
                                      /\ Parent[Tip] = Under /\ pc # "idle"
           /\ ~BatchIsOpen => Tip = diskBest
           /\ pc # "reorganize" => Under = diskBest
<1>1. /\ Under \in Block /\ diskBest \in Block /\ Sound(Under) /\ Sound(diskBest)
      /\ viewTx = IndexOf(Under) /\ diskTx = IndexOf(diskBest)
      /\ pc # "reorganize" => Under = diskBest
  BY DEF ChainInv, TypeOK, DiskIsReplayOfBest, BatchInv, Under
<1>2. CASE connecting = NoBlock
  <2>1. Tip = Under /\ View = viewTx /\ untold = {}
    BY <1>2 DEF Tip, Under, View, ConnectingInv
  <2> QED BY <1>1, <1>2, <2>1 DEF BatchIsOpen
<1>3. CASE connecting # NoBlock
  <2>1. Tip = connecting /\ View = ConnectTx(connecting, viewTx)
    BY <1>3 DEF Tip, View
  <2>2. /\ connecting \in Block /\ connecting # Genesis /\ Parent[connecting] = Under
        /\ pc # "idle" /\ CanConnect(connecting, viewTx)
    BY <1>3, ConnectableIs DEF ConnectingInv
  <2>3. Sound(connecting) /\ ConnectTx(connecting, viewTx) = IndexOf(connecting)
    BY <1>1, <2>2, ConnectIndex
  <2> QED BY <1>1, <1>3, <2>1, <2>2, <2>3 DEF BatchIsOpen
<1>4. QED
  BY <1>2, <1>3

\* On a valid branch a transaction is spent in its own block or above it.
LEMMA SpenderAbove ==
    ASSUME NEW d \in Block, Sound(d), NEW a \in Chain[d], NEW c \in Chain[d],
           NEW t \in Txs[a], NEW s \in Txs[c], t \in Spends[s]
    PROVE  a \in Chain[c]
<1>1. a \in Block /\ c \in Block /\ Sound(c)
  BY ChainAssumption, SoundChain
<1>2. s \in TxsOf(c)
  BY <1>1, ChainAncestry DEF TxsOf, Ancestry
<1>3. t \in TxsOf(c)
  BY <1>1, <1>2, SoundWellFormed DEF WellFormed
<1>4. PICK x \in Chain[c] : t \in Txs[x]
  BY <1>3 DEF TxsOf
<1>5. x \in Chain[d]
  BY <1>4, ChainAncestry DEF Ancestry
<1>6. QED
  BY <1>4, <1>5, OneBlock

\* A transaction has an entry only for a block that holds it.
Placed(w) == \A t \in Tx : w.hashBlock[t] # NoBlock => t \in Txs[w.hashBlock[t]]

\* The scan goes upwards: what it has still to read lies above what it has read.
ScanInv ==
    /\ vScan \subseteq BlocksToScan
    /\ \A b \in vScan : \A c \in Chain[diskBest] : b \in Chain[c] => c \in vScan
    /\ startup # "scan" => vScan = {}
    /\ startup = "scan" => pc = "idle"

\* The wallet has everything of the chain on disk, and of the branch in the batch what it
\* was told of.
WalletInv ==
    /\ mapWallet \in WalletRecord
    /\ Placed(mapWallet)
    /\ Holds(mapWallet, TxsOf(diskBest))
    /\ Holds(mapWallet, TxsOf(Tip) \ untold)
    /\ ScanInv
    /\ ConnectingInv

LEMMA WalletInvInit ==
    ASSUME WalletInit
    PROVE  WalletInv
<1>1. /\ diskBest = Genesis /\ Tip = Genesis /\ connecting = NoBlock /\ untold = {}
      /\ mapWallet = [txs |-> {}, hashBlock |-> [t \in Tx |-> NoBlock], vfSpent |-> {}]
      /\ vScan = {} /\ startup = "done"
  BY DEF WalletInit, PoolInit, Init, Tip
<1>2. TxsOf(Genesis) = {}
  BY ChainAssumption, TxAssumption DEF TxsOf
<1>3. mapWallet \in WalletRecord /\ mapWallet.hashBlock = [t \in Tx |-> NoBlock]
  BY <1>1 DEF WalletRecord
<1>4. QED
  BY <1>1, <1>2, <1>3 DEF WalletInv, Placed, Holds, ScanInv, ConnectingInv

-----------------------------------------------------------------------------
(* The kinds of step.                                                      *)

\* v has what w has, in the same blocks, and what is new has marked its coins.
Grows(w, v) ==
    /\ v \in WalletRecord
    /\ w.txs \subseteq v.txs
    /\ v.hashBlock = w.hashBlock
    /\ w.vfSpent \subseteq v.vfSpent
    /\ \A s \in v.txs \ w.txs : Spends[s] \cap v.txs \cap Mine \subseteq v.vfSpent

Quiet ==
    /\ Tip' = Tip
    /\ UNCHANGED untold
    /\ diskBest' = diskBest \/ (diskBest' = Tip /\ untold = {})
    /\ Grows(mapWallet, mapWallet')

Disconnects ==
    /\ WalletReorganizeDisconnect
    /\ pc = "reorganize" /\ tip # Genesis
    /\ Tip = tip /\ Tip' = Parent[tip]
    /\ untold = {} /\ untold' = {}
    /\ UNCHANGED diskBest
    /\ mapWallet' = DisableTransactions(mapWallet, tip)

Abandons ==
    /\ AbandonsBatch
    /\ Tip' = diskBest /\ untold' = {}
    /\ UNCHANGED <<diskBest, mapWallet>>

Repairs == FixSpentCoins /\ UNCHANGED <<untold, diskBest>> /\ Tip' = Tip

\* AddToWalletIfInvolvingMe for a transaction without a block.
LEMMA HearsGrows ==
    ASSUME NEW w \in WalletRecord, NEW S \in SUBSET Tx
    PROVE  Grows(w, AddToWallet(w, S, NoBlock))
<1>1. Adds(w, S, NoBlock, AddToWallet(w, S, NoBlock))
  BY AddToWalletIs
<1> SUFFICES ASSUME NEW v, Adds(w, S, NoBlock, v) PROVE Grows(w, v)
  BY <1>1
<1>2. /\ v \in WalletRecord
      /\ v.txs = w.txs \cup S
      /\ \A t \in Tx : v.hashBlock[t] = w.hashBlock[t]
      /\ v.vfSpent = w.vfSpent \cup UNION {Spends[t] \cap v.txs \cap Mine : t \in S}
  BY DEF Adds
<1>3. v.hashBlock \in [Tx -> Block \cup {NoBlock}] /\ w.hashBlock \in [Tx -> Block \cup {NoBlock}]
  BY <1>2 DEF WalletRecord
<1>4. v.hashBlock = w.hashBlock
  BY <1>2, <1>3
<1>5. QED
  BY <1>2, <1>4 DEF Grows

\* More coins are marked.
LEMMA MarksGrow ==
    ASSUME NEW w \in WalletRecord, NEW v, Grows(w, v), NEW M \in SUBSET Tx
    PROVE  Grows(w, [v EXCEPT !.vfSpent = @ \cup M])
<1> DEFINE u == [v EXCEPT !.vfSpent = @ \cup M]
<1>1. v \in WalletRecord
  BY DEF Grows
<1>2. u \in WalletRecord /\ u.txs = v.txs /\ u.hashBlock = v.hashBlock
      /\ u.vfSpent = v.vfSpent \cup M
  BY <1>1 DEF WalletRecord
<1> HIDE DEF u
<1>3. Grows(w, u)
  BY <1>2 DEF Grows
<1>4. QED
  BY <1>3 DEF u

LEMMA SameGrows ==
    ASSUME NEW w \in WalletRecord
    PROVE  Grows(w, w)
  BY DEF Grows

\* ScanForWalletTransactions finds nothing in ReacceptWalletTransactions: the wallet has
\* all that concerns it.
LEMMA NothingMissing ==
    ASSUME NEW w \in WalletRecord, Holds(w, TxsOf(diskBest))
    PROVE  ScanForMissing(w) = w
<1> DEFINE missing == Involving(w, TxsOf(diskBest)) \ w.txs
           Has(t, b) == b \in Chain[diskBest] /\ t \in Txs[b]
           First(t)  == CHOOSE b \in Block : Has(t, b) /\ \A c \in Block : Has(t, c) => b \in Chain[c]
           found == [txs |-> w.txs \cup missing,
                     hashBlock |-> [t \in Tx |-> IF t \in missing THEN First(t) ELSE w.hashBlock[t]],
                     vfSpent |-> w.vfSpent]
<1>1. missing = {}
  BY DEF Involving, Holds, Concerns
<1>2. ScanForMissing(w) = WalletUpdateSpent(found, missing, diskBest)
  BY DEF ScanForMissing
<1> HIDE DEF missing
<1>3. w.txs \cup missing = w.txs /\ w.hashBlock \in [Tx -> Block \cup {NoBlock}]
  BY <1>1 DEF WalletRecord
<1> HIDE DEF First
<1>4. [t \in Tx |-> IF t \in missing THEN First(t) ELSE w.hashBlock[t]] = w.hashBlock
  BY <1>1, <1>3
<1>5. w = [txs |-> w.txs, hashBlock |-> w.hashBlock, vfSpent |-> w.vfSpent]
  BY DEF WalletRecord
<1>6. found = w
  BY <1>3, <1>4, <1>5
<1> HIDE DEF found
<1>7. UNION {OwnInputs(w, t) : t \in missing} = {} /\ missing \cap Mine = {}
  BY <1>1
<1>8. WalletUpdateSpent(w, missing, diskBest)
        = [w EXCEPT !.vfSpent = IF diskBest = NoBlock THEN w.vfSpent ELSE w.vfSpent]
  BY <1>7 DEF WalletUpdateSpent
<1>9. [w EXCEPT !.vfSpent = w.vfSpent] = w
  BY <1>5
<1>10. QED
  BY <1>2, <1>6, <1>8, <1>9

LEMMA MarkSpentOnDiskIs ==
    ASSUME NEW w \in WalletRecord
    PROVE  /\ MarkSpentOnDisk(w) \in WalletRecord
           /\ MarkSpentOnDisk(w).txs = w.txs
           /\ Grows(w, MarkSpentOnDisk(w))
<1> DEFINE M == {t \in w.txs \cap Mine : diskTx[t] \in Tx}
<1>1. M \in SUBSET Tx
  BY WalletAssumption
<1>2. MarkSpentOnDisk(w) = [w EXCEPT !.vfSpent = @ \cup M]
  BY DEF MarkSpentOnDisk
<1> HIDE DEF M
<1>3. Grows(w, MarkSpentOnDisk(w))
  BY <1>1, <1>2, SameGrows, MarksGrow
<1>4. QED
  BY <1>2, <1>3 DEF Grows, WalletRecord

LEMMA ReacceptGrows ==
    ASSUME WalletInv, ReacceptWalletTransactions
    PROVE  Grows(mapWallet, mapWallet')
<1> DEFINE w == mapWallet
           m == MarkSpentOnDisk(w)
<1>1. w \in WalletRecord /\ Holds(w, TxsOf(diskBest))
  BY DEF WalletInv
<1>2. m \in WalletRecord /\ m.txs = w.txs /\ Grows(w, m)
  BY <1>1, MarkSpentOnDiskIs
<1>3. mapWallet' = IF m = w THEN m ELSE MarkSpentOnDisk(ScanForMissing(m))
  BY DEF ReacceptWalletTransactions
<1> HIDE DEF m
<1>4. ScanForMissing(m) = m
  BY <1>1, <1>2, NothingMissing DEF Holds
<1>5. Grows(m, MarkSpentOnDisk(m)) /\ MarkSpentOnDisk(m).txs = m.txs
  BY <1>2, MarkSpentOnDiskIs
<1>6. Grows(w, MarkSpentOnDisk(m))
  BY <1>2, <1>5 DEF Grows
<1>7. QED
  BY <1>2, <1>3, <1>4, <1>6

\* The steps that end ConnectBlock.
LEMMA ConnectedSteps ==
    ASSUME ChainInv, WalletInv, UNCHANGED mapWallet,
           WalletExtendBest \/ WalletReorganizeConnect \/ WalletSecondaryConnect
    PROVE  Quiet /\ connecting \in Block /\ connecting' = NoBlock
<1>0. /\ tip \in Block /\ pindexNew \in Block /\ pindexIntermediate \in Block
      /\ Grows(mapWallet, mapWallet')
  BY SameGrows DEF ChainInv, TypeOK, WalletInv
<1>1. ASSUME NEW b \in Block, Connected(b), diskBest' \in {diskBest, b},
             (IF pc' = "reorganize" THEN tip' ELSE diskBest') = b
      PROVE  Quiet /\ connecting \in Block /\ connecting' = NoBlock
  <2>1. /\ connecting = b /\ connecting' = NoBlock /\ untold = {} /\ untold' = {}
        /\ b # NoBlock
    BY <1>1, TreeAssumption DEF Connected
  <2>2. Tip = b /\ Tip' = b
    BY <1>1, <2>1 DEF Tip
  <2> QED BY <1>0, <1>1, <2>1, <2>2 DEF Quiet
<1>2. CASE WalletExtendBest
  <2>1. Connected(pindexNew) /\ diskBest' = pindexNew /\ pc' = "idle"
    BY <1>2 DEF WalletExtendBest, PoolExtendBest, ExtendBest, CommitBlock, Finish
  <2> QED BY <1>0, <1>1, <2>1
<1>3. CASE WalletReorganizeConnect
  <2>1. /\ pc = "reorganize" /\ pc' = pc
        /\ tip \in Chain[pindexIntermediate] \ {pindexIntermediate}
        /\ tip' = StepTowards(tip, pindexIntermediate) /\ UNCHANGED diskBest /\ Connected(tip')
    BY <1>3 DEF WalletReorganizeConnect, PoolReorganizeConnect, ReorganizeConnect, diskVars
  <2>2. tip' \in Block
    BY <1>0, <2>1, StepTowardsIs
  <2> QED BY <1>1, <2>1, <2>2
<1>4. CASE WalletSecondaryConnect
  <2> DEFINE b == StepTowards(tip, pindexNew)
  <2>1. /\ pc = "secondary" /\ tip # pindexNew /\ CommitBlock(b) /\ tip' = b /\ pc' = pc
        /\ Connected(tip')
    BY <1>4 DEF WalletSecondaryConnect, PoolSecondaryConnect, SecondaryConnect
  <2>2. b \in Block
    BY <2>1, SecondaryFacts
  <2> HIDE DEF b
  <2>3. diskBest' = b
    BY <2>1 DEF CommitBlock
  <2> QED BY <1>1, <2>1, <2>2, <2>3
<1>5. QED
  BY <1>2, <1>3, <1>4

\* Each step beside the scan is of one of the kinds.
LEMMA Kinds ==
    ASSUME ChainInv, WalletInv, WalletRuns, ~SecondaryFails
    PROVE  \/ Quiet
           \/ \E b \in Block : WalletConnectBlock(b)
           \/ \E t \in Tx : SyncWithWallets(t)
           \/ Disconnects \/ Abandons \/ Repairs
<1>0. /\ mapWallet \in WalletRecord
      /\ tip \in Block /\ diskBest \in Block /\ pindexNew \in Block
      /\ pindexIntermediate \in Block
      /\ pc # "secondary" => pindexBest = diskBest
      /\ connecting = NoBlock => untold = {}
  BY DEF ChainInv, TypeOK, RecordsInv, WalletInv, ConnectingInv
<1>1. ASSUME UNCHANGED <<vars, connecting, untold>>, Grows(mapWallet, mapWallet') PROVE Quiet
  BY <1>1 DEF Quiet, vars, diskVars, workVars, Tip
<1>2. ASSUME UNCHANGED mapWallet PROVE Grows(mapWallet, mapWallet')
  BY <1>0, <1>2, SameGrows
<1>3. CASE WalletUnchangedStep
  <2>1. Grows(mapWallet, mapWallet') /\ connecting = NoBlock /\ UNCHANGED <<connecting, untold>>
    BY <1>2, <1>3 DEF WalletUnchangedStep, walletVars, NoneConnected
  <2>2. ASSUME NEW b \in Block, AddToBlockIndex(b) PROVE Quiet
    BY <2>1, <2>2 DEF AddToBlockIndex, Quiet, Tip
  <2>3. CASE ExtendFails
    BY <1>0, <2>1, <2>3 DEF ExtendFails, TxnAbort, Finish, diskVars, Quiet, Tip
  <2>4. CASE BeginReorganize
    BY <1>0, <2>1, <2>4 DEF BeginReorganize, diskVars, Quiet, Tip
  <2> QED BY <1>3, <2>2, <2>3, <2>4 DEF WalletUnchangedStep
<1>4. CASE WalletExtendBest \/ WalletReorganizeConnect \/ WalletSecondaryConnect
  <2>1. UNCHANGED mapWallet
    BY <1>4 DEF WalletExtendBest, WalletReorganizeConnect, WalletSecondaryConnect
  <2> QED BY <1>4, <2>1, ConnectedSteps
<1>5. CASE WalletReorganizeDisconnect
  <2>1. /\ pc = "reorganize" /\ pc' = pc /\ tip \notin Chain[pindexIntermediate]
        /\ tip' = Parent[tip] /\ UNCHANGED <<diskBest, connecting, untold>> /\ connecting = NoBlock
        /\ mapWallet' = DisableTransactions(mapWallet, tip)
    BY <1>5 DEF WalletReorganizeDisconnect, ReorganizeDisconnect, diskVars, NoneConnected
  <2>2. tip # Genesis
    BY <1>0, <2>1, ChainAncestry DEF Ancestry
  <2>3. Disconnects
    BY <1>0, <1>5, <2>1, <2>2 DEF Disconnects, Tip
  <2> QED BY <2>3
<1>7. CASE WalletReorganizeFails
  BY <1>0, <1>7 DEF WalletReorganizeFails, ReorganizeFails, Finish, diskVars, NoneConnected,
                    Abandons, AbandonsBatch, Tip
<1>8. CASE WalletReorganizeCommit
  <2>1. /\ ReorganizeCommit /\ UNCHANGED <<mapWallet, connecting, untold>>
        /\ connecting = NoBlock
    BY <1>8 DEF WalletReorganizeCommit, PoolReorganizeCommit, NoneConnected
  <2>2. /\ pc = "reorganize" /\ tip = pindexIntermediate /\ diskBest' = pindexIntermediate
        /\ pc' # "reorganize"
    BY <2>1 DEF ReorganizeCommit, Finish
  <2>3. Quiet
    BY <1>0, <1>2, <2>1, <2>2 DEF Quiet, Tip
  <2> QED BY <2>3
<1>10. ~WalletSecondaryFails
  BY DEF WalletSecondaryFails, PoolSecondaryFails
<1>11. CASE WalletNewBestBlock
  <2>1. Grows(mapWallet, mapWallet') /\ connecting = NoBlock /\ UNCHANGED <<connecting, untold>>
    BY <1>2, <1>11 DEF WalletNewBestBlock, NoneConnected
  <2>2. Quiet
    BY <2>1, <1>11 DEF WalletNewBestBlock, NewBestBlock, Finish, diskVars, Quiet, Tip
  <2> QED BY <2>2
<1>12. ASSUME NEW t \in Tx, WalletHearsOfTx(t) PROVE Quiet
  <2>1. Involving(mapWallet, {t}) \in SUBSET Tx
    BY DEF Involving
  <2>2. mapWallet' = AddToWallet(mapWallet, Involving(mapWallet, {t}), NoBlock)
    BY <1>12 DEF WalletHearsOfTx, AddToWalletIfInvolvingMe
  <2>3. Grows(mapWallet, mapWallet')
    BY <1>0, <2>1, <2>2, HearsGrows
  <2>4. UNCHANGED <<vars, connecting, untold>>
    BY <1>12 DEF WalletHearsOfTx, ReceiveTx, SubmitTx
  <2> QED BY <1>1, <2>3, <2>4
<1>13. ASSUME NEW t \in Tx, CommitTransaction(t) PROVE Quiet
  <2> DEFINE v == AddToWallet(mapWallet, {t}, NoBlock)
  <2>1. Grows(mapWallet, v)
    BY <1>0, HearsGrows
  <2>2. UNCHANGED <<vars, connecting, untold>> /\ mapWallet' = [v EXCEPT !.vfSpent = @ \cup Spends[t]]
    BY <1>13 DEF CommitTransaction
  <2> HIDE DEF v
  <2>3. Spends[t] \in SUBSET Tx
    BY TxAssumption
  <2>4. Grows(mapWallet, mapWallet')
    BY <1>0, <2>1, <2>2, <2>3, MarksGrow
  <2> QED BY <1>1, <2>2, <2>4
<1>14. CASE WalletMissesOrphans
  BY <1>1, <1>2, <1>14 DEF WalletMissesOrphans, ReceiveOrphanTx, ProcessOrphans, AcceptOrphan,
                           RefuseOrphan, NextInQueue, EraseOrphans, walletVars
<1>15. CASE ReconcilerCounts \/ ReconcilerStores
  BY <1>1, <1>2, <1>15 DEF ReconcilerCounts, ReconcilerStores, allVars
<1>16. CASE FixSpentCoins
  BY <1>16 DEF FixSpentCoins, allVars, vars, diskVars, workVars, Repairs, Tip
<1>17. CASE ReacceptWalletTransactions
  <2>1. UNCHANGED <<vars, connecting, untold>>
    BY <1>17 DEF ReacceptWalletTransactions
  <2> QED BY <1>1, <1>17, <2>1, ReacceptGrows
<1>18. QED
  BY <1>3, <1>4, <1>5, <1>7, <1>8, <1>10, <1>11, <1>12, <1>13, <1>14, <1>15, <1>16, <1>17
     DEF WalletRuns

\* Nothing starts a scan but a restart.
LEMMA NoScan ==
    ASSUME WalletInv, startup # "scan", WalletRuns
    PROVE  vScan = {} /\ vScan' = {} /\ startup' # "scan"
<1>1. vScan = {}
  BY DEF WalletInv, ScanInv
<1>2. UNCHANGED vScan /\ startup' \in {startup, "done"}
  BY DEF WalletRuns, WalletUnchangedStep, WalletConnectBlock, SyncWithWallets,
         WalletExtendBest, WalletReorganizeDisconnect,
         WalletReorganizeConnect, WalletReorganizeFails, WalletReorganizeCommit,
         WalletSecondaryConnect, WalletSecondaryFails, WalletNewBestBlock, WalletHearsOfTx,
         CommitTransaction, WalletMissesOrphans, ReconcilerCounts, ReconcilerStores, FixSpentCoins,
         ReacceptWalletTransactions, idleVars, walletVars
<1>3. QED
  BY <1>1, <1>2

\* The block that a step connects is valid, and new to the chain.
LEMMA ConnectsFacts ==
    ASSUME ChainInv, WalletInv, NEW b \in Block, WalletConnectBlock(b)
    PROVE  /\ Sound(b) /\ Parent[b] = Tip /\ Tip' = b /\ b # Genesis
           /\ TxsOf(b) = Txs[b] \cup TxsOf(Tip) /\ TxsOf(b) \subseteq Tx
           /\ Txs[b] \cap TxsOf(Tip) = {}
           /\ untold = {} /\ untold' = Txs[b]
           /\ UNCHANGED <<diskBest, mapWallet>>
<1>1. /\ connecting = NoBlock /\ connecting' = b /\ untold' = Txs[b]
      /\ Connectable(b) /\ CanConnect(b, viewTx)
      /\ UNCHANGED <<diskBest, mapWallet>>
  BY DEF WalletConnectBlock, allVars, vars, diskVars
<1>2. Parent[b] = Under /\ b # Genesis
  BY <1>1, ConnectableIs
<1>3. viewTx = IndexOf(Under) /\ Sound(Under) /\ Tip = Under /\ untold = {}
  BY <1>1, ViewIsTip DEF WalletInv
<1>4. Sound(b)
  BY <1>1, <1>2, <1>3, ConnectIndex
<1>5. TxsOf(b) = Txs[b] \cup TxsOf(Parent[b]) /\ TxsOf(b) \subseteq Tx
  BY <1>2, TxsOfStep
<1>6. Txs[b] \cap TxsOf(Parent[b]) = {}
  BY <1>2, <1>4, SoundWellFormed DEF WellFormed
<1>7. Tip' = b
  BY <1>1, TreeAssumption DEF Tip
<1>8. QED
  BY <1>1, <1>2, <1>3, <1>4, <1>5, <1>6, <1>7

\* The wallet is told of one transaction.
LEMMA TellsFacts ==
    ASSUME ChainInv, WalletInv, NEW t \in Tx, SyncWithWallets(t)
    PROVE  /\ Tip' = Tip /\ Tip \in Block /\ Tip # Genesis /\ Sound(Tip)
           /\ t \in untold /\ untold \in SUBSET Txs[Tip] /\ untold' = untold \ {t}
           /\ Spends[t] \cap untold = {}
           /\ \A s \in Txs[Tip] \ untold : Spends[s] \cap untold = {}
           /\ mapWallet' = AddToWalletIfInvolvingMe(mapWallet, {t}, Tip)
           /\ UNCHANGED <<diskBest, vars, connecting>>
<1>1. /\ t \in untold /\ untold' = untold \ {t} /\ Spends[t] \cap untold = {}
      /\ mapWallet' = AddToWalletIfInvolvingMe(mapWallet, {t}, connecting)
      /\ UNCHANGED <<diskBest, vars, connecting, pc, tip>>
  BY DEF SyncWithWallets, allVars, vars, diskVars, workVars
<1>2. connecting # NoBlock
  BY <1>1 DEF WalletInv, ConnectingInv
<1>3. /\ untold \in SUBSET Txs[connecting]
      /\ \A s \in Txs[connecting] \ untold : Spends[s] \cap untold = {}
  BY <1>2 DEF WalletInv, ConnectingInv
<1>4. Tip = connecting /\ Tip \in Block /\ Tip # Genesis /\ Sound(Tip)
  BY <1>2, ViewIsTip DEF WalletInv
<1>5. Tip' = Tip
  BY <1>1 DEF Tip
<1>6. QED
  BY <1>1, <1>3, <1>4, <1>5

LEMMA PlacedSync ==
    ASSUME NEW w \in WalletRecord, Placed(w), NEW b \in Block, NEW S \in SUBSET Txs[b]
    PROVE  Placed(AddToWalletIfInvolvingMe(w, S, b))
<1> DEFINE v == AddToWalletIfInvolvingMe(w, S, b)
           In == Involving(w, S)
<1>1. In \subseteq S /\ \A t \in Tx : v.hashBlock[t] = IF t \in In THEN b ELSE w.hashBlock[t]
  BY SyncIs
<1> HIDE DEF v, In
<1>2. Placed(v)
  BY <1>1 DEF Placed
<1>3. QED
  BY <1>2 DEF v

LEMMA SyncKeeps ==
    ASSUME NEW w \in WalletRecord, NEW b \in Block, NEW S \in SUBSET Txs[b], NEW H, Holds(w, H)
    PROVE  /\ AddToWalletIfInvolvingMe(w, S, b) \in WalletRecord
           /\ Holds(AddToWalletIfInvolvingMe(w, S, b), H)
<1> DEFINE v == AddToWalletIfInvolvingMe(w, S, b)
<1>1. v \in WalletRecord /\ w.txs \subseteq v.txs
  BY SyncIs
<1> HIDE DEF v
<1>2. Holds(v, H)
  BY <1>1 DEF Holds
<1>3. QED
  BY <1>1, <1>2 DEF v

LEMMA WholeBlock ==
    ASSUME NEW w, NEW b \in Block
    PROVE  SyncBlock(w, b) = AddToWalletIfInvolvingMe(w, Txs[b], b) /\ Txs[b] \in SUBSET Txs[b]
  BY DEF SyncBlock

\* What DisableTransaction and repairwallet leave alone.
LEMMA FlagsOnly ==
    ASSUME NEW w \in WalletRecord, NEW F \in SUBSET Tx, NEW v, v = [w EXCEPT !.vfSpent = F]
    PROVE  /\ v \in WalletRecord /\ v.txs = w.txs /\ v.hashBlock = w.hashBlock
           /\ v.vfSpent = F
  BY DEF WalletRecord

LEMMA DisableIs ==
    ASSUME NEW w \in WalletRecord, NEW b \in Block
    PROVE  LET v == DisableTransactions(w, b)
           IN  /\ v \in WalletRecord /\ v.txs = w.txs /\ v.hashBlock = w.hashBlock
               /\ \A t \in w.vfSpent \ v.vfSpent :
                      \E s \in Txs[b] \cap Staking : t \in Spends[s]
               /\ v.vfSpent \subseteq w.vfSpent
<1> DEFINE F == w.vfSpent \ UNION {OwnInputs(w, s) : s \in Txs[b] \cap Staking}
<1>1. F \in SUBSET Tx
  BY DEF WalletRecord
<1>2. DisableTransactions(w, b) = [w EXCEPT !.vfSpent = F]
  BY DEF DisableTransactions
<1>3. \A t \in w.vfSpent \ F : \E s \in Txs[b] \cap Staking : t \in Spends[s]
  BY DEF OwnInputs
<1>4. F \subseteq w.vfSpent
  OBVIOUS
<1> HIDE DEF F
<1>5. QED
  BY <1>1, <1>2, <1>3, <1>4, FlagsOnly

LEMMA RepairIs ==
    ASSUME mapWallet \in WalletRecord, FixSpentCoins
    PROVE  /\ mapWallet' \in WalletRecord /\ mapWallet'.txs = mapWallet.txs
           /\ mapWallet'.hashBlock = mapWallet.hashBlock
           /\ \A t \in mapWallet.txs \cap Mine :
                  t \in mapWallet'.vfSpent <=>
                      IF diskTx[t] = Absent THEN t \in mapWallet.vfSpent ELSE diskTx[t] # Unspent
<1> DEFINE w == mapWallet
           indexed == {t \in w.txs \cap Mine : diskTx[t] # Absent}
           F == (w.vfSpent \ indexed) \cup {t \in indexed : diskTx[t] # Unspent}
<1>1. F \in SUBSET Tx
  BY WalletAssumption DEF WalletRecord
<1>2. mapWallet' = [w EXCEPT !.vfSpent = F]
  BY DEF FixSpentCoins
<1>3. \A t \in w.txs \cap Mine :
          t \in F <=> IF diskTx[t] = Absent THEN t \in w.vfSpent ELSE diskTx[t] # Unspent
  OBVIOUS
<1> HIDE DEF F
<1>4. QED
  BY <1>1, <1>2, <1>3, FlagsOnly

\* No other step begins in the middle of a block.
LEMMA ConnectingStep ==
    ASSUME ChainInv, WalletInv, [WalletNext]_everything
    PROVE  ConnectingInv'
<1>0. ConnectingInv
  BY DEF WalletInv
<1>1. ASSUME UNCHANGED <<vars, connecting, untold>> PROVE ConnectingInv'
  BY <1>0, <1>1 DEF ConnectingInv, Connectable, CanConnect, vars, memVars, workVars
<1>2. ASSUME NoneConnected \/ \E b : Connected(b) PROVE ConnectingInv'
  BY <1>0, <1>2 DEF ConnectingInv, NoneConnected, Connected
<1>3. CASE WalletRuns
  <2>1. CASE \/ WalletUnchangedStep \/ WalletExtendBest \/ WalletReorganizeDisconnect
             \/ WalletReorganizeConnect \/ WalletReorganizeFails \/ WalletReorganizeCommit
             \/ WalletSecondaryConnect \/ WalletSecondaryFails \/ WalletNewBestBlock
    BY <1>2, <2>1 DEF WalletUnchangedStep, WalletExtendBest, WalletReorganizeDisconnect,
       WalletReorganizeConnect, WalletReorganizeFails, WalletReorganizeCommit,
       WalletSecondaryConnect, WalletSecondaryFails, WalletNewBestBlock
  <2>2. ASSUME NEW b \in Block, WalletConnectBlock(b) PROVE ConnectingInv'
    <3>1. /\ connecting' = b /\ untold' = Txs[b] /\ Connectable(b) /\ CanConnect(b, viewTx)
          /\ UNCHANGED vars
      BY <2>2 DEF WalletConnectBlock, allVars
    <3>2. Connectable(b)' /\ CanConnect(b, viewTx)'
      BY <3>1 DEF Connectable, CanConnect, vars, memVars, workVars
    <3> QED BY <3>1, <3>2, TreeAssumption DEF ConnectingInv
  <2>3. ASSUME NEW t \in Tx, SyncWithWallets(t) PROVE ConnectingInv'
    <3>1. /\ connecting # NoBlock /\ untold' = untold \ {t} /\ Spends[t] \cap untold = {}
          /\ UNCHANGED <<vars, connecting>>
      BY <1>0, <2>3 DEF SyncWithWallets, allVars, ConnectingInv
    <3>2. Connectable(connecting)' /\ CanConnect(connecting, viewTx)'
      BY <1>0, <3>1 DEF ConnectingInv, Connectable, CanConnect, vars, memVars, workVars
    <3> QED BY <1>0, <3>1, <3>2 DEF ConnectingInv
  <2>4. ASSUME NEW t \in Tx, WalletHearsOfTx(t) \/ CommitTransaction(t) PROVE ConnectingInv'
    BY <1>1, <2>4 DEF WalletHearsOfTx, CommitTransaction, ReceiveTx, SubmitTx
  <2>5. CASE WalletMissesOrphans
    BY <1>1, <2>5 DEF WalletMissesOrphans, ReceiveOrphanTx, ProcessOrphans, AcceptOrphan,
                      RefuseOrphan, NextInQueue, EraseOrphans, walletVars
  <2>6. CASE ReconcilerCounts \/ ReconcilerStores \/ FixSpentCoins \/ ReacceptWalletTransactions
    BY <1>1, <2>6 DEF ReconcilerCounts, ReconcilerStores, FixSpentCoins,
                      ReacceptWalletTransactions, allVars
  <2> QED BY <1>3, <2>1, <2>2, <2>3, <2>4, <2>5, <2>6 DEF WalletRuns
<1>4. CASE (\E b \in Block : ScanBlock(b)) \/ FillSnapshot
  BY <1>1, <1>4 DEF ScanBlock, FillSnapshot, allVars
<1>5. CASE WalletRestart
  BY <1>5 DEF WalletRestart, ConnectingInv
<1>6. CASE UNCHANGED everything
  BY <1>1, <1>6 DEF everything, allVars, walletVars
<1>7. QED
  BY <1>3, <1>4, <1>5, <1>6 DEF WalletNext

LEMMA WalletRunsInv ==
    ASSUME ChainInv, WalletInv, startup # "scan", WalletRuns, ~SecondaryFails
    PROVE  WalletInv'
<1> DEFINE w == mapWallet
           v == mapWallet'
<1>0. /\ w \in WalletRecord /\ Placed(w)
      /\ Holds(w, TxsOf(diskBest)) /\ Holds(w, TxsOf(Tip) \ untold)
      /\ Tip \in Block /\ diskBest \in Block
  BY ViewIsTip DEF WalletInv
<1>1. ScanInv' /\ ConnectingInv'
  BY NoScan, ConnectingStep DEF ScanInv, WalletNext
<1>2. ASSUME v \in WalletRecord, Placed(v), Holds(v, TxsOf(diskBest')),
             Holds(v, TxsOf(Tip') \ untold')
      PROVE  WalletInv'
  BY <1>1, <1>2 DEF WalletInv, Placed, Holds, TxsOf, Concerns, WalletRecord
<1> HIDE DEF v
<1>3. CASE Quiet
  <2>1. /\ v \in WalletRecord /\ w.txs \subseteq v.txs /\ v.hashBlock = w.hashBlock
        /\ Tip' = Tip /\ untold' = untold
        /\ diskBest' = diskBest \/ (diskBest' = Tip /\ untold = {})
    BY <1>3 DEF Quiet, Grows, v
  <2> QED BY <1>0, <1>2, <2>1 DEF Placed, Holds
<1>4. ASSUME NEW b \in Block, WalletConnectBlock(b) PROVE WalletInv'
  <2>1. /\ TxsOf(Tip') = Txs[b] \cup TxsOf(Tip) /\ untold = {} /\ untold' = Txs[b]
        /\ diskBest' = diskBest /\ v = w
    BY <1>4, ConnectsFacts DEF v
  <2> QED BY <1>0, <1>2, <2>1 DEF Holds
<1>5. ASSUME NEW t \in Tx, SyncWithWallets(t) PROVE WalletInv'
  <2>1. /\ Tip' = Tip /\ Tip # Genesis /\ Sound(Tip) /\ diskBest' = diskBest
        /\ t \in untold /\ untold \in SUBSET Txs[Tip] /\ untold' = untold \ {t}
        /\ Spends[t] \cap untold = {} /\ {t} \in SUBSET Txs[Tip]
        /\ v = AddToWalletIfInvolvingMe(w, {t}, Tip)
    BY <1>5, TellsFacts DEF v
  <2>2. Holds(v, TxsOf(Tip) \ untold')
    BY <1>0, <2>1, SyncFollows
  <2>3. v \in WalletRecord /\ Holds(v, TxsOf(diskBest)) /\ Placed(v)
    BY <1>0, <2>1, SyncKeeps, PlacedSync
  <2> QED BY <1>2, <2>1, <2>2, <2>3
<1>6. CASE Disconnects
  <2>1. /\ v = DisableTransactions(w, Tip) /\ diskBest' = diskBest /\ Tip' = Parent[Tip]
        /\ Tip # Genesis /\ untold = {} /\ untold' = {}
    BY <1>6 DEF Disconnects, v
  <2>2. v \in WalletRecord /\ v.txs = w.txs /\ v.hashBlock = w.hashBlock
    BY <1>0, <2>1, DisableIs
  <2>3. TxsOf(Tip') \subseteq TxsOf(Tip)
    BY <1>0, <2>1, TxsOfStep
  <2> QED BY <1>0, <1>2, <2>1, <2>2, <2>3 DEF Placed, Holds
<1>7. CASE Abandons
  BY <1>0, <1>2, <1>7 DEF Abandons, v, Holds
<1>8. CASE Repairs
  <2>1. v \in WalletRecord /\ v.txs = w.txs /\ v.hashBlock = w.hashBlock
    BY <1>0, <1>8, RepairIs DEF Repairs, v
  <2>2. diskBest' = diskBest /\ Tip' = Tip /\ untold' = untold
    BY <1>8 DEF Repairs
  <2> QED BY <1>0, <1>2, <2>1, <2>2 DEF Placed, Holds
<1>9. QED
  BY <1>3, <1>4, <1>5, <1>6, <1>7, <1>8, Kinds

\* The scan that a restart begins reads whole branches.
LEMMA BlocksToScanClosed ==
    ASSUME diskBest \in Block
    PROVE  /\ BlocksToScan \subseteq Chain[diskBest]
           /\ \A b \in BlocksToScan : \A c \in Chain[diskBest] :
                  b \in Chain[c] => c \in BlocksToScan
<1>1. \A c \in Chain[diskBest] : \A b \in Chain[c] : Chain[b] \subseteq Chain[c]
  BY ChainAssumption, ChainAncestry DEF Ancestry
<1>2. QED
  BY <1>1 DEF BlocksToScan

LEMMA WalletInvStep ==
    ASSUME ChainInv, WalletInv, [WalletNext]_everything,
           ~SecondaryFails \/ UNCHANGED vars
    PROVE  WalletInv'
<1> DEFINE w == mapWallet
           v == mapWallet'
<1>0. /\ w \in WalletRecord /\ Placed(w)
      /\ Holds(w, TxsOf(diskBest)) /\ Holds(w, TxsOf(Tip) \ untold)
      /\ Tip \in Block /\ diskBest \in Block /\ ScanInv
      /\ ConnectingInv'
  BY ViewIsTip, ConnectingStep DEF WalletInv
<1>1. CASE startup # "scan" /\ WalletRuns
  <2>1. CASE ~SecondaryFails
    BY <1>1, <2>1, WalletRunsInv
  <2>2. CASE SecondaryFails
    <3>1. pc = "secondary" /\ pc' = "idle"
      BY <2>2 DEF SecondaryFails, Finish
    <3> QED BY <2>2, <3>1 DEF vars
  <2> QED BY <2>1, <2>2
<1>2. ASSUME NEW b \in Block, ScanBlock(b) PROVE WalletInv'
  <2>1. /\ v = SyncBlock(w, b) /\ vScan' = vScan \ {b} /\ b \in vScan
        /\ \A c \in vScan : b \in Chain[c]
        /\ UNCHANGED <<diskBest, tip, pc, startup, bestblock, connecting, untold>>
    BY <1>2 DEF ScanBlock, allVars, vars, diskVars, workVars
  <2>2. Tip' = Tip
    BY <2>1 DEF Tip
  <2> HIDE DEF v
  <2>3. /\ v \in WalletRecord /\ Placed(v)
        /\ Holds(v, TxsOf(diskBest)) /\ Holds(v, TxsOf(Tip) \ untold)
    BY <1>0, <2>1, WholeBlock, SyncKeeps, PlacedSync
  <2>4. ASSUME NEW x \in vScan', NEW c \in Chain[diskBest], x \in Chain[c] PROVE c \in vScan'
    <3>1. c \in vScan /\ x \in vScan /\ x # b
      BY <1>0, <2>1, <2>4 DEF ScanInv
    <3>2. c # b
      <4> SUFFICES ASSUME c = b PROVE FALSE
        OBVIOUS
      <4>1. b \in Chain[x] /\ x \in Chain[b]
        BY <2>1, <2>4, <3>1
      <4>2. x \in Block /\ b \in Block
        BY <1>0, <4>1, ChainAssumption
      <4>3. Height[b] < Height[x] /\ Height[x] < Height[b]
        BY <3>1, <4>1, <4>2, ChainAncestry DEF Ancestry
      <4> QED BY <4>2, <4>3, TreeAssumption
    <3> QED BY <2>1, <3>1, <3>2
  <2>5. BlocksToScan' = BlocksToScan
    BY <2>1 DEF BlocksToScan
  <2>6. ScanInv'
    BY <1>0, <2>1, <2>4, <2>5 DEF ScanInv
  <2> QED BY <1>0, <2>1, <2>2, <2>3, <2>6 DEF WalletInv, v, Placed, Holds, TxsOf, WalletRecord, Concerns
<1>3. ASSUME UNCHANGED <<vars, mapWallet, vScan, bestblock, connecting, untold>>, startup' = startup \/ FillSnapshot
      PROVE  WalletInv'
  <2>1. UNCHANGED <<diskBest, pc, tip>> /\ Tip' = Tip /\ BlocksToScan' = BlocksToScan
    BY <1>3 DEF vars, diskVars, workVars, Tip, BlocksToScan
  <2>2. ScanInv'
    BY <1>0, <1>3, <2>1 DEF ScanInv, FillSnapshot
  <2> QED BY <1>0, <1>3, <2>1, <2>2 DEF WalletInv, Placed, Holds, TxsOf, WalletRecord, Concerns
<1>4. CASE FillSnapshot \/ UNCHANGED everything
  BY <1>3, <1>4 DEF FillSnapshot, allVars, everything, walletVars
<1>5. CASE WalletRestart
  <2>1. /\ UNCHANGED <<mapWallet, diskBest, bestblock>> /\ pc' = "idle"
        /\ vScan' = BlocksToScan /\ connecting' = NoBlock /\ untold' = {}
    BY <1>5 DEF WalletRestart, PoolRestart, Restart, Finish, diskVars
  <2>2. Tip' = diskBest /\ BlocksToScan' = BlocksToScan
    BY <2>1 DEF Tip, BlocksToScan
  <2>3. ScanInv'
    <3>1. startup' = "scan"
      BY <1>5 DEF WalletRestart
    <3> QED BY <1>0, <2>1, <2>2, <3>1, BlocksToScanClosed DEF ScanInv
  <2> QED BY <1>0, <2>1, <2>2, <2>3 DEF WalletInv, Placed, Holds, TxsOf, WalletRecord, Concerns
<1>6. QED
  BY <1>1, <1>2, <1>4, <1>5 DEF WalletNext

-----------------------------------------------------------------------------
(* The wallet is led astray.                                               *)

\* t is astray for a reason that the record gives: a block outside the chain of c, or a
\* coin open although idx spends it, by a transaction not in V.
Wrong(w, c, idx, V, t) ==
    \/ w.hashBlock[t] \notin Chain[c]
    \/ /\ t \in Mine \ w.vfSpent
       /\ idx[t] \in Tx \ V

AstrayIsWrong ==
    \A t \in Tx : t \in Astray <=>
        Concerns(t) /\ t \in TxsOf(Tip) \ untold /\ Wrong(mapWallet, Tip, IndexOf(Tip), ToHear, t)

\* Nothing is missing, so that those are the reasons.
LEMMA AstrayIs ==
    ASSUME ChainInv, WalletInv
    PROVE  AstrayIsWrong
<1> SUFFICES ASSUME NEW t \in Tx
             PROVE  t \in Astray <=> Concerns(t) /\ t \in TxsOf(Tip) \ untold
                                        /\ Wrong(mapWallet, Tip, IndexOf(Tip), ToHear, t)
  BY DEF AstrayIsWrong
<1>1. View = IndexOf(Tip) /\ Tip \in Block /\ Holds(mapWallet, TxsOf(Tip) \ untold)
  BY ViewIsTip DEF WalletInv
<1>2. View[t] # Absent <=> t \in TxsOf(Tip)
  BY <1>1, IndexAbsent
<1>3. t \in TxsOf(Tip) \ untold /\ Concerns(t) => t \in mapWallet.txs
  BY <1>1 DEF Holds
<1>4. QED
  BY <1>1, <1>2, <1>3 DEF Astray, Wrong

\* SyncIs for one transaction.
Told(w, v, t, b) ==
    /\ v \in WalletRecord
    /\ Involving(w, {t}) \subseteq {t}
    /\ v.txs = w.txs \cup Involving(w, {t})
    /\ \A s \in Tx : v.hashBlock[s] = IF s \in Involving(w, {t}) THEN b ELSE w.hashBlock[s]
    /\ v.vfSpent = (w.vfSpent \ (Involving(w, {t}) \cap Mine))
                       \cup UNION {Spends[s] \cap v.txs \cap Mine : s \in Involving(w, {t})}

LEMMA TellIs ==
    ASSUME NEW w \in WalletRecord, NEW b \in Block, NEW t, {t} \in SUBSET Txs[b]
    PROVE  Told(w, AddToWalletIfInvolvingMe(w, {t}, b), t, b)
  BY SyncIs, Zenon DEF Told

\* The wallet is told of a transaction of the block: what that spends is marked, and its
\* own output is not spent by one that was told before.
LEMMA AstrayTells ==
    ASSUME ChainInv, WalletInv, NEW t \in Tx, SyncWithWallets(t),
           NEW u \in TxsOf(Tip) \ untold', Concerns(u),
           Wrong(mapWallet', Tip, IndexOf(Tip), untold', u)
    PROVE  u \notin untold /\ Wrong(mapWallet, Tip, IndexOf(Tip), untold, u)
<1> DEFINE w == mapWallet
           v == mapWallet'
           In == Involving(w, {t})
<1>1. /\ w \in WalletRecord /\ Holds(w, TxsOf(Tip) \ untold)
      /\ Tip \in Block /\ Tip # Genesis /\ Sound(Tip)
      /\ t \in untold /\ untold \in SUBSET Txs[Tip] /\ untold' = untold \ {t}
      /\ Spends[t] \cap untold = {} /\ {t} \in SUBSET Txs[Tip]
      /\ \A s \in Txs[Tip] \ untold : Spends[s] \cap untold = {}
      /\ v = AddToWalletIfInvolvingMe(w, {t}, Tip)
  BY TellsFacts DEF WalletInv
<1>2. /\ v.txs = w.txs \cup In /\ In \subseteq {t}
      /\ \A s \in Tx : v.hashBlock[s] = IF s \in In THEN Tip ELSE w.hashBlock[s]
      /\ v.vfSpent = (w.vfSpent \ (In \cap Mine))
                         \cup UNION {Spends[s] \cap v.txs \cap Mine : s \in In}
  <2>1. Told(w, v, t, Tip)
    BY <1>1, TellIs
  <2> QED BY <2>1 DEF Told
<1>3. Spends[t] \cap Mine \subseteq w.txs /\ (Concerns(t) => In = {t})
  BY <1>1, SyncFollows
<1>4. /\ TxsOf(Tip) = Txs[Tip] \cup TxsOf(Parent[Tip]) /\ TxsOf(Tip) \subseteq Tx
      /\ Parent[Tip] \in Block /\ Sound(Parent[Tip]) /\ Tip \in Chain[Tip]
      /\ Txs[Tip] \cap TxsOf(Parent[Tip]) = {}
  BY <1>1, TxsOfStep, SoundParent, SoundWellFormed, AboveParent DEF WellFormed
<1> HIDE DEF v, In
<1>5. u \in Tx
  BY <1>4
\* The spender of u, which was told, or is t.
<1>6. ASSUME u \in Mine, u \notin v.vfSpent, IndexOf(Tip)[u] \in Tx, IndexOf(Tip)[u] \notin untold'
      PROVE  u \notin untold /\ u \notin w.vfSpent /\ IndexOf(Tip)[u] \notin untold
  <2> DEFINE s == IndexOf(Tip)[u]
  <2>1. s \in TxsOf(Tip) /\ u \in Spends[s]
    BY <1>1, <1>5, <1>6, IndexOfIs, TxAssumption
  <2>2. s # t
    <3> SUFFICES ASSUME s = t PROVE FALSE
      OBVIOUS
    <3>1. Concerns(t) /\ u \in w.txs
      BY <1>3, <1>6, <2>1 DEF Concerns
    <3> QED BY <1>2, <1>3, <1>6, <2>1, <3>1
  <2>3. s \notin untold
    BY <1>1, <1>6, <2>2
  <2>4. u \notin untold
    <3> SUFFICES ASSUME u \in untold PROVE FALSE
      OBVIOUS
    <3>1. s \notin Txs[Tip]
      BY <1>1, <2>1, <2>3
    <3>2. s \in TxsOf(Parent[Tip]) /\ WellFormed(Parent[Tip])
      BY <1>4, <2>1, <3>1, SoundWellFormed
    <3>3. u \in TxsOf(Parent[Tip])
      BY <2>1, <3>2 DEF WellFormed
    <3> QED BY <1>1, <1>4, <3>3
  <2> QED BY <1>1, <1>2, <1>6, <2>3, <2>4
<1>7. CASE v.hashBlock[u] \notin Chain[Tip]
  <2>1. u \notin In
    BY <1>2, <1>4, <1>5, <1>7
  <2>2. u # t
    BY <1>3, <2>1
  <2> QED BY <1>1, <1>2, <1>5, <1>7, <2>1, <2>2 DEF Wrong
<1>8. CASE u \in Mine \ v.vfSpent /\ IndexOf(Tip)[u] \in Tx \ untold'
  BY <1>6, <1>8 DEF Wrong
<1>9. QED
  BY <1>7, <1>8 DEF Wrong, v

\* A block that the wallet has not heard of yet misleads nobody.
LEMMA AstrayConnects ==
    ASSUME ChainInv, WalletInv, NEW b \in Block, WalletConnectBlock(b),
           NEW u \in TxsOf(b) \ Txs[b],
           Wrong(mapWallet, b, IndexOf(b), Txs[b], u)
    PROVE  u \in TxsOf(Tip) /\ Wrong(mapWallet, Tip, IndexOf(Tip), {}, u)
<1>1. /\ Sound(b) /\ Parent[b] = Tip /\ b # Genesis
      /\ TxsOf(b) = Txs[b] \cup TxsOf(Tip) /\ TxsOf(b) \subseteq Tx
  BY ConnectsFacts
<1>2. /\ Chain[b] = {b} \cup Chain[Tip] /\ Sound(Tip)
      /\ ConnectTx(b, IndexOf(Tip)) = IndexOf(b)
  BY <1>1, ChainAssumption, SoundParent, ConnectIndex
<1>3. IndexOf(b)[u] = IF SpentIn(Txs[b], u) THEN SpenderIn(Txs[b], u) ELSE IndexOf(Tip)[u]
  BY <1>1, <1>2 DEF ConnectTx
<1>4. SpentIn(Txs[b], u) => SpenderIn(Txs[b], u) \in Txs[b]
  BY DEF SpentIn, SpenderIn
<1>5. QED
  BY <1>1, <1>2, <1>3, <1>4 DEF Wrong

\* The steps beside the scan.
LEMMA AstrayRuns ==
    ASSUME ChainInv, ChainInv', WalletInv, WalletInv', startup # "scan", WalletRuns,
           ~SecondaryFails, ~AbandonsBatch, ~(FixSpentCoins /\ BatchIsOpen),
           NEW t \in Astray'
    PROVE  t \in Astray
<1> DEFINE w == mapWallet
           v == mapWallet'
<1>0. /\ w \in WalletRecord /\ Placed(w) /\ Holds(w, TxsOf(Tip) \ untold)
      /\ Tip \in Block /\ Sound(Tip) /\ diskTx = IndexOf(diskBest)
      /\ ~BatchIsOpen => Tip = diskBest
  BY ViewIsTip DEF WalletInv
<1>1. vScan = {} /\ vScan' = {} /\ ToHear = untold /\ ToHear' = untold' /\ t \in Tx
  BY NoScan DEF Astray, ToHear
<1>2. Concerns(t) /\ t \in TxsOf(Tip') \ untold' /\ Wrong(v, Tip', IndexOf(Tip'), untold', t)
  <2>1. AstrayIsWrong'
    BY AstrayIs, PTL
  <2> QED BY <1>1, <2>1 DEF AstrayIsWrong
<1>3. SUFFICES t \in TxsOf(Tip) \ untold /\ Wrong(w, Tip, IndexOf(Tip), untold, t)
  BY <1>1, <1>2, AstrayIs DEF AstrayIsWrong
<1> HIDE DEF v
<1>4. CASE Quiet
  <2>1. v.hashBlock = w.hashBlock /\ w.vfSpent \subseteq v.vfSpent /\ Tip' = Tip /\ untold' = untold
    BY <1>4 DEF Quiet, Grows, v
  <2> QED BY <1>2, <2>1 DEF Wrong
<1>5. ASSUME NEW b \in Block, WalletConnectBlock(b)
      PROVE  t \in TxsOf(Tip) \ untold /\ Wrong(w, Tip, IndexOf(Tip), untold, t)
  <2>1. Tip' = b /\ untold = {} /\ untold' = Txs[b] /\ v = w
    BY <1>5, ConnectsFacts DEF v
  <2> QED BY <1>2, <1>5, <2>1, AstrayConnects
<1>10. ASSUME NEW u \in Tx, SyncWithWallets(u)
       PROVE  t \in TxsOf(Tip) \ untold /\ Wrong(w, Tip, IndexOf(Tip), untold, t)
  <2>1. Tip' = Tip
    BY <1>10, TellsFacts
  <2> QED BY <1>2, <1>10, <2>1, AstrayTells DEF v
<1>6. CASE Disconnects
  <2>1. /\ v = DisableTransactions(w, Tip) /\ Tip' = Parent[Tip] /\ Tip # Genesis
        /\ untold = {} /\ untold' = {}
    BY <1>6 DEF Disconnects, v
  <2>2. /\ v.hashBlock = w.hashBlock
        /\ \A u \in w.vfSpent \ v.vfSpent : \E s \in Txs[Tip] \cap Staking : u \in Spends[s]
    BY <1>0, <2>1, DisableIs
  <2>3. /\ TxsOf(Tip) = Txs[Tip] \cup TxsOf(Parent[Tip]) /\ Parent[Tip] \in Block
        /\ Chain[Tip] = {Tip} \cup Chain[Parent[Tip]]
        /\ Tip \notin Chain[Parent[Tip]]
    BY <1>0, <2>1, TxsOfStep, AboveParent
  <2>4. DisconnectTx(Tip, IndexOf(Tip)) = IndexOf(Parent[Tip])
    BY <1>0, <2>1, DisconnectIndex
  <2>5. t \in TxsOf(Parent[Tip]) /\ t \in TxsOf(Tip)
    BY <1>2, <2>1, <2>3
  <2>6. CASE v.hashBlock[t] \notin Chain[Tip']
    <3>1. w.hashBlock[t] # Tip
      <4> SUFFICES ASSUME w.hashBlock[t] = Tip PROVE FALSE
        OBVIOUS
      <4>1. t \in Txs[Tip]
        BY <1>0, <1>1, TreeAssumption DEF Placed
      <4>2. Txs[Tip] \cap TxsOf(Parent[Tip]) = {}
        BY <1>0, <2>1, SoundWellFormed DEF WellFormed
      <4> QED BY <2>5, <4>1, <4>2
    <3> QED BY <2>1, <2>2, <2>3, <2>5, <2>6, <3>1 DEF Wrong
  <2>7. CASE t \in Mine \ v.vfSpent /\ IndexOf(Tip')[t] \in Tx
    <3>1. IndexOf(Parent[Tip])[t] = IF t \in Txs[Tip] THEN Absent
                                    ELSE IF SpentIn(Txs[Tip], t) THEN Unspent ELSE IndexOf(Tip)[t]
      BY <1>1, <2>4 DEF DisconnectTx
    <3>2. ~SpentIn(Txs[Tip], t) /\ IndexOf(Tip)[t] \in Tx
      BY <2>1, <2>7, <3>1, TxAssumption
    <3>3. t \notin w.vfSpent
      BY <2>2, <2>7, <3>2 DEF SpentIn
    <3> QED BY <2>1, <2>5, <2>7, <3>2, <3>3 DEF Wrong
  <2> QED BY <1>2, <2>1, <2>6, <2>7 DEF Wrong
<1>7. ~Abandons
  BY DEF Abandons
<1>8. CASE Repairs
  <2>1. /\ v.txs = w.txs /\ v.hashBlock = w.hashBlock
        /\ \A u \in w.txs \cap Mine :
               u \in v.vfSpent <=>
                   IF diskTx[u] = Absent THEN u \in w.vfSpent ELSE diskTx[u] # Unspent
    BY <1>0, <1>8, RepairIs DEF Repairs, v
  <2>2. Tip' = Tip /\ untold' = untold /\ diskTx = IndexOf(Tip)
    BY <1>0, <1>8 DEF Repairs
  <2>3. t \in w.txs
    BY <1>0, <1>2, <2>2 DEF Holds
  <2>4. t \in Mine \ v.vfSpent => IndexOf(Tip)[t] \notin Tx
    BY <2>1, <2>2, <2>3, TxAssumption
  <2> QED BY <1>2, <2>1, <2>2, <2>4 DEF Wrong
<1>9. QED
  BY <1>4, <1>5, <1>6, <1>7, <1>8, <1>10, Kinds

\* A scan marks again what it unmarks before it has passed the block that spends it.
LEMMA AstrayScan ==
    ASSUME ChainInv, WalletInv, WalletInv', ChainInv', NEW b \in Block, ScanBlock(b),
           NEW t \in Astray'
    PROVE  t \in Astray
<1> DEFINE w == mapWallet
           v == mapWallet'
           In == Involving(w, Txs[b])
           V  == UNION {Txs[c] : c \in vScan}
           V1 == UNION {Txs[c] : c \in vScan'}
<1>1. /\ v = SyncBlock(w, b) /\ vScan' = vScan \ {b} /\ b \in vScan /\ startup = "scan"
      /\ UNCHANGED <<diskBest, tip, pc, connecting, untold>>
  BY DEF ScanBlock, allVars, vars, diskVars, workVars
<1>0. /\ w \in WalletRecord /\ Holds(w, TxsOf(Tip)) /\ ScanInv
      /\ Tip \in Block /\ Sound(Tip) /\ diskBest \in Block
      /\ connecting = NoBlock /\ untold = {} /\ ToHear = V /\ ToHear' = V1
  <2>1. pc = "idle" /\ ScanInv
    BY <1>1 DEF WalletInv, ScanInv
  <2>2. connecting = NoBlock /\ untold = {}
    BY <2>1, ViewIsTip DEF WalletInv
  <2>3. TxsOf(Tip) \ untold = TxsOf(Tip)
    BY <2>2
  <2> QED BY <1>1, <2>1, <2>2, <2>3, ViewIsTip DEF WalletInv, ToHear
<1>2. Tip' = Tip /\ Tip = diskBest /\ t \in Tx /\ b \in Chain[Tip] /\ Txs[b] \subseteq TxsOf(Tip)
  <2>1. Tip' = Tip /\ t \in Tx
    BY <1>1 DEF Tip, Astray
  <2>2. Tip = diskBest
    BY <1>0, <1>1 DEF ScanInv, Tip
  <2>3. b \in Chain[Tip]
    BY <1>0, <1>1, <2>2, BlocksToScanClosed DEF ScanInv
  <2> QED BY <2>1, <2>2, <2>3 DEF TxsOf
<1>3. Concerns(t) /\ t \in TxsOf(Tip) /\ Wrong(v, Tip, IndexOf(Tip), V1, t)
  <2>1. AstrayIsWrong'
    BY AstrayIs, PTL
  <2> QED BY <1>0, <1>1, <1>2, <2>1 DEF AstrayIsWrong
<1>4. SUFFICES Wrong(w, Tip, IndexOf(Tip), V, t)
  BY <1>0, <1>2, <1>3, AstrayIs DEF AstrayIsWrong
<1>5. /\ In \subseteq Txs[b]
      /\ v.txs = w.txs \cup In
      /\ \A u \in Tx : v.hashBlock[u] = IF u \in In THEN b ELSE w.hashBlock[u]
      /\ v.vfSpent = (w.vfSpent \ (In \cap Mine))
                         \cup UNION {Spends[u] \cap v.txs \cap Mine : u \in In}
  <2> DEFINE x == AddToWalletIfInvolvingMe(w, Txs[b], b)
  <2>1. b \in Block /\ Txs[b] \subseteq Tx
    BY <1>0, <1>2, TreeAssumption, TxAssumption, ChainAncestry DEF TxsOf, Ancestry
  <2>2. /\ x.txs = w.txs \cup In /\ In \subseteq Txs[b]
        /\ \A u \in Tx : x.hashBlock[u] = IF u \in In THEN b ELSE w.hashBlock[u]
        /\ x.vfSpent = (w.vfSpent \ (In \cap Mine))
                           \cup UNION {Spends[u] \cap x.txs \cap Mine : u \in In}
    BY <1>0, <2>1, SyncIs
  <2>3. v = x
    BY <1>0, <1>1, <2>1, WholeBlock
  <2> HIDE DEF v, x
  <2> QED BY <2>2, <2>3
<1>6. \A s \in Txs[b] : Concerns(s) => s \in In
  BY <1>0, <1>2 DEF Involving, Holds
<1> HIDE DEF v, In
<1>7. CASE v.hashBlock[t] \notin Chain[Tip]
  BY <1>2, <1>5, <1>7 DEF Wrong
<1>8. CASE t \in Mine \ v.vfSpent /\ IndexOf(Tip)[t] \in Tx \ V1
  <2> DEFINE s == IndexOf(Tip)[t]
  <2>1. s \in TxsOf(Tip) /\ t \in Spends[s] /\ s \in Tx
    BY <1>0, <1>2, <1>3, <1>8, IndexOfIs, TxAssumption
  <2> HIDE DEF s
  <2>2. PICK c \in Chain[Tip] : s \in Txs[c]
    BY <2>1 DEF TxsOf
  <2>3. s \notin Txs[b]
    <3> SUFFICES ASSUME s \in Txs[b] PROVE FALSE
      OBVIOUS
    <3>1. s \in In
      BY <1>6, <1>8, <2>1 DEF Concerns
    <3>2. t \in v.txs
      BY <1>0, <1>3, <1>5 DEF Holds
    <3> QED BY <1>5, <1>8, <2>1, <3>1, <3>2
  <2>4. c \notin vScan
    BY <1>1, <1>8, <2>2, <2>3 DEF s
  <2>5. t \notin Txs[b]
    <3> SUFFICES ASSUME t \in Txs[b] PROVE FALSE
      OBVIOUS
    <3>1. b \in Chain[c]
      BY <1>0, <1>2, <2>1, <2>2, SpenderAbove
    <3> QED BY <1>0, <1>1, <1>2, <2>2, <2>4, <3>1 DEF ScanInv
  <2>6. t \notin w.vfSpent
    BY <1>5, <1>8, <2>5
  <2>7. s \notin V
    BY <1>1, <1>8, <2>3 DEF s
  <2> QED BY <1>8, <2>6, <2>7 DEF Wrong, s
<1>9. QED
  BY <1>3, <1>7, <1>8 DEF Wrong

LEMMA AstrayStep ==
    ASSUME ChainInv, ChainInv', WalletInv, WalletInv', [WalletNext]_everything,
           ~SecondaryFails \/ UNCHANGED vars
    PROVE  \/ Astray' \subseteq Astray
           \/ AbandonsBatch
           \/ FixSpentCoins /\ BatchIsOpen
<1>1. CASE startup # "scan" /\ WalletRuns
  <2>1. CASE ~SecondaryFails
    BY <1>1, <2>1, AstrayRuns
  <2>2. CASE SecondaryFails
    <3>1. pc = "secondary" /\ pc' = "idle"
      BY <2>2 DEF SecondaryFails, Finish
    <3> QED BY <2>2, <3>1 DEF vars
  <2> QED BY <2>1, <2>2
<1>2. CASE \E b \in Block : ScanBlock(b)
  BY <1>2, AstrayScan
<1>3. CASE FillSnapshot \/ UNCHANGED everything
  <2>1. UNCHANGED <<viewTx, diskBest, tip, pc, mapWallet, vScan, connecting, untold>>
    BY <1>3 DEF FillSnapshot, everything, allVars, vars, diskVars, workVars, walletVars
  <2> QED BY <2>1 DEF Astray, Tip, View, ToHear
<1>4. CASE WalletRestart
  <2>1. /\ UNCHANGED <<mapWallet, diskBest>> /\ pc' = "idle" /\ vScan' = BlocksToScan
        /\ connecting' = NoBlock /\ untold' = {}
    BY <1>4 DEF WalletRestart, PoolRestart, Restart, TxnAbort, Finish, diskVars
  <2>2. CASE pc = "reorganize"
    BY <2>1, <2>2 DEF AbandonsBatch
  <2>3. CASE pc # "reorganize"
    <3>1. Tip' = diskBest /\ Under = diskBest /\ diskBest \in Block
      BY <2>1, <2>3, ViewIsTip DEF Tip, WalletInv
    <3>2. UNION {Txs[b] : b \in vScan} \subseteq ToHear'
      BY <2>1 DEF WalletInv, ScanInv, ToHear
    <3> SUFFICES ASSUME NEW t \in Astray' PROVE t \in Astray
      OBVIOUS
    <3>3. t \in Tx /\ Concerns(t) /\ t \in TxsOf(diskBest)
          /\ Wrong(mapWallet, diskBest, IndexOf(diskBest), ToHear', t)
      <4>1. AstrayIsWrong'
        BY AstrayIs, PTL
      <4>2. t \in Tx
        BY DEF Astray
      <4> QED BY <2>1, <3>1, <4>1, <4>2 DEF AstrayIsWrong
    <3> HIDE DEF ToHear
    <3>4. CASE connecting = NoBlock
      <4>1. Tip = diskBest /\ untold = {}
        BY <3>1, <3>4, ViewIsTip DEF WalletInv
      <4>2. ToHear \subseteq ToHear'
        BY <3>2, <4>1 DEF ToHear
      <4> QED BY <3>3, <4>1, <4>2, AstrayIs DEF AstrayIsWrong, Wrong
    \* The block that was being told of is taken back: nothing below it knew of it.
    <3>5. CASE connecting # NoBlock
      <4>1. /\ Tip \in Block /\ Sound(Tip) /\ Tip # Genesis /\ Parent[Tip] = diskBest
            /\ untold \subseteq Txs[Tip] /\ pc # "idle"
        BY <3>1, <3>5, ViewIsTip DEF WalletInv, ConnectingInv
      <4>2. /\ TxsOf(Tip) = Txs[Tip] \cup TxsOf(diskBest) /\ WellFormed(Tip)
            /\ Txs[Tip] \cap TxsOf(diskBest) = {}
        BY <4>1, TxsOfStep, SoundWellFormed DEF WellFormed
      <4>3. t \in TxsOf(Tip) \ untold
        BY <3>3, <4>1, <4>2
      <4>4. ToHear = untold
        BY <4>1 DEF WalletInv, ScanInv, ToHear
      <4>5. CASE mapWallet.hashBlock[t] \notin Chain[diskBest]
        <5>1. mapWallet.hashBlock[t] # Tip
          <6> SUFFICES ASSUME mapWallet.hashBlock[t] = Tip PROVE FALSE
            OBVIOUS
          <6>1. t \in Txs[Tip]
            BY <3>3, <4>1, TreeAssumption DEF WalletInv, Placed
          <6> QED BY <3>3, <4>2, <6>1
        <5>2. Chain[Tip] = {Tip} \cup Chain[diskBest]
          BY <4>1, ChainAssumption
        <5> QED BY <3>3, <4>3, <4>5, <5>1, <5>2, AstrayIs DEF AstrayIsWrong, Wrong
      <4>6. CASE t \in Mine \ mapWallet.vfSpent /\ IndexOf(diskBest)[t] \in Tx
        <5> DEFINE s == IndexOf(diskBest)[t]
        <5>1. s \in TxsOf(diskBest) /\ t \in Spends[s]
          BY <3>1, <3>3, <4>6, IndexOfIs, TxAssumption
        <5>2. s \notin Txs[Tip]
          BY <4>2, <5>1
        <5>3. /\ ConnectTx(Tip, IndexOf(diskBest)) = IndexOf(Tip)
          BY <4>1, SoundParent, ConnectIndex
        <5>4. ~SpentIn(Txs[Tip], t)
          BY <4>2, <5>1, <5>2 DEF SpentIn, WellFormed
        <5>5. IndexOf(Tip)[t] = s
          BY <3>3, <4>2, <5>3, <5>4 DEF ConnectTx
        <5> QED BY <3>3, <4>1, <4>3, <4>4, <4>6, <5>2, <5>5, AstrayIs DEF AstrayIsWrong, Wrong
      <4> QED BY <3>3, <4>5, <4>6 DEF Wrong
    <3> QED BY <3>4, <3>5
  <2> QED BY <2>2, <2>3
<1>5. QED
  BY <1>1, <1>2, <1>3, <1>4 DEF WalletNext

\* The invariants of the chain and of the wallet, while no further block fails.
LEMMA WalletAgreement ==
    WalletSpec /\ FurtherBlocksConnect => [](ChainInv /\ WalletInv)
<1>1. WalletInit => ChainInv /\ WalletInv
  BY WalletInvInit, ChainInit DEF WalletInit, PoolInit
<1>2. ChainInv /\ WalletInv /\ [WalletNext]_everything /\ [~SecondaryFails]_vars
        => (ChainInv /\ WalletInv)'
  <2> SUFFICES ASSUME ChainInv, WalletInv, [WalletNext]_everything, [~SecondaryFails]_vars
               PROVE  ChainInv' /\ WalletInv'
    OBVIOUS
  <2>1. [Next]_vars
    BY WalletStepOfChain
  <2>2. ChainInv'
    BY <2>1, ChainStep, StutterStep
  <2> QED BY <2>2, WalletInvStep
<1>3. QED
  BY <1>1, <1>2, PTL DEF WalletSpec, FurtherBlocksConnect

\* Until a further block fails after a reorganisation, whatever crashes and blocks there
\* are: the record of the wallet departs from the chain that SetBestChain connects only
\* when a reorganisation is given up or cut off, or repairwallet runs while a batch is
\* open.
THEOREM WalletFollows == WalletSpec /\ FurtherBlocksConnect => OnlyAbandonedReorganizeMisleads
<1> DEFINE Inv == ChainInv /\ WalletInv
           A == \/ Astray' \subseteq Astray
                \/ AbandonsBatch
                \/ FixSpentCoins /\ BatchIsOpen
<1>1. Inv /\ Inv' /\ [WalletNext]_everything /\ [~SecondaryFails]_vars => [A]_everything
  BY AstrayStep
<1>2. WalletSpec /\ FurtherBlocksConnect => []Inv
  BY WalletAgreement
<1>3. QED
  BY <1>1, <1>2, PTL DEF WalletSpec, FurtherBlocksConnect, OnlyAbandonedReorganizeMisleads

-----------------------------------------------------------------------------
(* Coins are opened again.                                                 *)

LEMMA ReopenedStep ==
    ASSUME ChainInv, WalletInv, [WalletNext]_everything,
           ~SecondaryFails \/ UNCHANGED vars, NEW t, OpenIn(mapWallet', t)
    PROVE  \/ OpenIn(mapWallet, t)
           \/ t \notin mapWallet.txs
           \/ SyncWithWallets(t)
           \/ \E b \in Block : ScanBlock(b) /\ t \in Txs[b]
           \/ WalletReorganizeDisconnect /\ \E s \in Txs[tip] \cap Staking : t \in Spends[s]
           \/ FixSpentCoins /\ diskTx[t] = Unspent
<1> DEFINE w == mapWallet
           v == mapWallet'
<1>0. w \in WalletRecord /\ Tip \in Block /\ TypeOK
  BY ViewIsTip DEF WalletInv, ChainInv
<1>1. CASE UNCHANGED mapWallet
  BY <1>1
<1>2. CASE startup # "scan" /\ WalletRuns
  <2>0. ~SecondaryFails
    <3> SUFFICES ASSUME SecondaryFails PROVE FALSE
      OBVIOUS
    <3>1. pc = "secondary" /\ pc' = "idle"
      BY DEF SecondaryFails, Finish
    <3> QED BY <3>1 DEF vars
  <2>1. CASE Quiet
    <3>1. /\ w.txs \subseteq v.txs /\ w.vfSpent \subseteq v.vfSpent
          /\ \A s \in v.txs \ w.txs : Spends[s] \cap v.txs \cap Mine \subseteq v.vfSpent
      BY <2>1 DEF Quiet, Grows
    <3> HIDE DEF v
    <3>2. t \in v.txs \cap Mine /\ t \notin v.vfSpent /\ \E s \in v.txs \ Staking : t \in Spends[s]
      BY DEF OpenIn, v
    <3> QED BY <3>1, <3>2 DEF OpenIn
  <2>2. ASSUME NEW b \in Block, WalletConnectBlock(b) PROVE OpenIn(w, t)
    BY <1>1, <2>2, ConnectsFacts
  <2>6. ASSUME NEW u \in Tx, SyncWithWallets(u)
        PROVE  OpenIn(w, t) \/ t = u
    <3>1. v = AddToWalletIfInvolvingMe(w, {u}, Tip) /\ {u} \in SUBSET Txs[Tip]
      BY <2>6, TellsFacts
    <3> QED BY <1>0, <3>1, SyncOpens
  <2>3. CASE Disconnects
    <3>1. v = DisableTransactions(w, tip) /\ tip \in Block /\ WalletReorganizeDisconnect
      BY <1>0, <2>3 DEF Disconnects, TypeOK
    <3>2. /\ v.txs = w.txs
          /\ \A u \in w.vfSpent \ v.vfSpent : \E s \in Txs[tip] \cap Staking : u \in Spends[s]
      BY <1>0, <3>1, DisableIs
    <3> HIDE DEF v
    <3>3. t \in v.txs \cap Mine /\ t \notin v.vfSpent /\ \E s \in v.txs \ Staking : t \in Spends[s]
      BY DEF OpenIn, v
    <3> QED BY <3>1, <3>2, <3>3 DEF OpenIn
  <2>4. CASE Abandons
    BY <1>1, <2>4 DEF Abandons
  <2>5. CASE Repairs
    <3>1. /\ v.txs = w.txs
          /\ \A u \in w.txs \cap Mine :
                 u \in v.vfSpent <=>
                     IF diskTx[u] = Absent THEN u \in w.vfSpent ELSE diskTx[u] # Unspent
      BY <1>0, <2>5, RepairIs DEF Repairs
    <3> HIDE DEF v
    <3>2. t \in v.txs \cap Mine /\ t \notin v.vfSpent /\ \E s \in v.txs \ Staking : t \in Spends[s]
      BY DEF OpenIn, v
    <3>3. OpenIn(w, t) \/ diskTx[t] = Unspent
      BY <3>1, <3>2 DEF OpenIn
    <3> QED BY <2>5, <3>3 DEF Repairs
  <2> QED BY <1>2, <2>0, <2>1, <2>2, <2>3, <2>4, <2>5, <2>6, Kinds
<1>3. ASSUME NEW b \in Block, ScanBlock(b) PROVE OpenIn(w, t) \/ t \in Txs[b]
  <2>1. v = AddToWalletIfInvolvingMe(w, Txs[b], b) /\ Txs[b] \in SUBSET Txs[b]
    BY <1>3, WholeBlock DEF ScanBlock
  <2> QED BY <1>0, <2>1, SyncOpens
<1>4. CASE FillSnapshot \/ WalletRestart \/ UNCHANGED everything
  BY <1>1, <1>4 DEF FillSnapshot, WalletRestart, everything, walletVars
<1>5. QED
  BY <1>2, <1>3, <1>4 DEF WalletNext

\* Under the same assumption: a coin that a transaction of the wallet spends is not
\* offered again, unless its block is connected or scanned anew, a coinstake that spends
\* it is disconnected, or repairwallet finds it unspent on disk.
THEOREM SpentStaysMarked == WalletSpec /\ FurtherBlocksConnect => OnlyConfirmationReopens
<1> DEFINE Inv == ChainInv /\ WalletInv
           A == \A t \in Reopened' \ Reopened :
                    \/ t \notin mapWallet.txs
                    \/ SyncWithWallets(t)
                    \/ \E b \in Block : ScanBlock(b) /\ t \in Txs[b]
                    \/ WalletReorganizeDisconnect /\ \E s \in Txs[tip] \cap Staking : t \in Spends[s]
                    \/ FixSpentCoins /\ diskTx[t] = Unspent
<1>1. Inv /\ Inv' /\ [WalletNext]_everything /\ [~SecondaryFails]_vars => [A]_everything
  <2> SUFFICES ASSUME Inv, Inv', [WalletNext]_everything, [~SecondaryFails]_vars,
                      NEW t \in Reopened' \ Reopened
               PROVE  \/ t \notin mapWallet.txs
                      \/ SyncWithWallets(t)
                      \/ \E b \in Block : ScanBlock(b) /\ t \in Txs[b]
                      \/ WalletReorganizeDisconnect /\ \E s \in Txs[tip] \cap Staking : t \in Spends[s]
                      \/ FixSpentCoins /\ diskTx[t] = Unspent
    OBVIOUS
  <2>1. OpenIn(mapWallet', t) /\ ~OpenIn(mapWallet, t)
    BY DEF Reopened, OpenIn
  <2> QED BY <2>1, ReopenedStep
<1>2. WalletSpec /\ FurtherBlocksConnect => []Inv
  BY WalletAgreement
<1>3. QED
  BY <1>1, <1>2, PTL DEF WalletSpec, FurtherBlocksConnect, OnlyConfirmationReopens

-----------------------------------------------------------------------------
(* The confirmed balance.                                                  *)

\* The wallet's unspent outputs in the chain of b, and its outputs that S spends.
UnspentMine(b) == {t \in Mine : IndexOf(b)[t] = Unspent}
SpentMine(S)   == {i \in Mine : SpentIn(S, i)}

LEMMA OrderFacts == HashOrder \in Seq(Tx) /\ Value \in [Tx -> Int] /\ Enumerates(HashOrder, Tx)
  BY WalletAssumption DEF Enumerates

LEMMA SumOfInt ==
    ASSUME NEW S
    PROVE  SumOf(S) \in Int
  BY OrderFacts, SumInt DEF SumOf

LEMMA SumOfUnion ==
    ASSUME NEW S, NEW T, S \cap T = {}
    PROVE  SumOf(S \cup T) = SumOf(S) + SumOf(T)
  BY OrderFacts, SumUnion DEF SumOf

LEMMA SntInt ==
    ASSUME NEW w, NEW S
    PROVE  Snt(w, S) \in Int
<1> DEFINE v == [t \in Tx |-> SumOf(OwnInputs(w, t))]
<1>1. v \in [Tx -> Int]
  BY SumOfInt
<1>2. Snt(w, S) = SumAlong(HashOrder, v, S)
  BY DEF Snt
<1> HIDE DEF v
<1>3. QED
  BY <1>1, <1>2, OrderFacts, SumInt

\* Transactions that do not spend the same: what they take from the wallet.
LEMMA SntIs ==
    ASSUME NEW w, NEW S \in SUBSET Tx,
           \A s, r \in S : s # r => Spends[s] \cap Spends[r] = {}
    PROVE  Snt(w, S) = SumOf(SpentMine(S) \cap w.txs)
<1> DEFINE own == [t \in Tx |-> OwnInputs(w, t)]
<1>1. own \in [Tx -> SUBSET Tx] /\ \A t \in Tx : own[t] = Spends[t] \cap w.txs \cap Mine
  BY TxAssumption DEF OwnInputs
<1>2. UNION {own[t] : t \in S} = SpentMine(S) \cap w.txs
  <2> HIDE DEF own
  <2> QED BY <1>1 DEF SpentMine, SpentIn
<1>3. [t \in Tx |-> SumAlong(HashOrder, Value, own[t])] = [t \in Tx |-> SumOf(OwnInputs(w, t))]
  BY DEF SumOf
<1>4. Value \in [Tx -> Int] /\ Enumerates(HashOrder, Tx)
  BY WalletAssumption
<1>5. \A s, r \in S : s # r => own[s] \cap own[r] = {}
  BY <1>1
<1> HIDE DEF own
<1>6. SumAlong(HashOrder, [t \in Tx |-> SumAlong(HashOrder, Value, own[t])], S)
        = SumAlong(HashOrder, Value, UNION {own[t] : t \in S})
  BY <1>1, <1>4, <1>5, SumOfSums
<1>7. QED
  BY <1>2, <1>3, <1>6 DEF Snt, SumOf

\* On a valid branch: what came in less what went out.
LEMMA ChainBalance ==
    ASSUME NEW b \in Block, Sound(b)
    PROVE  SumOf(UnspentMine(b)) = SumOf(TxsOf(b) \cap Mine) - SumOf(SpentMine(TxsOf(b)))
<1> DEFINE S == TxsOf(b)
<1>1. WellFormed(b) /\ Mine \subseteq Tx
  BY SoundWellFormed, WalletAssumption
<1>2. \A t \in Mine : IndexOf(b)[t] = Unspent <=> t \in S /\ ~SpentIn(S, t)
  BY <1>1, IndexOfIs, TxAssumption
<1>3. SpentMine(S) \subseteq S
  BY <1>1 DEF WellFormed, SpentMine, SpentIn
<1>4. S \cap Mine = UnspentMine(b) \cup SpentMine(S) /\ UnspentMine(b) \cap SpentMine(S) = {}
  BY <1>2, <1>3 DEF UnspentMine, SpentMine
<1> HIDE DEF S
<1>5. SumOf(S \cap Mine) = SumOf(UnspentMine(b)) + SumOf(SpentMine(S))
  BY <1>4, SumOfUnion
<1>6. SumOf(UnspentMine(b)) \in Int /\ SumOf(SpentMine(S)) \in Int
  BY SumOfInt
<1>7. QED
  BY <1>5, <1>6 DEF S

LEMMA BlockBalance ==
    ASSUME NEW b \in Block, b # Genesis, Sound(b)
    PROVE  SumOf(UnspentMine(b)) =
               SumOf(UnspentMine(Parent[b])) + Rcvd(Txs[b]) - SumOf(SpentMine(Txs[b]))
<1> DEFINE p == Parent[b]
<1>1. /\ p \in Block /\ Sound(p) /\ TxsOf(b) = Txs[b] \cup TxsOf(p) /\ WellFormed(b)
      /\ Txs[b] \cap TxsOf(p) = {}
  BY SoundParent, SoundWellFormed, TxsOfStep DEF WellFormed
<1>2. /\ TxsOf(b) \cap Mine = (Txs[b] \cap Mine) \cup (TxsOf(p) \cap Mine)
      /\ (Txs[b] \cap Mine) \cap (TxsOf(p) \cap Mine) = {}
  BY <1>1
<1>3. SumOf(TxsOf(b) \cap Mine) = Rcvd(Txs[b]) + SumOf(TxsOf(p) \cap Mine)
  BY <1>2, SumOfUnion DEF Rcvd
<1>4. /\ SpentMine(TxsOf(b)) = SpentMine(Txs[b]) \cup SpentMine(TxsOf(p))
      /\ SpentMine(Txs[b]) \cap SpentMine(TxsOf(p)) = {}
  BY <1>1 DEF SpentMine, SpentIn, WellFormed
<1>5. SumOf(SpentMine(TxsOf(b))) = SumOf(SpentMine(Txs[b])) + SumOf(SpentMine(TxsOf(p)))
  BY <1>4, SumOfUnion
<1>6. /\ SumOf(UnspentMine(b)) = SumOf(TxsOf(b) \cap Mine) - SumOf(SpentMine(TxsOf(b)))
      /\ SumOf(UnspentMine(p)) = SumOf(TxsOf(p) \cap Mine) - SumOf(SpentMine(TxsOf(p)))
  BY <1>1, ChainBalance
<1>7. /\ SumOf(TxsOf(p) \cap Mine) \in Int /\ SumOf(SpentMine(TxsOf(p))) \in Int
      /\ Rcvd(Txs[b]) \in Int /\ SumOf(SpentMine(Txs[b])) \in Int
  BY SumOfInt DEF Rcvd
<1> HIDE DEF p
<1>8. QED
  BY <1>3, <1>5, <1>6, <1>7 DEF p

LEMMA ConnectChangeIs ==
    ASSUME NEW w, NEW b \in Block, b # Genesis, Sound(b), SpentMine(Txs[b]) \subseteq w.txs
    PROVE  ConnectChange(w, b).confirmed =
               SumOf(UnspentMine(b)) - SumOf(UnspentMine(Parent[b]))
<1>1. /\ Txs[b] \in SUBSET Tx /\ TxsOf(b) = Txs[b] \cup TxsOf(Parent[b]) /\ WellFormed(b)
  BY TxAssumption, TxsOfStep, SoundWellFormed
<1>2. SpentMine(Txs[b]) \cap w.txs = SpentMine(Txs[b])
  OBVIOUS
<1>3. Snt(w, Txs[b]) = SumOf(SpentMine(Txs[b]))
  BY <1>1, <1>2, SntIs DEF WellFormed
<1>4. ConnectChange(w, b).confirmed = Rcvd(Txs[b]) - Snt(w, Txs[b])
  BY DEF ConnectChange
<1>5. /\ SumOf(UnspentMine(Parent[b])) \in Int /\ Rcvd(Txs[b]) \in Int
      /\ SumOf(SpentMine(Txs[b])) \in Int
  BY SumOfInt DEF Rcvd
<1>6. QED
  BY <1>3, <1>4, <1>5, BlockBalance

\* What the wallet counts when nothing is astray.
LEMMA SnapshotIs ==
    ASSUME ChainInv, WalletInv, Astray = {}, pc = "idle", vScan = {}
    PROVE  GetSnapshot(mapWallet).confirmed = SumOf(UnspentMine(Tip))
<1> DEFINE w == mapWallet
           S == TxsOf(Tip)
           counted == {t \in w.txs : GetDepthInMainChain(w, t) >= 0}
           deep == {t \in counted : GetDepthInMainChain(w, t) >= 1}
<1>1. /\ w \in WalletRecord /\ Placed(w) /\ Holds(w, S)
      /\ Tip \in Block /\ Sound(Tip) /\ pindexBest = Tip /\ pnext = NextOf(Tip)
      /\ WellFormed(Tip) /\ S \subseteq Tx /\ S \ untold = S
  <2>1. Tip \in Block /\ Sound(Tip) /\ Tip = diskBest /\ untold = {} /\ ToHear = {}
    BY ViewIsTip DEF WalletInv, BatchIsOpen, ToHear
  <2>3. TxsOf(Tip) \ untold = TxsOf(Tip)
    BY <2>1
  <2>2. TxsOf(Tip) \subseteq Tx
    BY <2>1, TxAssumption, ChainAssumption DEF TxsOf
  <2> QED BY <2>1, <2>2, <2>3, SoundWellFormed DEF WalletInv, ChainInv, RecordsInv
<1>2. ASSUME NEW b \in Block \cup {NoBlock} PROVE IsInMainChain(b) <=> b \in Chain[Tip]
  <2>1. b \in Chain[Tip] => b # NoBlock
    BY <1>1, ChainAssumption, TreeAssumption
  <2>2. CASE b \in Chain[Tip]
    <3>1. b = Tip \/ \E x \in Chain[Tip] : Parent[x] = b
      BY <1>1, <2>2, StepExists
    <3>2. ASSUME NEW x \in Chain[Tip], Parent[x] = b PROVE pnext[b] # NoBlock
      <4>1. x # Genesis /\ x \in Block
        BY <1>1, <2>1, <2>2, <3>2, TreeAssumption, ChainAssumption
      <4> QED BY <1>1, <3>2, <4>1, NextOfParent, TreeAssumption
    <3> QED BY <1>1, <2>1, <2>2, <3>1, <3>2 DEF IsInMainChain
  <2>3. CASE b \notin Chain[Tip]
    <3>1. b # Tip
      BY <1>1, <2>3, ChainAncestry DEF Ancestry
    <3>2. b \in Block => ~\E x \in Chain[Tip] : Parent[x] = b
      <4> SUFFICES ASSUME b \in Block, NEW x \in Chain[Tip], Parent[x] = b PROVE FALSE
        OBVIOUS
      <4>1. x # Genesis
        BY TreeAssumption
      <4> QED BY <1>1, <2>3, <4>1, ParentInChain
    <3>3. b \in Block => pnext[b] = NoBlock
      BY <1>1, <3>2 DEF NextOf
    <3> QED BY <1>1, <2>3, <3>1, <3>3 DEF IsInMainChain
  <2> QED BY <2>2, <2>3
<1>3. ASSUME NEW t \in Tx PROVE GetDepthInMainChain(w, t) >= 1 <=> w.hashBlock[t] \in Chain[Tip]
  <2> DEFINE b == w.hashBlock[t]
             n == IF IsInMainChain(b) THEN Height[pindexBest] - Height[b] + 1 ELSE 0
  <2>1. b \in Block \cup {NoBlock}
    BY <1>1 DEF WalletRecord
  <2>2. GetDepthInMainChain(w, t) = IF n = 0 /\ t \notin mapTx THEN -1 ELSE n
    BY DEF GetDepthInMainChain
  <2> HIDE DEF b
  <2>3. CASE b \in Chain[Tip]
    <3>1. /\ Height[Tip] \in Nat /\ Height[b] \in Nat /\ Height[b] <= Height[Tip]
      BY <1>1, <2>3, ChainAncestry, TreeAssumption, ChainAssumption DEF Ancestry
    <3>2. n = Height[Tip] - Height[b] + 1
      BY <1>1, <1>2, <2>1, <2>3
    <3> HIDE DEF n
    <3> QED BY <2>2, <2>3, <3>1, <3>2 DEF b
  <2>4. CASE b \notin Chain[Tip]
    <3>1. n = 0
      BY <1>2, <2>1, <2>4
    <3> HIDE DEF n
    <3> QED BY <2>2, <2>4, <3>1 DEF b
  <2> QED BY <2>3, <2>4
<1>4. w.txs \subseteq Tx
  BY <1>1 DEF WalletRecord
<1>5. ASSUME NEW t \in Tx, GetDepthInMainChain(w, t) >= 1 PROVE GetDepthInMainChain(w, t) >= 0
  <2>1. GetDepthInMainChain(w, t) \in Int
    <3>1. w.hashBlock[t] \in Chain[Tip] /\ w.hashBlock[t] \in Block
      BY <1>1, <1>3, <1>5, ChainAssumption
    <3>2. Height[pindexBest] \in Int /\ Height[w.hashBlock[t]] \in Int
      BY <1>1, <3>1, TreeAssumption
    <3> QED BY <3>2 DEF GetDepthInMainChain
  <2> HIDE DEF w
  <2> QED BY <1>5, <2>1
<1>6. deep = {t \in w.txs : w.hashBlock[t] \in Chain[Tip]}
  BY <1>3, <1>4, <1>5
<1>7. GetSnapshot(mapWallet).confirmed = Rcvd(deep) - Snt(w, deep)
  BY DEF GetSnapshot
<1> HIDE DEF w, S, deep
<1>8. deep \subseteq S
  <2> SUFFICES ASSUME NEW t \in deep PROVE t \in S
    OBVIOUS
  <2>1. t \in Tx /\ w.hashBlock[t] \in Chain[Tip] /\ w.hashBlock[t] # NoBlock
    BY <1>1, <1>4, <1>6, ChainAssumption, TreeAssumption
  <2> QED BY <1>1, <2>1 DEF Placed, TxsOf, S
<1>9. \A t \in S : Concerns(t) => t \in deep
  <2> SUFFICES ASSUME NEW t \in S, Concerns(t) PROVE t \in deep
    OBVIOUS
  <2>1. t \in w.txs /\ t \in Tx
    BY <1>1 DEF Holds
  <2>2. ~Wrong(w, Tip, IndexOf(Tip), ToHear, t)
    BY <1>1, <2>1, AstrayIs DEF AstrayIsWrong, S, w
  <2> QED BY <1>6, <2>1, <2>2 DEF Wrong
<1>10. deep \cap Mine = S \cap Mine
  BY <1>8, <1>9 DEF Concerns
<1>11. SpentMine(deep) \cap w.txs = SpentMine(S)
  <2>1. SpentMine(S) \subseteq w.txs
    BY <1>1 DEF SpentMine, SpentIn, Holds, Concerns, WellFormed, S
  <2>2. SpentMine(deep) = SpentMine(S)
    BY <1>8, <1>9 DEF SpentMine, SpentIn, Concerns
  <2> QED BY <2>1, <2>2
<1>12. Snt(w, deep) = SumOf(SpentMine(S))
  <2>1. deep \in SUBSET Tx /\ \A s, r \in deep : s # r => Spends[s] \cap Spends[r] = {}
    BY <1>1, <1>8 DEF WellFormed, S
  <2> QED BY <1>11, <2>1, SntIs
<1>13. QED
  BY <1>1, <1>7, <1>10, <1>12, ChainBalance DEF Rcvd, S

\* The amounts are numbers, and nothing is added up before SetBestChain needs it.
MoneyInv ==
    /\ balance.confirmed \in Int
    /\ changes.confirmed \in Int
    /\ snapshot.confirmed \in Int
    /\ pc \in {"idle", "setbest"} /\ connecting = NoBlock => changes.confirmed = 0

LEMMA PlusConfirmed ==
    ASSUME NEW x, NEW y
    PROVE  /\ Plus(x, y).confirmed = x.confirmed + y.confirmed
           /\ Minus(x, y).confirmed = x.confirmed - y.confirmed
<1>1. "confirmed" \in DOMAIN Zero
  BY DEF Zero
<1>2. QED
  BY <1>1 DEF Plus, Minus

LEMMA PlusBoth ==
    ASSUME NEW x, NEW y, NEW z, x.confirmed \in Int, y.confirmed \in Int, z.confirmed = 0
    PROVE  /\ Plus(x, Plus(y, z)).confirmed = x.confirmed + y.confirmed
           /\ Plus(x, Plus(y, z)).confirmed \in Int
<1>1. Plus(x, Plus(y, z)).confirmed = x.confirmed + Plus(y, z).confirmed
  BY PlusConfirmed
<1>2. Plus(y, z).confirmed = y.confirmed + z.confirmed
  BY PlusConfirmed
<1>3. QED
  BY <1>1, <1>2

LEMMA ChangesConfirmed ==
    ASSUME NEW w, NEW b, NEW S, NEW t
    PROVE  /\ Zero.confirmed = 0 /\ NoSnapshot.confirmed \in Int
           /\ ConnectChange(w, b).confirmed \in Int
           /\ ConfirmChange(w, S).confirmed = 0
           /\ Unconfirmed(w, t).confirmed = 0
           /\ GetSnapshot(w).confirmed \in Int
<1>1. ConnectChange(w, b).confirmed = Rcvd(Txs[b]) - Snt(w, Txs[b])
  BY DEF ConnectChange
<1>2. \A U : Rcvd(U) \in Int /\ Snt(w, U) \in Int
  BY SumOfInt, SntInt DEF Rcvd
<1>3. GetSnapshot(w).confirmed \in Int
  <2> DEFINE counted == {u \in w.txs : GetDepthInMainChain(w, u) >= 0}
             deep == {u \in counted : GetDepthInMainChain(w, u) >= 1}
  <2>1. GetSnapshot(w).confirmed = Rcvd(deep) - Snt(w, deep)
    BY DEF GetSnapshot
  <2> HIDE DEF deep
  <2> QED BY <1>2, <2>1
<1>4. ConfirmChange(w, S).confirmed = 0 /\ Unconfirmed(w, t).confirmed = 0
  BY DEF ConfirmChange, Unconfirmed, Pending
<1>5. Zero.confirmed = 0 /\ NoSnapshot.confirmed \in Int
  BY DEF Zero, NoSnapshot
<1>6. QED
  BY <1>1, <1>2, <1>3, <1>4, <1>5

LEMMA MoneyStep ==
    ASSUME ChainInv, MoneyInv, [WalletNext]_everything
    PROVE  MoneyInv'
<1> USE PlusConfirmed, ChangesConfirmed DEF MoneyInv
<1>1. CASE WalletRuns
  <2>1. CASE WalletUnchangedStep
    <3>1. UNCHANGED <<balance, changes, snapshot>> /\ connecting = NoBlock
      BY <2>1 DEF WalletUnchangedStep, walletVars, NoneConnected
    <3>2. pc' \in {"idle", "setbest"} => pc \in {"idle", "setbest"}
      BY <2>1 DEF WalletUnchangedStep, AddToBlockIndex, ExtendFails, BeginReorganize
    <3> QED BY <3>1, <3>2
  <2>2. CASE WalletExtendBest
    <3>1. UNCHANGED snapshot /\ changes' = Zero
      BY <2>2 DEF WalletExtendBest, idleVars
    <3>2. \/ balance' = balance
          \/ balance' = Plus(balance, Plus(changes, ConfirmChange(mapWallet, Txs[pindexNew])))
      BY <2>2 DEF WalletExtendBest
    <3>3. balance'.confirmed \in Int
      BY <3>2, PlusBoth
    <3> QED BY <3>1, <3>3
  <2>3. CASE WalletReorganizeDisconnect
    <3>1. /\ UNCHANGED <<balance, snapshot, pc>> /\ pc = "reorganize"
          /\ changes' = Minus(changes, ConnectChange(mapWallet, tip))
      BY <2>3 DEF WalletReorganizeDisconnect, ReorganizeDisconnect, idleVars
    <3> QED BY <3>1
  <2>4. CASE WalletReorganizeConnect
    BY <2>4 DEF WalletReorganizeConnect, PoolReorganizeConnect, ReorganizeConnect, idleVars
  <2>5. CASE WalletReorganizeFails \/ WalletSecondaryFails \/ WalletNewBestBlock
    <3>1. UNCHANGED <<balance, snapshot>> /\ changes' = Zero
      BY <2>5 DEF WalletReorganizeFails, WalletSecondaryFails, WalletNewBestBlock, idleVars
    <3> QED BY <3>1
  <2>6. CASE WalletReorganizeCommit
    <3> DEFINE S == UNION {Txs[b] : b \in vConnect}
    <3>1. UNCHANGED snapshot /\ changes' = Zero
      BY <2>6 DEF WalletReorganizeCommit, idleVars
    <3>2. \/ balance' = balance
          \/ balance' = Plus(balance, Plus(changes, ConfirmChange(mapWallet, S)))
      BY <2>6 DEF WalletReorganizeCommit
    <3> HIDE DEF S
    <3>3. balance'.confirmed \in Int
      BY <3>2, PlusBoth
    <3> QED BY <3>1, <3>3
  <2>7. CASE WalletSecondaryConnect
    <3> DEFINE z == ConfirmChange(mapWallet, Txs[tip'])
    <3>1. /\ UNCHANGED <<snapshot, pc>> /\ pc = "secondary"
          /\ changes' = Plus(changes, z) /\ balance' = Plus(balance, changes')
      BY <2>7 DEF WalletSecondaryConnect, PoolSecondaryConnect, SecondaryConnect, idleVars
    <3>2. z.confirmed = 0
      OBVIOUS
    <3> HIDE DEF z
    <3>3. changes'.confirmed \in Int
      BY <3>1, <3>2
    <3>4. balance'.confirmed \in Int
      BY <3>1, <3>3
    <3> QED BY <3>1, <3>3, <3>4
  <2>13. ASSUME NEW b \in Block, WalletConnectBlock(b) PROVE MoneyInv'
    <3>1. /\ changes' = Plus(changes, ConnectChange(mapWallet, b)) /\ connecting' # NoBlock
          /\ UNCHANGED <<balance, snapshot>>
      BY <2>13, TreeAssumption DEF WalletConnectBlock, idleVars
    <3> QED BY <3>1
  <2>14. ASSUME NEW t \in Tx, SyncWithWallets(t) PROVE MoneyInv'
    BY <2>14 DEF SyncWithWallets, allVars, vars, idleVars
  <2>8. ASSUME NEW t \in Tx, WalletHearsOfTx(t) \/ CommitTransaction(t) PROVE MoneyInv'
    <3>1. UNCHANGED <<changes, snapshot, pc, connecting>>
      BY <2>8 DEF WalletHearsOfTx, CommitTransaction, ReceiveTx, SubmitTx, idleVars, vars
    <3>2. balance' = balance \/ balance' = Plus(balance, Unconfirmed(mapWallet', t))
      BY <2>8 DEF WalletHearsOfTx, CommitTransaction
    <3> QED BY <3>1, <3>2
  <2>9. CASE WalletMissesOrphans
    BY <2>9 DEF WalletMissesOrphans, ReceiveOrphanTx, ProcessOrphans, AcceptOrphan, RefuseOrphan,
                NextInQueue, EraseOrphans, walletVars, vars
  <2>10. CASE ReconcilerCounts
    BY <2>10 DEF ReconcilerCounts, allVars, vars
  <2>11. CASE ReconcilerStores
    BY <2>11 DEF ReconcilerStores, allVars, vars
  <2>12. CASE FixSpentCoins \/ ReacceptWalletTransactions
    BY <2>12 DEF FixSpentCoins, ReacceptWalletTransactions, allVars, vars, idleVars
  <2> QED BY <1>1, <2>1, <2>2, <2>3, <2>4, <2>5, <2>6, <2>7, <2>8, <2>9, <2>10, <2>11, <2>12,
             <2>13, <2>14
          DEF WalletRuns
<1>2. ASSUME NEW b \in Block, ScanBlock(b) PROVE MoneyInv'
  BY <1>2 DEF ScanBlock, allVars, vars
<1>3. CASE FillSnapshot
  BY <1>3 DEF FillSnapshot, allVars, vars
<1>4. CASE WalletRestart
  BY <1>4 DEF WalletRestart
<1>5. CASE UNCHANGED everything
  BY <1>5 DEF everything, walletVars, allVars, vars
<1>6. QED
  BY <1>1, <1>2, <1>3, <1>4, <1>5 DEF WalletNext

\* mapConfirmed with what the open batch has added up.
Total == balance.confirmed + (IF BatchIsOpen THEN changes.confirmed ELSE 0)

ErrorIsTotal ==
    ConfirmedError = IF startup = "scan" THEN 0 ELSE Total - SumOf(UnspentMine(Tip))

LEMMA ErrorIs ==
    ASSUME ChainInv, WalletInv, MoneyInv
    PROVE  ErrorIsTotal
<1> DEFINE U == {t \in Mine : View[t] = Unspent}
<1>1. U = UnspentMine(Tip)
  BY ViewIsTip DEF UnspentMine, WalletInv
<1>2. ConfirmedError = IF startup = "scan" THEN 0
                       ELSE balance.confirmed + ((IF BatchIsOpen THEN changes.confirmed
                                                 ELSE 0) - SumOf(U))
  BY DEF ConfirmedError
<1> HIDE DEF U
<1>3. QED
  BY <1>1, <1>2, SumOfInt DEF ErrorIsTotal, Total, MoneyInv

\* The steps that leave the chain where it is.
LEMMA TotalKept ==
    ASSUME ChainInv, WalletInv, MoneyInv, WalletRuns, ~SecondaryFails, ~AbandonsBatch
    PROVE  \/ Tip' = Tip /\ Total' = Total
           \/ \E b \in Block : WalletConnectBlock(b)
           \/ WalletReorganizeDisconnect \/ ReconcilerStores
<1> USE PlusConfirmed, ChangesConfirmed
<1>0. /\ pc # "secondary" => pindexBest = diskBest
      /\ pc = "secondary" => tip = diskBest
      /\ balance.confirmed \in Int /\ changes.confirmed \in Int
      /\ pc \in {"idle", "setbest"} /\ connecting = NoBlock => changes.confirmed = 0
      /\ pindexBest \in Block /\ pindexIntermediate \in Block
  BY DEF ChainInv, RecordsInv, MoneyInv, TypeOK
<1>1. ASSUME UNCHANGED <<vars, changes, connecting>>, balance'.confirmed = balance.confirmed
      PROVE  Tip' = Tip /\ Total' = Total
  BY <1>1 DEF vars, diskVars, workVars, Tip, Total, BatchIsOpen
<1>2. CASE WalletUnchangedStep
  <2>1. UNCHANGED <<balance, changes, connecting>> /\ connecting = NoBlock
    BY <1>2 DEF WalletUnchangedStep, walletVars, NoneConnected
  <2>2. ASSUME NEW b \in Block, AddToBlockIndex(b) PROVE Tip' = Tip /\ Total' = Total
    BY <2>1, <2>2 DEF AddToBlockIndex, Tip, Total, BatchIsOpen
  <2>3. CASE ExtendFails
    BY <2>1, <2>3 DEF ExtendFails, Finish, diskVars, Tip, Total, BatchIsOpen
  <2>4. CASE BeginReorganize
    BY <1>0, <2>1, <2>4 DEF BeginReorganize, diskVars, Tip, Total, BatchIsOpen
  <2> QED BY <1>2, <2>2, <2>3, <2>4 DEF WalletUnchangedStep
<1>3. ~WalletReorganizeFails
  BY DEF WalletReorganizeFails, ReorganizeFails, Finish, AbandonsBatch
<1>4. CASE WalletReorganizeCommit
  <2> DEFINE S == UNION {Txs[b] : b \in vConnect}
  <2>1. /\ pc = "reorganize" /\ tip = pindexIntermediate /\ diskBest' = pindexIntermediate
        /\ pc' # "reorganize" /\ connecting = NoBlock /\ UNCHANGED connecting
    BY <1>4 DEF WalletReorganizeCommit, PoolReorganizeCommit, ReorganizeCommit, Finish, NoneConnected
  <2>2. pnext = NextOf(pindexBest)
    BY <1>0, <2>1 DEF ChainInv, RecordsInv
  <2>3. ForkIsLinked
    BY <1>0, <2>2, ForkLinked
  <2>4. balance' = Plus(balance, Plus(changes, ConfirmChange(mapWallet, S)))
    BY <1>4, <2>3 DEF WalletReorganizeCommit
  <2> HIDE DEF S
  <2>5. balance'.confirmed = balance.confirmed + changes.confirmed
    BY <1>0, <2>4
  <2> QED BY <1>0, <2>1, <2>5 DEF Tip, Total, BatchIsOpen
<1>5. ~WalletSecondaryFails
  BY DEF WalletSecondaryFails, PoolSecondaryFails
<1>6. CASE WalletNewBestBlock
  BY <1>6 DEF WalletNewBestBlock, NoneConnected, NewBestBlock, Finish, diskVars, Tip, Total, BatchIsOpen
<1>7. ASSUME NEW t \in Tx, WalletHearsOfTx(t) \/ CommitTransaction(t)
      PROVE  Tip' = Tip /\ Total' = Total
  <2>1. UNCHANGED <<vars, changes, connecting>>
    BY <1>7 DEF WalletHearsOfTx, CommitTransaction, ReceiveTx, SubmitTx
  <2>2. balance' = balance \/ balance' = Plus(balance, Unconfirmed(mapWallet', t))
    BY <1>7 DEF WalletHearsOfTx, CommitTransaction
  <2> QED BY <1>0, <1>1, <2>1, <2>2
<1>8. CASE WalletMissesOrphans
  BY <1>1, <1>8 DEF WalletMissesOrphans, ReceiveOrphanTx, ProcessOrphans, AcceptOrphan,
                    RefuseOrphan, NextInQueue, EraseOrphans, walletVars
<1>9. CASE ReconcilerCounts \/ FixSpentCoins \/ ReacceptWalletTransactions
  BY <1>1, <1>9 DEF ReconcilerCounts, FixSpentCoins, ReacceptWalletTransactions, allVars
<1>10. ASSUME NEW t \in Tx, SyncWithWallets(t) PROVE Tip' = Tip /\ Total' = Total
  BY <1>1, <1>10 DEF SyncWithWallets, allVars
\* What was added up for the connected block goes to the balance with its batch.
<1>11. CASE WalletExtendBest \/ WalletReorganizeConnect \/ WalletSecondaryConnect
  <2>1. UNCHANGED mapWallet
    BY <1>11 DEF WalletExtendBest, WalletReorganizeConnect, WalletSecondaryConnect
  <2>2. Tip' = Tip /\ connecting \in Block /\ connecting' = NoBlock
    BY <1>11, <2>1, ConnectedSteps DEF Quiet
  <2>3. BatchIsOpen
    BY <2>2, TreeAssumption DEF BatchIsOpen
  <2>4. CASE WalletExtendBest
    <3> DEFINE z == ConfirmChange(mapWallet, Txs[pindexNew])
    <3>1. /\ pc' = "idle" /\ Parent[pindexNew] = pindexBest /\ pc = "setbest"
      BY <2>4 DEF WalletExtendBest, PoolExtendBest, ExtendBest, Finish
    <3>2. PrevIsLinked(pindexNew, pnext)
      <4>1. pnext = NextOf(Parent[pindexNew]) /\ pindexNew # Genesis /\ pindexNew \in Block
        BY <3>1 DEF ChainInv, RecordsInv, TypeOK, WorkInv
      <4> QED BY <4>1, PrevLinked
    <3>3. balance' = Plus(balance, Plus(changes, z))
      BY <2>4, <3>2 DEF WalletExtendBest
    <3>4. z.confirmed = 0
      OBVIOUS
    <3> HIDE DEF z
    <3>5. balance'.confirmed = balance.confirmed + changes.confirmed
      BY <1>0, <3>3, <3>4, PlusBoth
    <3>6. ~BatchIsOpen'
      BY <2>2, <3>1 DEF BatchIsOpen
    <3> QED BY <1>0, <2>2, <2>3, <3>5, <3>6 DEF Total
  <2>5. CASE WalletReorganizeConnect
    <3>1. pc' = "reorganize" /\ UNCHANGED <<balance, changes>>
      BY <2>5 DEF WalletReorganizeConnect, PoolReorganizeConnect, ReorganizeConnect
    <3> QED BY <2>2, <2>3, <3>1 DEF Total, BatchIsOpen
  <2>6. CASE WalletSecondaryConnect
    <3> DEFINE z == ConfirmChange(mapWallet, Txs[tip'])
    <3>1. /\ pc' = "secondary" /\ changes' = Plus(changes, z)
          /\ balance' = Plus(balance, changes')
      BY <2>6 DEF WalletSecondaryConnect, PoolSecondaryConnect, SecondaryConnect
    <3>2. z.confirmed = 0
      OBVIOUS
    <3> HIDE DEF z
    <3>3. changes'.confirmed = changes.confirmed
      BY <1>0, <3>1, <3>2
    <3>4. balance'.confirmed = balance.confirmed + changes.confirmed
      BY <3>1, <3>3
    <3>5. ~BatchIsOpen'
      BY <2>2, <3>1 DEF BatchIsOpen
    <3> QED BY <1>0, <2>2, <2>3, <3>4, <3>5 DEF Total
  <2> QED BY <1>11, <2>4, <2>5, <2>6
<1>12. QED
  BY <1>2, <1>3, <1>4, <1>5, <1>6, <1>7, <1>8, <1>9, <1>10, <1>11 DEF WalletRuns

\* The steps that connect or disconnect a block.
LEMMA TotalMoves ==
    ASSUME ChainInv, WalletInv, MoneyInv,
           ~\E b \in Block : /\ WalletConnectBlock(b)
                              /\ (KnowsLate(b) \/ (pc = "secondary" /\ changes # Zero)),
           (\E b \in Block : WalletConnectBlock(b)) \/ WalletReorganizeDisconnect
    PROVE  Total' = Total + SumOf(UnspentMine(Tip')) - SumOf(UnspentMine(Tip))
<1> USE PlusConfirmed, ChangesConfirmed
<1>0. /\ balance.confirmed \in Int /\ changes.confirmed \in Int
      /\ \A c : SumOf(UnspentMine(c)) \in Int
      /\ tip \in Block /\ pc \in {"idle", "setbest", "reorganize", "secondary"}
  BY SumOfInt DEF MoneyInv, ChainInv, TypeOK
<1>1. ASSUME NEW b \in Block, WalletConnectBlock(b)
      PROVE  Total' = Total + SumOf(UnspentMine(Tip')) - SumOf(UnspentMine(Tip))
  <2>1. Tip' = b /\ Parent[b] = Tip /\ Sound(b) /\ b # Genesis
    BY <1>1, ConnectsFacts
  <2>2. SpentMine(Txs[b]) \subseteq mapWallet.txs
    BY <1>1 DEF KnowsLate, SpentMine
  <2>3. ConnectChange(mapWallet, b).confirmed = SumOf(UnspentMine(b)) - SumOf(UnspentMine(Tip))
    BY <2>1, <2>2, ConnectChangeIs
  <2>4. /\ connecting = NoBlock /\ connecting' = b /\ b # NoBlock /\ UNCHANGED balance
        /\ changes' = Plus(changes, ConnectChange(mapWallet, b))
    BY <1>1, TreeAssumption DEF WalletConnectBlock
  <2>5. changes'.confirmed = changes.confirmed + ConnectChange(mapWallet, b).confirmed
    BY <2>4
  <2>6. BatchIsOpen' /\ (BatchIsOpen \/ changes.confirmed = 0)
    BY <1>0, <1>1, <2>4 DEF BatchIsOpen, MoneyInv
  <2> QED BY <1>0, <2>1, <2>3, <2>4, <2>5, <2>6 DEF Total
<1>5. CASE WalletReorganizeDisconnect
  <2>1. /\ pc = "reorganize" /\ UNCHANGED <<pc, balance>> /\ tip' = Parent[tip]
        /\ tip \notin Chain[pindexIntermediate]
        /\ changes' = Minus(changes, ConnectChange(mapWallet, tip))
        /\ connecting = NoBlock /\ UNCHANGED connecting
    BY <1>5 DEF WalletReorganizeDisconnect, ReorganizeDisconnect, NoneConnected
  <2>2. Tip = tip /\ Tip' = Parent[tip] /\ Sound(tip) /\ WellFormed(tip) /\ tip # Genesis
    <3>1. tip # Genesis
      BY <2>1, ChainAncestry DEF ChainInv, TypeOK, Ancestry
    <3>2. Tip = tip /\ Tip' = Parent[tip]
      BY <2>1 DEF Tip
    <3> QED BY <1>0, <3>1, <3>2, ViewIsTip, SoundWellFormed DEF WalletInv
  <2>3. SpentMine(Txs[tip]) \subseteq mapWallet.txs
    <3>1. Holds(mapWallet, TxsOf(tip)) /\ Txs[tip] \subseteq TxsOf(tip)
      <4>1. untold = {} /\ TxsOf(tip) \ untold = TxsOf(tip)
        BY <2>1 DEF WalletInv, ConnectingInv
      <4> QED BY <1>0, <2>2, <4>1, TxsOfStep DEF WalletInv
    <3> QED BY <2>2, <3>1 DEF SpentMine, SpentIn, Holds, Concerns, WellFormed
  <2>4. ConnectChange(mapWallet, tip).confirmed
          = SumOf(UnspentMine(tip)) - SumOf(UnspentMine(Parent[tip]))
    BY <1>0, <2>2, <2>3, ConnectChangeIs
  <2>5. changes'.confirmed = changes.confirmed - ConnectChange(mapWallet, tip).confirmed
    BY <2>1
  <2> QED BY <1>0, <2>1, <2>2, <2>4, <2>5 DEF Total, BatchIsOpen
<1>6. QED
  BY <1>1, <1>5

LEMMA ConfirmedStep ==
    ASSUME ChainInv, ChainInv', WalletInv, WalletInv', MoneyInv, MoneyInv', [WalletNext]_everything,
           ~SecondaryFails \/ UNCHANGED vars
    PROVE  \/ ConfirmedError' \in {ConfirmedError, 0}
           \/ AbandonsBatch
           \/ ReconcilerStores /\ SnapshotIsOff
           \/ FillSnapshot /\ Astray # {}
           \/ \E b \in Block :
                 /\ WalletConnectBlock(b)
                 /\ (KnowsLate(b) \/ (pc = "secondary" /\ changes # Zero))
<1> SUFFICES ASSUME ~AbandonsBatch, ~(ReconcilerStores /\ SnapshotIsOff),
                    ~(FillSnapshot /\ Astray # {}),
                    ~\E b \in Block :
                        /\ WalletConnectBlock(b)
                        /\ (KnowsLate(b) \/ (pc = "secondary" /\ changes # Zero))
             PROVE  ConfirmedError' \in {ConfirmedError, 0}
  OBVIOUS
<1>0. /\ Total \in Int /\ Total' \in Int /\ \A c : SumOf(UnspentMine(c)) \in Int
  BY SumOfInt DEF Total, MoneyInv
<1>1. /\ ConfirmedError = IF startup = "scan" THEN 0 ELSE Total - SumOf(UnspentMine(Tip))
      /\ ConfirmedError' = IF startup' = "scan" THEN 0 ELSE Total' - SumOf(UnspentMine(Tip'))
  <2>1. ErrorIsTotal /\ ErrorIsTotal'
    BY ErrorIs, PTL
  <2> QED BY <2>1 DEF ErrorIsTotal, SumOf, UnspentMine, IndexOf
<1>2. ASSUME UNCHANGED <<mapWallet, vars, connecting>>, balance' = GetSnapshot(mapWallet), Astray = {},
             pc = "idle", vScan = {}
      PROVE  ConfirmedError' = 0
  <2>1. balance'.confirmed = SumOf(UnspentMine(Tip))
    BY <1>2, SnapshotIs
  <2>2. Tip' = Tip /\ ~BatchIsOpen'
    <3>1. connecting = NoBlock /\ pc' = "idle"
      BY <1>2, ViewIsTip DEF WalletInv, vars
    <3> QED BY <1>2, <3>1 DEF vars, diskVars, workVars, Tip, BatchIsOpen
  <2> QED BY <1>0, <1>1, <2>1, <2>2 DEF Total
<1>3. CASE startup # "scan" /\ WalletRuns
  <2>0. vScan = {} /\ startup' # "scan"
    BY <1>3, NoScan
  <2>1. ~SecondaryFails
    <3> SUFFICES ASSUME SecondaryFails PROVE FALSE
      OBVIOUS
    <3>1. pc = "secondary" /\ pc' = "idle"
      BY DEF SecondaryFails, Finish
    <3> QED BY <3>1 DEF vars
  <2>2. CASE ReconcilerStores
    <3>1. /\ UNCHANGED <<mapWallet, vars, connecting>> /\ balance' = GetSnapshot(mapWallet)
          /\ Astray = {} /\ pc = "idle"
      BY <2>2 DEF ReconcilerStores, SnapshotIsOff, allVars
    <3> QED BY <1>2, <2>0, <3>1
  <2>3. CASE Tip' = Tip /\ Total' = Total
    BY <1>1, <1>3, <2>0, <2>3
  <2>4. CASE (\E b \in Block : WalletConnectBlock(b)) \/ WalletReorganizeDisconnect
    <3>1. Total' = Total + SumOf(UnspentMine(Tip')) - SumOf(UnspentMine(Tip))
      BY <2>4, TotalMoves
    <3> QED BY <1>0, <1>1, <1>3, <2>0, <3>1
  <2> QED BY <1>3, <2>1, <2>2, <2>3, <2>4, TotalKept
<1>4. ASSUME NEW b \in Block, ScanBlock(b) PROVE ConfirmedError' = 0
  BY <1>1, <1>4 DEF ScanBlock
<1>5. CASE FillSnapshot
  <2>1. /\ UNCHANGED <<mapWallet, vars, connecting>> /\ balance' = GetSnapshot(mapWallet)
        /\ Astray = {} /\ vScan = {} /\ startup = "scan"
    BY <1>5 DEF FillSnapshot, allVars
  <2>2. pc = "idle"
    BY <2>1 DEF WalletInv, ScanInv
  <2> QED BY <1>2, <2>1, <2>2
<1>6. CASE WalletRestart
  BY <1>1, <1>6 DEF WalletRestart
<1>7. CASE UNCHANGED everything
  <2>1. Total' = Total /\ Tip' = Tip /\ startup' = startup
    BY <1>7 DEF everything, allVars, vars, diskVars, workVars, walletVars, Total, Tip, BatchIsOpen
  <2> QED BY <1>1, <2>1
<1>8. QED
  BY <1>3, <1>4, <1>5, <1>6, <1>7 DEF WalletNext

\* Under the same assumption: the confirmed balance, which the wallet keeps by adding
\* and subtracting, stays where it is relative to the coins that the chain gives it, or is put
\* right, except in the steps that ConfirmedKeepsUp names.
THEOREM ConfirmedBalanceHolds == WalletSpec /\ FurtherBlocksConnect => ConfirmedKeepsUp
<1> DEFINE Inv == ChainInv /\ WalletInv /\ MoneyInv
           A == \/ ConfirmedError' \in {ConfirmedError, 0}
                \/ AbandonsBatch
                \/ ReconcilerStores /\ SnapshotIsOff
                \/ FillSnapshot /\ Astray # {}
                \/ \E b \in Block :
                      /\ WalletConnectBlock(b)
                      /\ (KnowsLate(b) \/ (pc = "secondary" /\ changes # Zero))
<1>1. WalletInit => MoneyInv
  BY ChangesConfirmed DEF WalletInit, MoneyInv, Zero
<1>2. ChainInv /\ MoneyInv /\ [WalletNext]_everything => MoneyInv'
  BY MoneyStep
<1>3. Inv /\ Inv' /\ [WalletNext]_everything /\ [~SecondaryFails]_vars => [A]_everything
  BY ConfirmedStep
<1>4. WalletSpec /\ FurtherBlocksConnect => [](ChainInv /\ WalletInv)
  BY WalletAgreement
<1>5. QED
  BY <1>1, <1>2, <1>3, <1>4, PTL DEF WalletSpec, FurtherBlocksConnect, ConfirmedKeepsUp
=============================================================================
