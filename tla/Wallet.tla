------------------------------- MODULE Wallet -------------------------------
(***************************************************************************)
(* The wallet of wallet.cpp beside the chain and the pool: which           *)
(* transactions it holds and in which block, which of its coins it believes*)
(* spent, and the balances that SetBestChain, Reorganize, the "tx" message *)
(* and CommitTransaction keep up to date by adding and subtracting.        *)
(*                                                                         *)
(* SyncWithWallets is called from inside ConnectBlock and DisconnectBlock, *)
(* while the batch is open, and every change goes to wallet.dat at once: a *)
(* reorganisation that is given up takes back what the index saw, not what *)
(* the wallet did.  ConnectBlock takes cs_wallet anew for each transaction,*)
(* and the thread Reconciler and the command repairwallet hold nothing     *)
(* else: they run in the middle of SetBestChain, between two transactions  *)
(* of a block and before its TxnCommit.  The step that commits also adds   *)
(* the changes to the balances.  What Reconciler stores between the two is *)
(* added to as if it had come before, and what it counts there is what it  *)
(* counts before, since pindexBest has not moved, or after a               *)
(* reorganisation is off anyway.                                           *)
(*                                                                         *)
(* There is one colour.  Multisignature, watch-only and stealth outputs and*)
(* the accounts are left out.  The node is past its initial download.      *)
(***************************************************************************)
EXTENDS MemPool, Sums

SX == INSTANCE SequencesExt

CONSTANTS
    Mine,          \* transactions whose output pays the wallet
    Value,
    Staking,       \* coinstakes
    Authored,      \* transactions that the wallet may make itself
    vtxPrev,       \* the supporting transactions stored with one, oldest first
    HashOrder,     \* all transactions in the order of their hashes
    Maturity,      \* nCoinbaseMaturity
    MaxReconciles  \* how often Reconciler runs

ASSUME WalletAssumption ==
    /\ Mine \subseteq Tx
    /\ Value \in [Tx -> Nat]
    /\ Staking \subseteq Tx
    /\ Authored \subseteq Poolable
    /\ Enumerates(HashOrder, Tx)
    /\ Maturity \in Nat \ {0}
    /\ MaxReconciles \in Nat

VARIABLES
    mapWallet,     \* [txs, hashBlock, vfSpent], in memory and in wallet.dat
    balance,       \* mapConfirmed, mapStake, mapCoinbase, mapReceived, mapSent
    changes,       \* the changes that SetBestChain or Reorganize has added up
    connecting,    \* the block that ConnectBlock has connected in the open batch, until
    untold,        \* the batch goes on, and those of its transactions that the wallet
                   \* has not been told of
    bestblock,     \* the locator in wallet.dat
    startup,       \* "scan", "reaccept" (still to come) or "done"
    vScan,         \* blocks that ScanForWalletTransactions has still to read
    snapshot,      \* what FillSnapshot has counted and not yet stored
    nReconciled

walletVars == <<mapWallet, balance, changes, connecting, untold, bestblock, startup,
                vScan, snapshot, nReconciled>>

Zero == [confirmed |-> 0, stake |-> 0, coinbase |-> 0, received |-> 0, sent |-> 0]
Plus(x, y)  == [f \in DOMAIN Zero |-> x[f] + y[f]]
Minus(x, y) == [f \in DOMAIN Zero |-> x[f] - y[f]]

NoSnapshot == [Zero EXCEPT !.confirmed = -1000]

-----------------------------------------------------------------------------
(* What a transaction means to the wallet.                                 *)

Coinbase == {t \in Tx : Spends[t] = {}}
DoesMature(t) == t \in Coinbase \cup Staking

OwnInputs(w, t) == Spends[t] \cap w.txs \cap Mine

SumOf(S) == SumAlong(HashOrder, Value, S)

\* GetAmounts: received and sent.
Rcvd(S)   == SumOf(S \cap Mine)
Snt(w, S) == SumAlong(HashOrder, [t \in Tx |-> SumOf(OwnInputs(w, t))], S)

(* AddToWallet and what it calls, for the transactions S of one block (or  *)
(* one transaction, without a block).  ConnectBlock accepts only blocks in *)
(* which a transaction comes after those it spends from, so that what a    *)
(* transaction unmarks is marked again by those of S that spend it.        *)

\* Mutant: the output is marked unspent also without a block.
WalletUpdateSpentAlways(w, S, b) ==
    [w EXCEPT !.vfSpent = (@ \ (S \cap Mine)) \cup UNION {OwnInputs(w, t) : t \in S}]

\* The coins that S spends are marked; if it comes in a block, its own outputs are
\* marked unspent.
WalletUpdateSpent(w, S, b) ==
    [w EXCEPT !.vfSpent = (IF b = NoBlock THEN @ ELSE @ \ (S \cap Mine))
                              \cup UNION {OwnInputs(w, t) : t \in S}]

\* Mutant: a transaction that is there keeps its block.
AddToWalletKeepsBlock(w, S, b) ==
    LET added == [txs |-> w.txs \cup S,
                  hashBlock |-> [t \in Tx |-> IF t \in S /\ w.hashBlock[t] = NoBlock THEN b
                                              ELSE w.hashBlock[t]],
                  vfSpent |-> w.vfSpent]
    IN  WalletUpdateSpent(added, S, b)

AddToWallet(w, S, b) ==
    LET added == [txs |-> w.txs \cup S,
                  hashBlock |-> [t \in Tx |-> IF t \in S /\ b # NoBlock THEN b ELSE w.hashBlock[t]],
                  vfSpent |-> w.vfSpent]
    IN  WalletUpdateSpent(added, S, b)

\* What of S is in the wallet, pays it or spends from it.
Involving(w, S) ==
    {t \in S : t \in w.txs \cup Mine \/ Spends[t] \cap Mine \cap (w.txs \cup S) # {}}

AddToWalletIfInvolvingMe(w, S, b) == AddToWallet(w, Involving(w, S), b)

SyncBlock(w, b) == AddToWalletIfInvolvingMe(w, Txs[b], b)

\* DisableTransaction for the coinstakes of a disconnected block.
DisableTransactions(w, b) ==
    [w EXCEPT !.vfSpent = @ \ UNION {OwnInputs(w, s) : s \in Txs[b] \cap Staking}]

\* The transactions of the block that matures with b.
Maturing(b) ==
    UNION {Txs[a] : a \in {x \in Chain[b] : Height[x] = Height[b] - Maturity}}

\* Added up before b is connected, and subtracted before it is disconnected.
ConnectChange(w, b) ==
    [confirmed |-> Rcvd(Txs[b]) - Snt(w, Txs[b]),
     stake     |-> Rcvd(Txs[b] \cap Staking) - Rcvd(Maturing(b) \cap Staking),
     coinbase  |-> Rcvd(Txs[b] \cap Coinbase) - Rcvd(Maturing(b) \cap Coinbase),
     received  |-> 0,
     sent      |-> 0]

\* A change of the unconfirmed amounts only.
Pending(r, s) == [confirmed |-> 0, stake |-> 0, coinbase |-> 0, received |-> r, sent |-> s]

\* Added up after the transactions S are connected.  The temporary CWalletTx has no
\* hashBlock, so every transaction that does not mature counts as unconfirmed before.
ConfirmChange(w, S) ==
    LET U == {t \in S : ~DoesMature(t)}
    IN  Pending(-Rcvd(U), -Snt(w, U))

-----------------------------------------------------------------------------
(* Depth, counted from memory.                                             *)

IsInMainChain(b) == b # NoBlock /\ (pnext[b] # NoBlock \/ b = pindexBest)

GetDepthInMainChain(w, t) ==
    LET b == w.hashBlock[t]
        n == IF IsInMainChain(b) THEN Height[pindexBest] - Height[b] + 1 ELSE 0
    IN  IF n = 0 /\ t \notin mapTx THEN -1 ELSE n

IsImmature(w, t) == DoesMature(t) /\ GetDepthInMainChain(w, t) < Maturity + 1

GetSnapshot(w) ==
    LET counted == {t \in w.txs : GetDepthInMainChain(w, t) >= 0}
        deep    == {t \in counted : GetDepthInMainChain(w, t) >= 1}
        young   == {t \in counted : IsImmature(w, t)}
    IN  [confirmed |-> Rcvd(deep) - Snt(w, deep),
         stake     |-> Rcvd(young \cap Staking),
         coinbase  |-> Rcvd(young \cap Coinbase),
         received  |-> Rcvd(counted \ deep),
         sent      |-> Snt(w, counted \ deep)]

\* An unconfirmed coin is trusted if it comes from the wallet and so does everything
\* unconfirmed that it depends on.
IsTrusted(w, t) ==
    \/ GetDepthInMainChain(w, t) >= 1
    \/ /\ GetDepthInMainChain(w, t) = 0
       /\ \A s \in Tx : t \in Descendants({s}, mapTx) => OwnInputs(w, s) # {}

AvailableCoins(w) ==
    {t \in w.txs \cap Mine :
        /\ IsTrusted(w, t)
        /\ ~IsImmature(w, t)
        /\ t \notin w.vfSpent}

-----------------------------------------------------------------------------
(* The steps of SetBestChain.                                              *)

WalletInit ==
    /\ PoolInit
    /\ mapWallet = [txs |-> {}, hashBlock |-> [t \in Tx |-> NoBlock], vfSpent |-> {}]
    /\ balance = Zero
    /\ changes = Zero
    /\ connecting = NoBlock
    /\ untold = {}
    /\ bestblock = Genesis
    /\ startup = "done"
    /\ vScan = {}
    /\ snapshot = NoSnapshot
    /\ nReconciled = 0

idleVars == <<startup, vScan, snapshot, nReconciled>>

PoolSame == vWorkQueue = <<>> /\ UNCHANGED <<poolVars, orphanVars, setKnown, queueVars>>

\* The block that SetBestChain or Reorganize connects next.
Connectable(b) ==
    \/ pc = "setbest" /\ Parent[pindexNew] = pindexBest /\ b = pindexNew
    \/ /\ pc = "reorganize"
       /\ tip \in Chain[pindexIntermediate] \ {pindexIntermediate}
       /\ b = StepTowards(tip, pindexIntermediate)
    \/ pc = "secondary" /\ tip # pindexNew /\ b = StepTowards(tip, pindexNew)

\* What b changes is added up, and then ConnectBlock connects it.
WalletConnectBlock(b) ==
    /\ connecting = NoBlock
    /\ Connectable(b)
    /\ CanConnect(b, viewTx)
    /\ changes' = Plus(changes, ConnectChange(mapWallet, b))
    /\ connecting' = b
    /\ untold' = Txs[b]
    /\ UNCHANGED <<allVars, mapWallet, balance, bestblock, idleVars>>

\* At its end ConnectBlock calls SyncWithWallets for one transaction after the other, in
\* the order of the block: each comes after those of the block that it spends from.
SyncWithWallets(t) ==
    /\ t \in untold
    /\ Spends[t] \cap untold = {}
    /\ mapWallet' = AddToWalletIfInvolvingMe(mapWallet, {t}, connecting)
    /\ untold' = untold \ {t}
    /\ UNCHANGED <<allVars, balance, changes, connecting, bestblock, idleVars>>

\* ConnectBlock has returned for b.
Connected(b) ==
    /\ connecting = b
    /\ untold = {}
    /\ connecting' = NoBlock
    /\ UNCHANGED untold

NoneConnected == connecting = NoBlock /\ UNCHANGED <<connecting, untold>>

WalletUnchangedStep ==
    /\ (\E b \in Block : AddToBlockIndex(b)) \/ ExtendFails \/ BeginReorganize
    /\ PoolSame
    /\ NoneConnected
    /\ UNCHANGED walletVars

WalletExtendBest ==
    /\ PoolExtendBest
    /\ Connected(pindexNew)
    /\ IF PrevIsLinked(pindexNew, pnext)
       THEN /\ balance' = Plus(balance, Plus(changes, ConfirmChange(mapWallet, Txs[pindexNew])))
            /\ bestblock' = pindexNew
       ELSE UNCHANGED <<balance, bestblock>>
    /\ changes' = Zero
    /\ UNCHANGED <<mapWallet, idleVars>>

WalletReorganizeDisconnect ==
    /\ ReorganizeDisconnect
    /\ PoolSame
    /\ NoneConnected
    /\ changes' = Minus(changes, ConnectChange(mapWallet, tip))
    /\ mapWallet' = DisableTransactions(mapWallet, tip)
    /\ UNCHANGED <<balance, bestblock, idleVars>>

WalletReorganizeConnect ==
    /\ PoolReorganizeConnect
    /\ Connected(tip')
    /\ UNCHANGED <<mapWallet, balance, changes, bestblock, idleVars>>

\* The wallet is not told.
WalletReorganizeFails ==
    /\ ReorganizeFails
    /\ PoolSame
    /\ NoneConnected
    /\ changes' = Zero
    /\ UNCHANGED <<mapWallet, balance, bestblock, idleVars>>

\* Mutant: what was added up for the blocks is dropped.
WalletReorganizeCommitDrops ==
    /\ PoolReorganizeCommit
    /\ NoneConnected
    /\ changes' = Zero
    /\ UNCHANGED <<mapWallet, balance, bestblock, idleVars>>

WalletReorganizeCommit ==
    /\ PoolReorganizeCommit
    /\ NoneConnected
    /\ balance' = IF ForkIsLinked
                  THEN LET S == UNION {Txs[b] : b \in vConnect}
                       IN  Plus(balance, Plus(changes, ConfirmChange(mapWallet, S)))
                  ELSE balance
    /\ changes' = Zero
    /\ UNCHANGED <<mapWallet, bestblock, idleVars>>

\* The maps of changes are declared outside the loop and never cleared.
WalletSecondaryConnect ==
    /\ PoolSecondaryConnect
    /\ Connected(tip')
    /\ changes' = Plus(changes, ConfirmChange(mapWallet, Txs[tip']))
    /\ balance' = Plus(balance, changes')
    /\ UNCHANGED <<mapWallet, bestblock, idleVars>>

WalletSecondaryFails ==
    /\ PoolSecondaryFails
    /\ IF diskBest' = diskBest THEN NoneConnected ELSE Connected(diskBest')
    /\ changes' = Zero
    /\ bestblock' = pindexNew
    /\ UNCHANGED <<mapWallet, balance, idleVars>>

WalletNewBestBlock ==
    /\ NewBestBlock
    /\ PoolSame
    /\ NoneConnected
    /\ changes' = Zero
    /\ bestblock' = pindexNew
    /\ UNCHANGED <<mapWallet, balance, idleVars>>

-----------------------------------------------------------------------------
(* Transactions.                                                           *)

Unconfirmed(w, t) == Pending(Rcvd({t}), Snt(w, {t}))

\* From the network or through sendrawtransaction.
WalletHearsOfTx(t) ==
    /\ ReceiveTx(t) \/ SubmitTx(t)
    /\ mapWallet' = AddToWalletIfInvolvingMe(mapWallet, {t}, NoBlock)
    /\ balance' = Plus(balance, Unconfirmed(mapWallet', t))
    /\ UNCHANGED <<changes, connecting, untold, bestblock, idleVars>>

\* Orphans: SyncWithWallets is called for the parent again, which changes nothing.
WalletMissesOrphans ==
    /\ (\E t \in Tx : ReceiveOrphanTx(t)) \/ ProcessOrphans
    /\ UNCHANGED walletVars

\* The transaction is recorded and its coins are marked, and then the pool is asked,
\* which may refuse it.
CommitTransaction(t) ==
    /\ Idle
    /\ t \in Authored \ (mapWallet.txs \cup mapTx)
    /\ diskTx[t] = Absent
    /\ Spends[t] \subseteq AvailableCoins(mapWallet)
    /\ mapWallet' = [AddToWallet(mapWallet, {t}, NoBlock) EXCEPT !.vfSpent = @ \cup Spends[t]]
    /\ \/ /\ Accepts(t)
          /\ AddUnchecked(t)
          /\ setKnown' = setKnown \cup {t}
          /\ balance' = Plus(balance, Unconfirmed(mapWallet', t))
       \/ UNCHANGED <<poolVars, setKnown, balance>>
    /\ UNCHANGED <<vars, orphanVars, queueVars, changes, connecting, untold, bestblock, idleVars>>

-----------------------------------------------------------------------------
(* The thread and the command that work beside cs_main.                    *)

\* GetSnapshot under cs_wallet.
ReconcilerCounts ==
    /\ snapshot = NoSnapshot
    /\ nReconciled < MaxReconciles
    /\ snapshot' = GetSnapshot(mapWallet)
    /\ nReconciled' = nReconciled + 1
    /\ UNCHANGED <<allVars, mapWallet, balance, changes, connecting, untold, bestblock,
                   startup, vScan>>

\* The maps are assigned after the lock has been given up.
ReconcilerStores ==
    /\ snapshot # NoSnapshot
    /\ balance' = snapshot
    /\ snapshot' = NoSnapshot
    /\ UNCHANGED <<allVars, mapWallet, changes, connecting, untold, bestblock, startup,
                   vScan, nReconciled>>

\* repairwallet: the flags are set from the index on disk.
FixSpentCoins ==
    /\ LET indexed == {t \in mapWallet.txs \cap Mine : diskTx[t] # Absent}
       IN  mapWallet' = [mapWallet EXCEPT
                !.vfSpent = (@ \ indexed) \cup {t \in indexed : diskTx[t] # Unspent}]
    /\ mapWallet' # mapWallet
    /\ UNCHANGED <<allVars, balance, changes, connecting, untold, bestblock, idleVars>>

-----------------------------------------------------------------------------
(* Startup.                                                                *)

\* From the last block of the locator that is in the chain, unless that is the best one.
BlocksToScan ==
    IF Chain[diskBest] \subseteq Chain[bestblock] THEN {}
    ELSE {b \in Chain[diskBest] : Chain[bestblock] \cap Chain[diskBest] \subseteq Chain[b]}

\* A crash at any point, also in the middle of a scan; then LoadWallet.
WalletRestart ==
    /\ PoolRestart
    /\ vScan' = BlocksToScan
    /\ startup' = "scan"
    /\ balance' = Zero
    /\ changes' = Zero
    /\ connecting' = NoBlock
    /\ untold' = {}
    /\ snapshot' = NoSnapshot
    /\ UNCHANGED <<mapWallet, bestblock, nReconciled>>

\* ScanForWalletTransactions, from the lowest block up.
ScanBlock(b) ==
    /\ startup = "scan"
    /\ b \in vScan
    /\ \A c \in vScan : b \in Chain[c]
    /\ mapWallet' = SyncBlock(mapWallet, b)
    /\ vScan' = vScan \ {b}
    /\ UNCHANGED <<allVars, balance, changes, connecting, untold, bestblock, startup,
                   snapshot, nReconciled>>

FillSnapshot ==
    /\ startup = "scan"
    /\ vScan = {}
    /\ balance' = GetSnapshot(mapWallet)
    /\ startup' = "reaccept"
    /\ UNCHANGED <<allVars, mapWallet, changes, connecting, untold, bestblock, vScan,
                   snapshot, nReconciled>>

\* Coins that the index has spent.
MarkSpentOnDisk(w) ==
    [w EXCEPT !.vfSpent = @ \cup {t \in w.txs \cap Mine : diskTx[t] \in Tx}]

\* ScanForWalletTransactions from genesis for transactions that the wallet does not
\* have (fUpdate is false): each is placed in the first block that has it.
ScanForMissing(w) ==
    LET missing == Involving(w, TxsOf(diskBest)) \ w.txs
        Has(t, b) == b \in Chain[diskBest] /\ t \in Txs[b]
        First(t)  == CHOOSE b \in Block : Has(t, b) /\ \A c \in Block : Has(t, c) => b \in Chain[c]
        found == [txs |-> w.txs \cup missing,
                  hashBlock |-> [t \in Tx |-> IF t \in missing THEN First(t) ELSE w.hashBlock[t]],
                  vfSpent |-> w.vfSpent]
    IN  WalletUpdateSpent(found, missing, diskBest)

\* CTxMemPool::accept on the pool P, if the checks that Accepts leaves open let in the
\* transactions F.
AcceptInto(F, P, t) ==
    IF /\ t \in (Poolable \cap F) \ P
       /\ diskTx[t] = Absent
       /\ \A s \in P : Spends[s] \cap Spends[t] = {}
       /\ \A i \in Spends[t] : diskTx[i] = Unspent \/ (diskTx[i] = Absent /\ i \in P)
    THEN P \cup {t} ELSE P

\* AcceptWalletTransaction: the supporting transactions first.
AcceptWalletTransaction(F, P, t) ==
    AcceptInto(F, SX!FoldLeft(LAMBDA Q, s : AcceptInto(F, Q, s), P, vtxPrev[t]), t)

\* The pool after those transactions of S that are not in a block are put back.
Reaccepted(S, F) ==
    SX!FoldLeft(LAMBDA P, t : IF t \in S /\ diskTx[t] = Absent /\ ~DoesMature(t)
                              THEN AcceptWalletTransaction(F, P, t) ELSE P,
                mapTx, HashOrder)

\* Wallet transactions are put back into the pool.  A coin found spent on disk makes
\* it look for transactions it does not have, and mark once more.
ReacceptWalletTransactions ==
    /\ startup = "reaccept"
    /\ Idle
    /\ LET marked == MarkSpentOnDisk(mapWallet)
       IN  mapWallet' = IF marked = mapWallet THEN marked
                        ELSE MarkSpentOnDisk(ScanForMissing(marked))
    /\ \E F \in SUBSET Poolable : mapTx' = Reaccepted(mapWallet'.txs, F)
    /\ mapNextTx' = With(mapNextTx, mapTx')
    /\ setKnown' = setKnown \cup mapTx'
    /\ startup' = "done"
    /\ UNCHANGED <<vars, orphanVars, queueVars, balance, changes, connecting, untold,
                   bestblock, vScan, snapshot, nReconciled>>

\* Nothing else runs before the scan has ended.
WalletRuns ==
    \/ WalletUnchangedStep
    \/ (\E b \in Block : WalletConnectBlock(b)) \/ (\E t \in Tx : SyncWithWallets(t))
    \/ WalletExtendBest
    \/ WalletReorganizeDisconnect \/ WalletReorganizeConnect \/ WalletReorganizeFails
    \/ WalletReorganizeCommit
    \/ WalletSecondaryConnect \/ WalletSecondaryFails \/ WalletNewBestBlock
    \/ \E t \in Tx : WalletHearsOfTx(t) \/ CommitTransaction(t)
    \/ WalletMissesOrphans
    \/ ReconcilerCounts \/ ReconcilerStores
    \/ FixSpentCoins
    \/ ReacceptWalletTransactions

WalletNext ==
    \/ startup # "scan" /\ WalletRuns
    \/ (\E b \in Block : ScanBlock(b)) \/ FillSnapshot
    \/ WalletRestart

everything == <<allVars, walletVars>>

WalletSpec == WalletInit /\ [][WalletNext]_everything

-----------------------------------------------------------------------------
(* Safety.                                                                 *)

\* The end of the chain as the open batch has it, and the index there.
Tip ==
    IF connecting # NoBlock THEN connecting ELSE IF pc = "reorganize" THEN tip ELSE diskBest

View == IF connecting # NoBlock THEN ConnectTx(connecting, viewTx) ELSE viewTx

Concerns(t) == t \in Mine \/ Spends[t] \cap Mine # {}

\* What the wallet is still to hear of the blocks that are connected or scanned.
ToHear == untold \cup UNION {Txs[b] : b \in vScan}

\* Transactions of that chain from or to the wallet that it does not have although it was
\* told of them, places in a block that is not in the chain, or believes unspent although
\* the chain spends them and it has heard of the transaction that does.
Astray ==
    {t \in Tx \ untold :
        /\ Concerns(t)
        /\ View[t] # Absent
        /\ \/ t \notin mapWallet.txs
           \/ mapWallet.hashBlock[t] \notin Chain[Tip]
           \/ t \in Mine \ mapWallet.vfSpent /\ View[t] \in Tx \ ToHear}

AbandonsBatch == pc = "reorganize" /\ pc' = "idle"

BatchIsOpen == pc = "reorganize" \/ connecting # NoBlock

\* The wallet follows every block that is connected or disconnected, in whatever order
\* and after whatever crash, one in the middle of a scan or of a block included; it is led
\* astray only by a reorganisation that is given up or cut off after it was told of
\* blocks, and by repairwallet, which looks at the disk while a batch is open: also in a
\* plain extension, once SyncWithWallets has marked what the block spends.
OnlyAbandonedReorganizeMisleads ==
    [][ \/ Astray' \subseteq Astray
        \/ AbandonsBatch
        \/ FixSpentCoins /\ BatchIsOpen ]_everything

\* How far mapConfirmed, with what the open batch has added up, is from the value of
\* the wallet's unspent outputs in that chain.  During the scan there are no balances.
ConfirmedError ==
    IF startup = "scan" THEN 0
    ELSE balance.confirmed + (IF BatchIsOpen THEN changes.confirmed ELSE 0)
        - SumOf({t \in Mine : View[t] = Unspent})

\* What was counted is not what there is now, or memory and wallet are off themselves.
SnapshotIsOff ==
    \/ snapshot # GetSnapshot(mapWallet)
    \/ Astray # {} \/ pc # "idle" \/ pindexBest # diskBest

\* The block spends a coin of the wallet that the wallet does not have yet.
KnowsLate(b) == \E t \in Mine \ mapWallet.txs : SpentIn(Txs[b], t)

\* mapConfirmed, kept by adding and subtracting, stays the value of the wallet's coins
\* in the chain, or is put right, through blocks, reorganisations and restarts.  It
\* loses touch only when a batch is abandoned; when Reconciler stores, outside the
\* lock, what it has counted before something else changed; when FillSnapshot counts a
\* wallet that was led astray; when a block brings a coin together with the transaction
\* that spends it; and when SetBestChain connects more than one further block, since it
\* adds the changes of the earlier ones again.
ConfirmedKeepsUp ==
    [][ \/ ConfirmedError' \in {ConfirmedError, 0}
        \/ AbandonsBatch
        \/ ReconcilerStores /\ SnapshotIsOff
        \/ FillSnapshot /\ Astray # {}
        \/ \E b \in Block :
              /\ WalletConnectBlock(b)
              /\ KnowsLate(b) \/ (pc = "secondary" /\ changes # Zero) ]_everything

\* Coins that the wallet may select although a transaction of its own spends them.
Reopened ==
    {t \in (mapWallet.txs \cap Mine) \ mapWallet.vfSpent :
        \E s \in mapWallet.txs \ Staking : t \in Spends[s]}

\* A coin that a transaction of the wallet spends stays marked spent, in memory and in
\* wallet.dat, so that CommitTransaction does not offer the pool a double spend.  It is
\* opened again only when the block that holds it is connected or scanned again, when a
\* coinstake that spends it too is disconnected, and by repairwallet, none of which
\* looks at what the pool spends.  (A coin that the wallet hears of only now, its spender
\* having come before it, is open from the start.)
OnlyConfirmationReopens ==
    [][ \A t \in Reopened' \ Reopened :
            \/ t \notin mapWallet.txs
            \/ SyncWithWallets(t)
            \/ \E b \in Block : ScanBlock(b) /\ t \in Txs[b]
            \/ WalletReorganizeDisconnect /\ \E s \in Txs[tip] \cap Staking : t \in Spends[s]
            \/ FixSpentCoins /\ diskTx[t] = Unspent ]_everything
=============================================================================
