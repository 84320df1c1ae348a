# Breakout Chain Client: a TLA+ verification project

The Breakout Chain Client is a multi-currency descendant of Bitcoin and Peercoin:
one block chain carries dozens of colours of coins, blocks are mined (KAWPOW since the
last fork) or staked, and a reward in one colour may be earned by staking another.
This directory models the part of it on which everything else rests: which chain a
node follows, and what that does to its database, its memory pool, the blocks it
mines, its wallet, the index of its explorer and the supply of each colour; and how it
gets the blocks and transactions that its peers announce.

All paths are relative to the repository; line numbers are in `PROJECT.json` ("map").

## 1. The system

| Component | State | Operations | Talks to |
|---|---|---|---|
| Block index and best chain (`src/main.cpp`, `src/txdb-leveldb.*`) | LevelDB records (block index with `hashNext`, `hashBestChain`, `bnBestInvalidTrust`, transaction index with spent outputs); in memory `mapBlockIndex`, `pnext`, `mapBlockLookup`, `pindexBest` | `AddToBlockIndex`, `SetBestChain`, `SetBestChainInner`, `Reorganize`, `ConnectBlock`, `DisconnectBlock`, `InvalidChainFound`, `LoadBlockIndex` | pool, wallets, explorer (called inside) |
| Orphan blocks (`main.cpp`) | `mapOrphanBlocks`, `mapOrphanBlocksByPrev`, `setStakeSeen`, `setStakeSeenOrphan` | `ProcessBlock`, `PruneOrphanBlocks` | best chain (`AcceptBlock`) |
| Memory pool and orphan transactions (`main.cpp`) | `mapTx`, `mapNextTx`, `mapOrphanTransactions`, `mapOrphanTransactionsByPrev` | `accept`, `addUnchecked`, `remove`, `removeConflicts`, the `tx` message, `LimitOrphanTxSize` | best chain, wallets |
| Block template (`src/miner.cpp`) | priority queue, `COrphan`s, `mapDependers`, `nFees`, KAWPOW template cache | `CreateNewBlock`, `StakeMiner`, `CheckWork` | pool, index |
| Money supply (`main.cpp`, `src/colors.cpp`) | `vMoneySupply`, `vTotalMint` of each block | the accounting part of `ConnectBlock`, the reward functions | template (scavengable fees) |
| Wallet (`src/wallet.cpp`) | `mapWallet`, spent flags, balance maps, key pool, encrypted keys | `AddToWallet`, `CreateTransaction`, `CommitTransaction`, `ReconcileBalances`, `EncryptWallet` | called by the chain and the pool |
| Peers (`src/net.cpp`, `main.cpp`) | `vNodes`, `mapAskFor`, `mapAlreadyAskedFor`, inventories, ban list | `ProcessMessage`, `SendMessages`, the connection threads | everything |
| Address manager (`src/addrman.*`) | new and tried tables | `Add`, `Good`, `Attempt`, `Select` | peers |
| Secure messaging (`src/smessage.cpp`) | buckets, outbox, key database | `smsg*` messages, its two threads | peers, wallet |
| Explore index (`src/explore/`) | a second LevelDB | `ExploreConnectBlock`, `ExploreDisconnectBlock` | called by the chain |
| Scripts, stake kernel, difficulty, checkpoints, alerts, RPC, start and shutdown | little of their own | pure checks, I/O | |

`PROJECT.json` lists every part, the ones that are not modelled with the reason.

**What is hard.** Almost all of the chain's code runs under `cs_main`, so what
interleaves with it is a crash; only the wallet has a thread and a command that hold
their own lock alone, and a mining thread reads the best block without any. The chain is recorded four times
(`hashBestChain` and the index on disk, the `hashNext` records, `pnext`,
`mapBlockLookup`), by different code for an extension, for a reorganisation and for
the blocks that follow it, with batches committed at different points. Blocks and
transactions arrive in any order, which is what the two orphan stores are for.
Reorganisations change the ground under the pool and the template. The wallet and the
explorer are told of a block while the chain's batch is still open, and commit at once:
when the reorganisation is then given up, nobody takes it back. Requests to peers are
spread over time by one map that all peers share. The sums of coins overflow their
64 bits. The full list is under "hazards" in `PROJECT.json`.

**What makes it correct.** The index on disk is the replay of one valid chain; the four
records agree; the heaviest valid chain is followed; a restart loses nothing. The pool
holds no double spend and nothing that is in the chain. Nothing waits for a parent
that is there. A block that the node assembles is one that the node accepts. The
explorer's index and the wallet's record are those of the chain followed. What a peer
announces and is willing to send is obtained. No more coins exist than were emitted.

## 2. Modules

| Module | Models | State and actions |
|---|---|---|
| `ChainState` | index and best chain | `diskX` is LevelDB, `viewX` what is read through the open batch, the rest is memory under the code's names. `AddToBlockIndex` writes the record and decides whether `SetBestChain` is called; `ExtendBest`/`ExtendFails` are `SetBestChainInner` on the old tip; `BeginReorganize`, `ReorganizeDisconnect`, `ReorganizeConnect`, `ReorganizeFails`, `ReorganizeCommit` are `Reorganize` up to the intermediate block; `SecondaryConnect`/`SecondaryFails` the blocks after it, one batch each; `NewBestBlock` the end; `Restart` a crash at any point followed by `LoadBlockIndex`. |
| `BestChain` | what the block store promises | abstract: a set of known blocks, the best one, the transaction index of exactly its chain. `Receive` makes a block known, `Adopt` moves to a known valid block of more trust, index and all, in one step. |
| `ChainRefinement` | `ChainState` implements `BestChain` | the refinement mapping (the abstract state is what LevelDB holds) and the properties that state it, with and without crashes. |
| `MemPool` | pool, orphan transactions | extends `ChainState`: every chain action is conjoined with what the same function does to the pool; `SubmitTx` (RPC, wallet), `ReceiveTx`, `ReceiveOrphanTx` and the work queue of the `tx` message (`AcceptOrphan`, `RefuseOrphan`, `NextInQueue`, `EraseOrphans`). `Poolable` are the checks that `accept` makes before it fetches the inputs; the later ones (standard and mature inputs, scripts, fee, the limit on free transactions) may refuse a transaction at any time, so an orphan that is held may turn out cheap or invalid, and what a reorganisation puts back is not asked for them. `setKnown` is what the wallets were told. |
| `BlockTemplate` | `CreateNewBlock` | extends `MemPool`: `ReadBest` (the caller, without a lock), `BeginTemplate`, then one action per transaction taken (`AddTx`) or left out (`LeaveOutTx`, at any time: size, signature operations, fee, maturity, scripts), `EndTemplate`, and `CheckWork` when the block is solved; other threads run between reading, collecting and solving, none while the locks are held. A dangling `COrphan` pointer (undefined behaviour) is a nondeterministic choice. Amounts, `nFees` included, are left out. |
| `Wallet` | transactions, spent flags and balances of `wallet.cpp` | extends `MemPool`: every chain and pool action with what it makes the wallet do, from inside the open batch. `mapWallet` is memory and `wallet.dat` in one, since every change is written at once; `balance` are the five balance maps, `changes` what `SetBestChain` or `Reorganize` adds up to apply at its end. Of its own: `CommitTransaction`, `ReconcilerCounts` and `ReconcilerStores` (the thread's full count and its assignment after the lock is given up), `FixSpentCoins` (`repairwallet`), and startup: `WalletRestart` (load, and `vScan`, the blocks from the locator up), `ScanBlock` for one of them after the other, `FillSnapshot`, then beside everything else `ReacceptWalletTransactions`; `startup` says which has come. `WalletConnectBlock` is `ConnectBlock` up to the wallets, `SyncWithWallets` then tells of one transaction of the block after the other (`untold` are the others, `connecting` the block), and only then does the chain's action commit or go on; thread and command run in between, as they hold `cs_wallet` alone. The step that commits also adds `changes` to the balances: the wallet's own threads cannot tell the two apart, as the module's comment says. The order inside a block is any in which a transaction comes after those it spends from, which are the blocks that `ConnectBlock` accepts. |
| `Explore` | the explore index | extends `ChainState`: `exploredb` is the second LevelDB record by record, `exploreBest` its best-block record, `mapAddressBalances` the counts in memory. Each chain action that connects or disconnects a block brings the index along, input by input and output by output with the early returns of each function; `ExploreReorganizeRefused` is a block that cannot be disconnected; `ExploreRestart` and `RestartAheadOfChain` a crash after, or between, the two commits with the rebuild that `AppInit2` decides on. `Built` is the index made from nothing along the branch of each block, `LastLinked` the block at which the rebuild's walk along `pnext` ends. |
| `Sums` | sums over sets | the loops of wallet and explorer that add amounts up: a sum over a set along an order that lists its members, written as a recursive function. |
| `AskFor` | requests for announced objects | `mapAlreadyAskedFor` and each peer's `mapAskFor`, requests sent and not answered, orphans held and the stakes seen with them. `ReceiveInv`, `AnswerGetBlocks`, `SendMessages` (the getdata loop), the ways an answer may be received (`Answer`: accepted, held as an orphan, known already, or refused because another block has its stake; a peer that is silent takes none of them), `Disconnect`, `EvictOrphan`, and `Tick`, the clock. |
| `OrphanBlocks` | `ProcessBlock` | `HoldOrphan` with its pruning, `AcceptBlock`, `AcceptBlockFails`, `TryOrphan`, `NextInQueue`, `Restart`. |
| `MoneySupply` | accounting in `ConnectBlock` | `ConnectPow`, `ConnectPos`, with `vTotalMint` kept in its width. `vEmitted`, `vBurned`, `vWraps` are history variables. |
| `ChainState_proofs` (with the refinement), `OrphanBlocks_proofs`, `MoneySupply_proofs`, `MemPool_proofs`, `BlockTemplate_proofs`, `Wallet_proofs`, `Explore_proofs`, `AskFor_proofs` | theorems | see section 5 |
| `MC*` | constants for TLC | |

**Abstractions.** A transaction has one output, named by the transaction itself; `Spends` is
its set of inputs. Everything about a block or a transaction that depends on nothing but
itself and its ancestors (signatures, colours, maturity, amounts, proof of work) is a
constant set (`Rejected`, `Poolable`, `Large`) or, where the verdict depends on more, left open. The trees are constants
(`Parent`, `Height`, `Trust`, `Chain`) with the assumptions a block chain meets:
a child is one higher and has more trust than its parent. A coinbase carries its
height, so it occurs once in a branch (`CoinbaseAssumption`). A
restart leaves out the repair that `LoadBlockIndex` makes when the block files are
damaged. The random choice of an orphan to evict is open, and so is the order of the priority
queue. In `MoneySupply` the reward schedule is a constant and a block is three
amounts per colour.

The wallet has one colour; watch-only, stealth and multisignature outputs, accounts and keys
are left out. In `Explore` an output pays one address, and a numbered record together
with the quantity that counts it is a sequence: the code writes the two together. Outputs
without an address and the record of the transaction itself (`WriteExploreTx`), which no
other record refers to, are left out; `vtx` and
`vin` give the orders in which a block's transactions and a transaction's inputs are worked
through, and a block that `ConnectBlock` accepts has no transaction before one that it spends
(`ExploreAssumption`). The orders that sums are taken along are constants that list every
transaction once; no property depends on which. In
`AskFor` times are relative to now and a tick is two minutes divided by `Retry`; a time so
far in the past that it no longer matters is kept at the last value that does; every peer has a
set of objects that it can announce and send (`Has`), all of them valid but for a block whose
stake another one has, and the node is past its initial download.

Operators named as mutants are variants that stand for a plausible bug next to the
definition they vary; no specification uses them. With one in place of the original,
TLC reports the property that `PROJECT.json` pairs it with.

## 3. Runs

| Run | Shows |
|---|---|
| `chain_nocrash` | Ten blocks in every order, two forks, a double spend and a refused block: the index on disk replays the best chain (`DiskIsReplayOfBest`), the four records agree (`MemoryAgreesWithDisk`), the heaviest valid chain is followed (`BestIsHeaviest`), the trust shown in warnings is that of a really invalid branch (`InvalidTrustIsReal`), the best block only gains trust (`BestTrustGrows`), and a valid block is eventually matched (`ValidBlockIsMatched`). `ImplementsBestChain`: all of it together implements `BestChain`, liveness included. |
| `chain_crash` | The same tree, invalid blocks included, with a crash between any two steps. `OnlyNonFatalFailureBreaks`: of all steps only the failure of a further block after a committed reorganisation ends the agreement of memory, records and index. `StepsImplementBestChain`: until then every commit is one whole move to a heavier valid chain. `RestartFindsEveryBlock`: `LoadBlockIndex` always finds every record it follows, even after that failure. |
| `chain_nonfatal` (violation) | `BestChainIsValid`: see findings. |
| `pool` | Arrivals, a reorganisation that moves a transaction between branches, a refused block and crashes. `PoolHasNoDoubleSpend`: `mapNextTx` names exactly the spenders in the pool. `PoolStaysOutsideChain`: while memory and disk agree, no step brings a transaction into both pool and chain. `OrphanMapsAgree`: the two orphan maps agree and are bounded. `OnlyKnownOrphansHideOthers`: the `tx` handler tries every orphan that has become acceptable, except behind an orphan that pool or chain already hold. `OnlyReorganizeStrands`: only a reorganisation leaves transactions in the pool whose inputs are gone. `OnlyOrphansEscapeWallets`: while memory and disk agree, only an orphan accepted after its parent gets into the pool without the wallets being told. |
| `template` | `TemplateConnects`: although the pool may hold transactions that nothing supports, and although the best block is read before the locks are taken, the transactions of a block that is not found stale connect to the best chain. This is about the inputs of all transactions but the coinbase, whose amounts are not stated. `EveryReadyTxIsTried`: the loop ends only when every final pool transaction whose inputs are in the index or in the block has been tried, however they wait for each other. |
| `orphans` | Three blocks with one stake, failures before and after a block is indexed, pruning and restarts. `OrphanMapsMatch`: the two orphan maps hold the same blocks. `NoOrphanLeftBehind`: none waits for a block that was accepted. `OrphanStakeIsHeld`: no stake is remembered without an orphan that has it. `OnlySharedStakeIsForgotten`: the other direction holds until another orphan of the same stake is tried or pruned. |
| `money` | `SupplyWithinEmission`, `ScavengeIsPositive`: supply never exceeds emission, whatever is scavenged, lost, burnt, overflowed or reset. |
| `money_reset` (violation) | see findings. |
| `explore` | `OnlyFailedReorganizeDrifts`: disconnecting undoes connecting record for record, a restart heals whatever a crash has left, and only a reorganisation that gives up makes the index differ from the one built from nothing. `ExploreMatchesTxIndex`: balances, rich list and lookups are those of the transaction index. `OnlyRestartLosesRichList`: the counts in memory follow the sets on disk but for a restart without rebuild and a dropped batch. |
| `explore_fetch` (violation) | see findings. |
| `wallet` | `OnlyAbandonedReorganizeMisleads`: only a reorganisation that is given up (or cut off by a crash) makes the wallet place a transaction in a block that is not in the chain, miss one, or take a coin for unspent that the chain spends, but for `repairwallet`, which looks at the disk while a batch is open, that of a plain extension included; a crash in the middle of the rescan does no harm, since the next one starts no higher. `ConfirmedKeepsUp`: which steps let the confirmed balance, kept by adding and subtracting, go wrong, and that no other does. `OnlyConfirmationReopens`: a coin that the pool spends is offered again only when the wallet is told of its own transaction in a block or scans it, when a coinstake that spends it too is disconnected, or by `repairwallet` (or when the wallet hears of it only after its spender). |
| `askfor` | `AnnouncedIsObtained`: what a responsive peer has announced is obtained, however many others announced it before and kept silent, unless it is a block and another has its stake. `AncestorIsFetched`: so is the block that an orphan of it waits for, even if it was refused before for its stake, unless the orphan is evicted meanwhile. `OnlyDisconnectPutsOffInVain`: the shared map makes a peer wait only for a request that is really queued, unless the peer that had it has disconnected. |

Many of these say *only*: the code does not keep the plain invariant, and the property
names exactly the steps at which it is lost. Any other step that lost it would be reported.

**Bounds and why they are enough.** The chain's tree has branches that fork at genesis
and again above it, of different lengths, with equal trust on two of them, the same
transaction in both and a transaction that double spends, so that reorganisations
happen in both directions, fail at their end and in the middle, and leave further
blocks to connect. The pool's tree has the same shape with one transaction in
both branches, two conflicting pairs (one on an output of a block, one on
an output of an orphan's parent), a chain of three and two places for orphans, so that eviction happens. The
template's has a pool transaction that depends on two others, one that depends on it and on a
coinbase that is reorganised away, and a conflicting pair. `MaxOrphanBlocks` is 2 of 6 blocks. In `money`, `Half` (2^63) is 4 and
the largest reward 3, so that `vTotalMint` wraps in two blocks; four blocks
reach both forks at which rules change. The theorems of section 5 do not depend on
any of these bounds.

The explorer's tree has a self-stake, a transaction with two inputs of one address, a
block with a chain of two, a branch that fails after two disconnects and two connects, and
one refused by `ConnectBlock`. The wallet's has a coin with two competing spends (a
payment, in either branch, and a stake), a transaction and its child in one block
on one branch and in two on the other, a coinbase that matures after one block, and a
reorganisation that fails half way; `Reconciler` runs once (`MaxReconciles`), at any
moment. Its `VIEW` leaves out the balances and the set `setKnown`, which no guard and no
property of that run reads. In `askfor` one peer is honest and one may do anything; there are a
block, its child, a transaction that spends from it, and a block of the other peer with the same
stake, so that the first is refused when the second came before it. `MaxAsks`, how often an
object may be put off, lets the first block, on which all others depend, be put off beyond one
retry; `Retry` is 1.

**Deadlock** is checked except in `chain_nocrash` (all blocks have arrived) and in the
money runs (`MaxHeight` is reached).

**Fairness.** `chain_nocrash` assumes weak fairness of `SetBestChain`, one call under
one lock that has no wait in it; whether blocks arrive at all is not assumed. `askfor`
assumes that the clock runs, that `SendMessages` is called for every connected peer again
and again, which is the loop of `ThreadMessageHandler2`, and that an honest peer, which is
what the word means there, answers each request. Nothing makes a peer announce
anything or answer a `getblocks`.

## 4. Findings

- `chain_nonfatal` (`main.cpp:3954`): a block after the intermediate one that fails to
  connect is "not fatal", but `pindexBest` is then set to the branch's end although the
  chain on disk stops below it. It takes a crash between the commit of a block's
  record and `SetBestChain` to get there; the theorem `NoCrashSafety` shows it is
  unreachable otherwise, and `CrashAgreement` that nothing else breaks the agreement.
- `money_reset` (`main.cpp:2913`): the reset of a negative `vTotalMint` is lost when the
  first block of BRK_FORK005 is staked with a card.
- `explore_fetch` (`explore/explore.cpp:1973`): with `-exploreapi`, a block in which one
  transaction spends another cannot be disconnected, since its transactions have left
  the index by the time their inputs are looked up; the heavier branch is refused.

The properties that say *only* record further behaviour that a reader of the code may not
expect:

- Pool: a reorganisation puts transactions back, and leaves others in place, without a
  look at their inputs (`main.cpp:3388`), which `miner.cpp:407` says "should never happen".
  The wallets are told of the parent twice in place of an orphan that is accepted
  (`main.cpp:6143`). Fees of a transaction that is then left out are claimed by the
  coinbase (`miner.cpp:585`), which may make the block one that `ConnectBlock` refuses. An orphan that was meanwhile confirmed or submitted directly is
  refused when its parent arrives, and the orphans that wait for it are not looked at
  (`main.cpp:6149`). After a further block has failed (finding `chain_nonfatal`), a block
  that extends it is connected while its transactions stay in the pool, and a
  reorganisation away from it puts transactions into the pool that no wallet was told of.
- Orphan blocks: one more than `-maxorphanblocks` is kept, since `ProcessBlock` prunes before it
  adds (`main.cpp:1389`), although `main.h:58` calls the setting the "maximum number of orphan
  blocks kept in memory"; `setStakeSeenOrphan` is a
  set although two orphans may share a stake, so that removing one forgets the stake of
  the other.
- Explorer: after a reorganisation that fails, the next block connected names itself as
  the index's best block, so that the check at startup no longer sees that the index
  has drifted. `mapAddressBalances` is empty after a restart without rebuild.
- Wallet: when a transaction is confirmed, confirmed again in another branch, or found by
  the rescan, its outputs are marked unspent (`wallet.cpp:586`), also if a transaction of
  the pool spends them, and `ReacceptWalletTransactions` does not mark them again. Such a
  coin is then offered, and `CommitTransaction`, which "must not fail", records a
  transaction that the pool refuses. The confirmed balance goes wrong when a block
  holds a coin of the wallet and its spender (sent amounts are computed before the block
  is connected), when several further blocks follow a reorganisation (their maps of
  changes are declared outside the loop and added again each time,
  `main.cpp:3817-3995`), and when `Reconciler` stores a count that is out of date by then. Unconfirmed balances lose the amount of a transaction
  that is confirmed without having been in the pool, and never regain that of one which is put
  back. A coin that came as an orphan, of which the wallet was not told, is open when it is heard
  of at last, although a transaction of the wallet spends it: the attempt to prove
  `OnlyConfirmationReopens` showed that the property needs this exception. The instance
  of the run is too small for it; it takes a chain of three transactions of the wallet whose
  middle one is such an orphan.
- Requests: "Each retry is 2 minutes after the last" (`net.h:333`) is not kept, because the
  getdata loop sets the shared time back while later requests are queued. An entry for
  an object held as an orphan is dropped, and the object is not asked for again when the
  orphan is evicted, until somebody announces it. The direct request for the ancestor of an
  orphan is there because the ancestor may have been refused for its stake (`main.cpp:4854`); an
  orphan that is evicted before the answer comes no longer speaks for it, and it is refused again.
- `repairwallet` run by a user during a plain extension, after the wallet was told of the block and
  before its commit, opens the coins that the block spends: it reads the index without `cs_main`.

## 5. Proofs

TLAPS checks the following for every value of the constants that meets the assumptions
(`TreeAssumption`, `ChainAssumption`, `TxAssumption`, `CoinbaseAssumption`,
`BlockAssumption`, `MaxAssumption`, `MoneyAssumption`, `PoolAssumption`,
`AskForAssumption`, `WalletAssumption`, `ExploreAssumption`). Some have the premise `FurtherBlocksConnect`: no block that follows
the intermediate one of a reorganisation fails. That is the one step after which
memory and disk may disagree (`CrashAgreement`, finding `chain_nonfatal`); the
premise stands for "up to that failure", since each of these theorems is about states
before it, and `NoCrashSafety` shows that without a crash it never happens.

- `ChainState_proofs!NoCrashSafety`, `NoCrashTrust`: without crashes and with any invalid
  blocks, `TypeOK`, `DiskIsReplayOfBest`, `MemoryAgreesWithDisk`, `BestIsHeaviest`,
  `InvalidTrustIsReal` and `BestTrustGrows`.
- `ChainState_proofs!CrashSafety`: with crashes, when every branch is valid,
  `TypeOK`, `DiskIsReplayOfBest`, `MemoryAgreesWithDisk` and `RestartFindsEveryBlock`.
  The inductive invariant is `ChainInv`: `DiskIsReplayOfBest` alone says nothing about
  the open batch, so `BatchInv` adds that it replays the branch of `tip`, which stays
  between the two branches' fork and their ends; `RecordsInv` that the three records
  follow the block on disk even while `pindexBest` lags behind; `WorkInv` what
  `SetBestChain` was called for. Without crashes `HeaviestInv` adds that the only
  branch that may be valid and heavier is the one being worked on. The lemmas are about
  trees (an ancestor is reached by one path, the fork of two branches) and about the
  index: connecting a block to the replay of its parent gives its own replay, and
  disconnecting undoes it exactly.
- `ChainState_proofs!NoCrashRefinement`: without crashes `ChainState` implements
  `BestChain!SafeSpec`. Each commit of `ExtendBest`, `ReorganizeCommit` and
  `SecondaryConnect` maps to `Adopt`, `AddToBlockIndex` to `Receive`, every other step to a
  stutter; `ChainInv` gives that what is committed is the replay of a valid branch.
- `ChainState_proofs!CrashRefinement`, `CrashAgreement`: with crashes and invalid blocks
  anywhere, `StepsImplementBestChain` and `OnlyNonFatalFailureBreaks`. Each action
  is shown to keep `ChainInv` by itself, without assuming that all branches are valid.
- `ChainState_proofs!RecordsFound`: `RestartFindsEveryBlock` also after the failure that
  breaks `ChainInv`, from a weaker invariant about the records alone.
- `ChainState_proofs!CrashTypes`, `AgreementInvariant`: with crashes and invalid blocks
  anywhere, `TypeOK` past every failure, and under `FurtherBlocksConnect` also
  `DiskIsReplayOfBest` and `MemoryAgreesWithDisk`. They are what the proofs about pool and
  template take from the chain.
- `MemPool_proofs!NoDoubleSpend`, `OrphansAgree`: `PoolHasNoDoubleSpend` and
  `OrphanMapsAgree`, unconditionally. The first is inductive together with
  the types of the two maps (`PoolInv`); the lemmas `WithNames` and `WithoutNames` carry it through `addUnchecked` and
  `remove`, and `Reorganize` is a composition of the two. It does not use that the chain is
  valid: putting back the transactions of an invalid chain is covered too.
- `MemPool_proofs!HandlerForgetsNone`: `OnlyKnownOrphansHideOthers`. It rests on `OrphanMapsAgree`: the
  orphans of a queue entry are exactly those listed under it, so one that an accepted orphan makes
  acceptable waits behind the entry that was just appended. `QueueInv` adds that nothing
  is left in the handler's lists between two messages.
- `MemPool_proofs!PoolStaysApart`, `PoolApart`: `PoolStaysOutsideChain`, and under
  `FurtherBlocksConnect` the invariant `PoolIsOutsideChain`. The replay of a chain has
  exactly the transactions of its blocks (`IndexAbsent`), and a transaction is in one
  block of a valid chain (`OneBlock`), so what a reorganisation puts back is deleted again
  if the new branch has it.
- `MemPool_proofs!ReorganizeStrands`, `WalletsHear`: `OnlyReorganizeStrands` without a premise,
  `OnlyOrphansEscapeWallets` under `FurtherBlocksConnect`; the second rests on `KnownInv`, that
  the wallets know every transaction of the chain on disk and of the open batch.
- `BlockTemplate_proofs!EveryTemplateConnects`, `EveryTxTried`: `TemplateConnects` under
  `FurtherBlocksConnect` and `EveryReadyTxIsTried` without it, for every pool, every order of
  the priority queue and whatever the dangling pointer leads to. `ConnectsInv` says
  that what has been taken connects one after the other to the index of the best
  chain; that the pool's transactions may have lost their inputs is no obstacle, since
  `MinerConnects` looks at every input again. `WaitsInv` says that a transaction waits for exactly
  those of its inputs that are neither in the index nor in the block yet.
- `Wallet_proofs!WalletFollows`, `SpentStaysMarked`: `OnlyAbandonedReorganizeMisleads` and
  `OnlyConfirmationReopens` under `FurtherBlocksConnect`, with crashes at any point, a
  scan included. `WalletInv` says that the wallet has every transaction that concerns it
  of the chain on disk and of the open batch (`Holds`), which the properties do not say
  and without which neither a block nor a scan would recognise what spends its coins;
  that a transaction is placed only in a block that holds it (`Placed`), so that
  disconnecting a block leaves the places of all others right; and that what a scan has
  still to read is closed upwards and part of what a restart would read (`ScanInv`). A
  coin that the scan unmarks is marked again because its spender lies in the same block
  or above it (`SpenderAbove`). `ConnectingInv` says which block is being told of, that it
  connects, and that what the wallet has been told of it spends nothing that it has still to be told
  of. Every step beside the scan is of one of six kinds (`Kinds`: the chain stands still, a block is
  connected, the wallet is told of a transaction of it, a block is disconnected, a
  reorganisation is given up, or `repairwallet` runs), and the two properties are shown kind by kind.
- `Wallet_proofs!ConfirmedBalanceHolds`: `ConfirmedKeepsUp` under `FurtherBlocksConnect`. Each step
  that moves the chain changes `mapConfirmed`, with what the open batch has added up, by exactly
  the difference between the wallet's unspent outputs in the two chains (`TotalMoves`):
  what a block adds less what it spends, which is right because the wallet knew every coin before the
  transaction that spends it (no step of `KnowsLate`). Every other step leaves both alone
  (`TotalKept`), and a full count gives the value of the chain when nothing is astray. It
  takes `WalletInv`, that the wallet holds what concerns it, and `MoneyInv`, that nothing is
  left over from an earlier batch when `SetBestChain` begins.
- `Explore_proofs!RichListFollows`: `OnlyRestartLosesRichList`, unconditionally. Every step of the four
  functions notes each balance whose set it may have changed (`Notes`), so that
  `UpdateMapAddressBalances` recounts all of them (`AfterTxCounts`), also where a set cannot be removed
  or holds the address already. The invariant `RichInv` adds what of
  the chain's records survives even the failure that breaks `ChainInv` (`LinkInv`): the pointers from
  genesis form one path, so the rebuild's walk ends.
- `Explore_proofs!ExploreFollowsChain`: `OnlyFailedReorganizeDrifts`, unconditionally. For one address,
  `ExploreDisconnectInput` undoes `ExploreConnectInput` and `ExploreDisconnectOutput` undoes
  `ExploreConnectOutput` (`SpendUndone`, `ReceiveUndone`), then for the whole index
  (`InputUndone`, `OutputUndone`), a transaction, and a block in reverse order. None of it holds
  for an arbitrary index: each function returns early when a record is not what it expects.
  `Good(e, idx)` is what rules that out, and is carried through every connected transaction: every
  output of the transaction index is recorded under its number with its spender, a balance is the sum of
  the unspent outputs of its address, the rich list ranks exactly the balances above dust, and
  the lists by transaction start with records that exist. It is the index of a valid block's
  parent that is `Good`, which is why the property speaks of a consistent chain (`ChainInv`).
- `Explore_proofs!ExploreMatches`: `ExploreMatchesTxIndex` under `FurtherBlocksConnect`. The index built
  along a valid branch is `Good` for the replay of that branch (`BuiltGood`, up the block
  tree), and the chain's batch is such a replay. Without the premise the index on
  disk need not be the replay of any chain.
- `Explore_proofs!ExploreInSync`: from the two, when no reorganisation gives up either, the index is
  always that of the chain, crashes between its commits and the chain's included.
- `AskFor_proofs!WaitsAreForRequests`: `OnlyDisconnectPutsOffInVain`. The shared time of an
  object moves forward only together with a request queued for it, and `SendMessages` drops a
  request only when its time has come; `TimesInv` has the types that the arithmetic needs.
- `OrphanBlocks_proofs!OrphanSafety`, `StakesAreRemembered`: `TypeOK` and the invariants of the run
  `orphans`, and `OnlySharedStakeIsForgotten`. The strengthening says which orphans the work queue
  still owes a try.
- `MoneySupply_proofs!MoneySafety`: `SupplyWithinEmission` and `ScavengeIsPositive`, for every schedule of rewards and every width. `TotalMintInv`
  relates supply and emission to what `vTotalMint` would be without its width.

Every safety invariant and every action property that a passing run checks is stated by
one of these theorems. Sums, loops over a block's transactions and the index along a branch are recursive
functions, and the library's theorems about induction cannot be used by the provers at
hand. They are replaced by two lemmas about sets: one that a set of numbers with 0 and the successor of
each member below n is all of `0..n` (`Counting`), one that a set of blocks that is not empty has a lowest
one (`LowestBlock`). From the first follows that a function with the given recursion exists
(`SumExists`, `LoopExists`), which is what makes the definition mean what it says, and from then on
only one round of the recursion is used at a time.

Only model-checked: liveness, which is out of the prover's reach: `ValidBlockIsMatched`, the
fairness part of `ImplementsBestChain`, `AnnouncedIsObtained`, `AncestorIsFetched`. So are, of course, the
three violations.

## 6. Plan

1. Done: `ChainState`, `OrphanBlocks`, `MemPool`, `BlockTemplate`, `MoneySupply`, the
   abstract `BestChain` and the refinement, `Explore`, `Wallet`, `AskFor`, and the proofs
   above, which cover the safety properties of all of them.
2. Modules that are left: `KeyPool` (reserve, keep, return, top up, encryption),
   `TemplateCache` (KAWPOW templates of `miner.cpp` and `rpcmining.cpp`), the amounts of the
   template (`nFees`, scavenging), `AddrMan`, secure-message buckets.
3. Pure functions: reward schedule, difficulty, stake-modifier selection, against
   reference definitions on small inputs.

## 7. Not modelled

Cryptography, scripts and proof-of-work arithmetic (their verdicts are constants), sockets
and name lookup, Berkeley DB files, the graphical client, RPC formatting, and vendored
code. `checkqueue.h` is used by no other file. Of the hazards, the template cache, the key
pool, wallet encryption, the number of orphan blocks kept, the fees that a coinbase claims for
transactions left out, and the template's own fee arithmetic at the first block of BRK_FORK005 are
listed without a property.

Most of the repository's code is not the client's own: tor, leveldb, ethash, hamsi and the
other hash functions, lz4, xxhash, json and bip32 make up by far the larger part of its
lines. The models cover the part of `main.cpp`, `wallet.cpp`, `miner.cpp`, `net.*`,
`init.cpp`, `txdb-leveldb.*` and `explore/` that keeps the state described above, and nothing of
the vendored code.
