------------------------------- MODULE Explore -------------------------------
(***************************************************************************)
(* The explore index of explore/explore.cpp (-exploreapi) composed with    *)
(* the best chain.  ConnectBlock and DisconnectBlock bring it up to date   *)
(* in a database and a batch of its own, committed block by block while    *)
(* the chain's batch is still open; init.cpp rebuilds it when it does not  *)
(* end in the chain's best block.                                          *)
(*                                                                         *)
(* Per address the index keeps what it received and spent as numbered      *)
(* records (ADDR_TX_OUTPUT, ADDR_TX_INPUT, ADDR_TX_INOUT, ADDR_LIST_VIO), a*)
(* balance and two totals, and per balance the set of addresses (the rich  *)
(* list).  A numbered record with its quantity is a sequence here: the two *)
(* are always written together.  Every output here pays one address (others*)
(* are skipped by the code), and the record of the transaction itself,     *)
(* written and removed blindly, is left out.  The functions that handle one input or    *)
(* output return early when a check fails, with what they have written so  *)
(* far, and their result is ignored: each is a chain of cases in the order *)
(* of its checks.                                                          *)
(***************************************************************************)
EXTENDS ChainState, Sums, SequencesExt, FiniteSets

CONSTANTS
    Addr, AddrOf,    \* the address that the output of a transaction pays
    Value,           \* its amount
    vtx,             \* CBlock::vtx in order
    vin,             \* CTransaction::vin in order
    Wash,            \* coinstakes that pay the address they spend from
    MaxDust,         \* ExploreMaxDust
    HashOrder        \* the transactions in the order of their hashes

\* ConnectBlock refuses a block in which a transaction stands before one that it spends.
ASSUME ExploreAssumption ==
    /\ AddrOf \in [Tx -> Addr]
    /\ Value \in [Tx -> Nat \ {0}]
    /\ \A b \in Block : Enumerates(vtx[b], Txs[b])
    /\ \A t \in Tx : Enumerates(vin[t], Spends[t])
    /\ \A b \in Block \ Rejected : \A j, k \in 1..Len(vtx[b]) :
          vtx[b][j] \in Spends[vtx[b][k]] => j < k
    /\ Wash \subseteq Tx
    /\ MaxDust \in Nat
    /\ Enumerates(HashOrder, Tx)

VARIABLES
    exploredb,            \* the index
    exploreBest,          \* the record exploreBestBlock
    mapAddressBalances    \* in memory: the pairs <<balance, number of addresses>>

exploreVars == <<exploredb, exploreBest, mapAddressBalances>>

\* An index: the records of each address, ADDR_LOOKUP_OUTPUT, the pairs <<balance,
\* address>> of ADDR_SET_BAL, and the balances whose set was written for the
\* transaction at hand.
Index(acct, lookup, rich, touched) ==
    [acct |-> acct, lookup |-> lookup, rich |-> rich, touched |-> touched]

EmptyAccount ==
    [outs     |-> <<>>,      \* ADDR_TX_OUTPUT: [tx, by]
     ins      |-> <<>>,      \* ADDR_TX_INPUT: [tx, prev]
     inouts   |-> <<>>,      \* ADDR_TX_INOUT: <<kind, number>>
     vio      |-> <<>>,      \* ADDR_LIST_VIO: in-outs by transaction
     balance  |-> 0,
     valueIn  |-> 0,
     valueOut |-> 0]

EmptyIndex == Index([a \in Addr |-> EmptyAccount], [t \in Tx |-> 0], {}, {})

-----------------------------------------------------------------------------
(* Helpers on the index e and on the records A of one address.             *)

Put(e, a, A) == Index([e.acct EXCEPT ![a] = A], e.lookup, e.rich, e.touched)

SetLookup(e, t, id) == Index(e.acct, [e.lookup EXCEPT ![t] = id], e.rich, e.touched)

\* Mutant: the address is not taken out of the set of its old balance.
MoveRichKeepsOld(e, a, old) ==
    LET new  == e.acct[a].balance
        came == {b \in {new} : b > MaxDust /\ <<b, a>> \notin e.rich}
    IN  Index(e.acct, e.lookup, e.rich \cup {<<b, a>> : b \in came},
              e.touched \cup {b \in {old} : b > MaxDust} \cup came)

\* The address moves from the set of its old balance to that of its new one.  If there is
\* no set for the old balance none can be removed, and the function returns; it also does
\* when the address is in the new set already.
MoveRich(e, a, old) ==
    LET new  == e.acct[a].balance
        left == e.rich \ {<<old, a>>}
        came == {b \in {new} : b > MaxDust /\ <<b, a>> \notin left}
    IN  IF old > MaxDust /\ \A r \in e.rich : r[1] # old THEN e
        ELSE Index(e.acct, e.lookup, left \cup {<<b, a>> : b \in came},
                   e.touched \cup {b \in {old} : b > MaxDust} \cup came)

\* The transaction that an in-out entry belongs to; Absent if there is no record.
TxOfEntry(A, io) ==
    LET recs == IF io[1] = "in" THEN A.ins ELSE A.outs
    IN  IF io[2] <= Len(recs) THEN recs[io[2]].tx ELSE Absent

\* List the in-out io with the others of transaction s, unless the list in question
\* begins with it (a check that fails).
Duplicate(A, io) == A.vio # <<>> /\ Head(Last(A.vio)) = io

AddToList(A, s, io) ==
    LET l == A.vio
        same == l # <<>> /\ TxOfEntry(A, Head(Last(l))) = s
    IN  [A EXCEPT !.vio = IF same THEN [l EXCEPT ![Len(l)] = Append(@, io)]
                          ELSE Append(l, <<io>>)]

\* The last in-out is io, and so is the end of the last list.
InOutIsLast(A, io) == A.inouts # <<>> /\ Last(A.inouts) = io
ListedLast(A, io)  == A.vio # <<>> /\ Last(Last(A.vio)) = io

DropList(A) ==
    LET l == A.vio
    IN  [A EXCEPT !.vio = IF Len(Last(l)) = 1 THEN Front(l)
                          ELSE [l EXCEPT ![Len(l)] = Front(@)]]

HasOutput(A, id, i) == id >= 1 /\ id <= Len(A.outs) /\ A.outs[id].tx = i

\* The output numbered id, of transaction i, is recorded as spent by s.
SetSpent(A, id, i, s) == [A EXCEPT !.outs = [@ EXCEPT ![id] = [tx |-> i, by |-> s]]]

-----------------------------------------------------------------------------
(* One input or output of transaction s.                                   *)

ConnectInput(e, s, i) ==
    LET a  == AddrOf[i]
        A  == e.acct[a]
        id == e.lookup[i]
        io == <<"in", Len(A.ins) + 1>>
        economic == s \notin Wash
        A1 == SetSpent(A, id, i, s)
        A2 == [A1 EXCEPT !.balance = @ - Value[i]]
        A3 == [[A2 EXCEPT !.ins = Append(@, [tx |-> s, prev |-> i])]
                   EXCEPT !.inouts = Append(@, io)]
        A4 == [AddToList(A3, s, io) EXCEPT !.valueOut = @ + Value[i]]
    IN  IF ~HasOutput(A, id, i) \/ A.outs[id].by # Unspent THEN e
        ELSE IF Value[i] > A.balance THEN Put(e, a, A1)
        ELSE IF economic /\ Duplicate(A3, io) THEN Put(e, a, A3)
        ELSE MoveRich(Put(e, a, IF economic THEN A4 ELSE A2), a, A.balance)

ConnectOutput(e, s) ==
    LET a  == AddrOf[s]
        A  == e.acct[a]
        id == Len(A.outs) + 1
        io == <<"out", id>>
        economic == s \notin Wash
        A1 == [[A EXCEPT !.balance = @ + Value[s]]
                  EXCEPT !.outs = Append(@, [tx |-> s, by |-> Unspent])]
        e2 == SetLookup(e, s, id)
        A3 == [A1 EXCEPT !.inouts = Append(@, io)]
        A4 == [AddToList(A3, s, io) EXCEPT !.valueIn = @ + Value[s]]
    IN  IF e.lookup[s] # 0 THEN Put(e, a, A1)
        ELSE IF economic /\ Duplicate(A3, io) THEN Put(e2, a, A3)
        ELSE MoveRich(Put(e2, a, IF economic THEN A4 ELSE A1), a, A.balance)

\* Mutant: the in-out stays listed under its transaction.
DisconnectOutputKeepsList(e, s) ==
    LET a  == AddrOf[s]
        A  == e.acct[a]
        A2 == [A EXCEPT !.outs = Front(@)]
        A3 == [A2 EXCEPT !.inouts = Front(@)]
        A5 == [A3 EXCEPT !.balance = @ - Value[s]]
        A6 == [A5 EXCEPT !.valueIn = @ - Value[s]]
    IN  IF e.lookup[s] < 1 THEN e
        ELSE MoveRich(Put(SetLookup(e, s, 0), a, A6), a, A.balance)

DisconnectOutput(e, s) ==
    LET a  == AddrOf[s]
        A  == e.acct[a]
        id == e.lookup[s]
        io == <<"out", id>>
        economic == s \notin Wash
        e1 == SetLookup(e, s, 0)
        A2 == [A EXCEPT !.outs = Front(@)]
        A3 == [A2 EXCEPT !.inouts = Front(@)]
        A4 == IF economic THEN DropList(A3) ELSE A2
        A5 == [A4 EXCEPT !.balance = @ - Value[s]]
        A6 == [A5 EXCEPT !.valueIn = @ - Value[s]]
    IN  IF id < 1 THEN e
        ELSE IF ~HasOutput(A, id, s) \/ Len(A.outs) # id \/ A.outs[id].by # Unspent THEN e1
        ELSE IF economic /\ ~InOutIsLast(A, io) THEN Put(e1, a, A2)
        ELSE IF economic /\ ~ListedLast(A, io) THEN Put(e1, a, A3)
        ELSE IF Value[s] > A.balance THEN Put(e1, a, A4)
        ELSE IF economic /\ Value[s] > A.valueIn THEN Put(e1, a, A5)
        ELSE MoveRich(Put(e1, a, IF economic THEN A6 ELSE A5), a, A.balance)

DisconnectInput(e, s, i) ==
    LET a  == AddrOf[i]
        A  == e.acct[a]
        id == e.lookup[i]
        io == <<"in", Len(A.ins)>>
        economic == s \notin Wash
        A1 == [A EXCEPT !.ins = Front(@)]
        A2 == [A1 EXCEPT !.inouts = Front(@)]
        A3 == IF economic THEN DropList(A2) ELSE A
        A4 == SetSpent(A3, id, i, Unspent)
        A5 == [A4 EXCEPT !.balance = @ + Value[i]]
        A6 == [A5 EXCEPT !.valueOut = @ - Value[i]]
    IN  IF economic /\ (A.ins = <<>> \/ Last(A.ins) # [tx |-> s, prev |-> i]) THEN e
        ELSE IF economic /\ ~InOutIsLast(A, io) THEN Put(e, a, A1)
        ELSE IF economic /\ ~ListedLast(A, io) THEN Put(e, a, A2)
        ELSE IF ~HasOutput(A, id, i) \/ A.outs[id].by # s THEN Put(e, a, A3)
        ELSE IF economic /\ Value[i] > A.valueOut THEN Put(e, a, A5)
        ELSE MoveRich(Put(e, a, IF economic THEN A6 ELSE A5), a, A.balance)

-----------------------------------------------------------------------------
(* Transactions and blocks.                                                *)

\* The index after each of the inputs of s, the last first when they are disconnected.
InputsConnected(e, s) ==
    LET x[k \in 0..Len(vin[s])] ==
            IF k = 0 THEN e ELSE ConnectInput(x[k - 1], s, vin[s][k])
    IN  x

InputsDisconnected(e, s) ==
    LET n == Len(vin[s])
        x[k \in 0..n] ==
            IF k = 0 THEN e ELSE DisconnectInput(x[k - 1], s, vin[s][n + 1 - k])
    IN  x

ConnectExploreTx(e, s) == ConnectOutput(InputsConnected(e, s)[Len(vin[s])], s)

\* Outputs before inputs.
DisconnectExploreTx(e, s) ==
    InputsDisconnected(DisconnectOutput(e, s), s)[Len(vin[s])]

\* The number of addresses with balance b.
CountOf(e, b) == Cardinality({r \in e.rich : r[1] = b})

\* Mutant: the count of a set that has become empty is kept.
CountsKeepsEmpty(e, m) ==
    LET now == {c \in e.touched : \E r \in e.rich : r[1] = c}
    IN  {p \in m : p[1] \notin now} \cup {<<b, CountOf(e, b)>> : b \in now}

\* UpdateMapAddressBalances after a transaction: the counts of the sets it wrote.
Counts(e, m) ==
    {p \in m : p[1] \notin e.touched} \cup
    {<<b, CountOf(e, b)>> : b \in {c \in e.touched : \E r \in e.rich : r[1] = c}}

\* A transaction has turned the index into e; m are the counts before it.
AfterTx(m, e) == [db |-> Index(e.acct, e.lookup, e.rich, {}), map |-> Counts(e, m)]

State == [db |-> exploredb, map |-> mapAddressBalances]

\* ExploreConnectBlock: the inputs are all in the index, where ConnectBlock has just
\* found them.  After each transaction:
TxsConnected(x, b) ==
    LET y[k \in 0..Len(vtx[b])] ==
            IF k = 0 THEN x
            ELSE AfterTx(y[k - 1].map, ConnectExploreTx(y[k - 1].db, vtx[b][k]))
    IN  y

ExploreConnectBlock(x, b) == TxsConnected(x, b)[Len(vtx[b])]

\* FetchInputs in ExploreDisconnectTx, once DisconnectInputs has been done for the
\* whole block: an output of the block itself is no longer in the index.
Fetches(b, s) == Spends[s] \cap Txs[b] = {}

\* How many transactions of b, counted from the last, come before the first whose
\* inputs cannot be fetched.
Fetched(b) ==
    LET n == Len(vtx[b])
    IN  CHOOSE m \in 0..n :
            /\ \A k \in 1..n : k > n - m => Fetches(b, vtx[b][k])
            /\ m < n => ~Fetches(b, vtx[b][n - m])

\* Those are disconnected, the last first.
TxsDisconnected(x, b) ==
    LET n == Len(vtx[b])
        y[k \in 0..n] ==
            IF k = 0 THEN x
            ELSE AfterTx(y[k - 1].map, DisconnectExploreTx(y[k - 1].db, vtx[b][n + 1 - k]))
    IN  y

ExploreDisconnectBlock(x, b) == TxsDisconnected(x, b)[Fetched(b)]

\* The last of the blocks that the pointers next lead to from genesis.
LastLinked(next) ==
    CHOOSE b \in Block : /\ next[b] = NoBlock
                         /\ \A x \in Chain[b] \ {Genesis} : next[Parent[x]] = x

\* The index and the counts built from nothing along the branch of each block.
Built[b \in Block] ==
    ExploreConnectBlock(IF b = Genesis THEN [db |-> EmptyIndex, map |-> {}]
                        ELSE Built[Parent[b]], b)

-----------------------------------------------------------------------------
(* The actions of ChainState with what they do to the index.               *)

SetExplore(x, b) ==
    /\ exploredb' = x.db
    /\ mapAddressBalances' = x.map
    /\ exploreBest' = b

ExploreInit ==
    /\ Init
    /\ exploredb = EmptyIndex
    /\ exploreBest = Genesis
    /\ mapAddressBalances = {}

\* Nothing is connected or disconnected.
ExploreUnchangedStep ==
    /\ \/ \E b \in Block : AddToBlockIndex(b)
       \/ ExtendFails \/ BeginReorganize \/ ReorganizeFails \/ ReorganizeCommit \/ NewBestBlock
    /\ UNCHANGED exploreVars

ExploreExtendBest ==
    /\ ExtendBest
    /\ SetExplore(ExploreConnectBlock(State, pindexNew), pindexNew)

ExploreReorganizeConnect ==
    /\ ReorganizeConnect
    /\ SetExplore(ExploreConnectBlock(State, tip'), tip')

ExploreReorganizeDisconnect ==
    /\ ReorganizeDisconnect
    /\ \A s \in Txs[tip] : Fetches(tip, s)
    /\ SetExplore(ExploreDisconnectBlock(State, tip), Parent[tip])

\* ExploreDisconnectBlock fails, and with it DisconnectBlock and Reorganize.  The
\* batch is dropped; what UpdateMapAddressBalances did in memory is not.
ExploreReorganizeRefused ==
    /\ pc = "reorganize"
    /\ tip \notin Chain[pindexIntermediate]
    /\ CanDisconnect(tip, viewTx)
    /\ \E s \in Txs[tip] : ~Fetches(tip, s)
    /\ InvalidChainFound(pindexNew)
    /\ TxnAbort
    /\ Finish
    /\ UNCHANGED <<diskVars, memVars, exploredb, exploreBest>>
    /\ mapAddressBalances' = ExploreDisconnectBlock(State, tip).map

ExploreSecondaryConnect ==
    /\ SecondaryConnect
    /\ SetExplore(ExploreConnectBlock(State, tip'), tip')

\* A further block that cannot be linked has been connected all the same.
ExploreSecondaryFails ==
    /\ SecondaryFails
    /\ LET b == StepTowards(tip, pindexNew)
       IN  IF CanConnect(b, diskTx) THEN SetExplore(ExploreConnectBlock(State, b), b)
                                    ELSE UNCHANGED exploreVars

\* At startup the index is rebuilt when it does not end in the best block, and used
\* as it is otherwise; mapAddressBalances is only ever filled by connecting blocks.
Heal(best) ==
    IF best = diskBest THEN [db |-> exploredb, map |-> {}, best |-> best]
    ELSE LET last == LastLinked(diskNext)
         IN  [db |-> Built[last].db, map |-> Built[last].map, best |-> last]

ExploreRestart ==
    /\ Restart
    /\ LET h == Heal(exploreBest) IN SetExplore(h, h.best)

\* The node stops after the explore index has committed a block and before the chain
\* has: the restart finds the index ahead of the chain.
RestartAheadOfChain ==
    /\ \/ /\ pc = "setbest"
          /\ Parent[pindexNew] = pindexBest
          /\ CanConnect(pindexNew, diskTx)
       \/ /\ pc = "secondary"
          /\ tip # pindexNew
          /\ CanConnect(StepTowards(tip, pindexNew), diskTx)
    /\ Restart
    /\ LET h == Heal(NoBlock) IN SetExplore(h, h.best)

ExploreNext ==
    \/ ExploreUnchangedStep
    \/ ExploreExtendBest
    \/ ExploreReorganizeDisconnect \/ ExploreReorganizeRefused \/ ExploreReorganizeConnect
    \/ ExploreSecondaryConnect \/ ExploreSecondaryFails
    \/ ExploreRestart \/ RestartAheadOfChain

allExploreVars == <<vars, exploreVars>>

ExploreSpec == ExploreInit /\ [][ExploreNext]_allExploreVars

-----------------------------------------------------------------------------
(* Safety.                                                                 *)

\* The block that the index should end in: inside Reorganize it follows the open batch.
Position == IF pc = "reorganize" THEN tip ELSE diskBest

InSync ==
    /\ exploreBest = Position
    /\ exploredb = Built[Position].db

\* Disconnecting a block undoes exactly what connecting it did, record for record,
\* and whatever is connected, disconnected, lost in a crash or rebuilt, the index is
\* the one built from nothing along the chain it should follow.  The only steps that
\* end this, while the chain itself is consistent, are those in which Reorganize gives
\* up: its batch is dropped, the index's are not.
OnlyFailedReorganizeDrifts ==
    [][ChainInv /\ InSync =>
          InSync' \/ ReorganizeFails \/ ExploreReorganizeRefused]_allExploreVars

SumOfValues(S) == SumAlong(HashOrder, Value, S)

\* While it is in step, the index agrees with the transaction index it is kept beside:
\* an address owns the unspent outputs that pay it, and the rich list ranks those
\* above dust.
ExploreMatchesTxIndex ==
    InSync =>
        /\ \A a \in Addr : exploredb.acct[a].balance =
              SumOfValues({t \in Tx : viewTx[t] = Unspent /\ AddrOf[t] = a})
        /\ exploredb.rich = {<<exploredb.acct[a].balance, a>> :
              a \in {x \in Addr : exploredb.acct[x].balance > MaxDust}}
        /\ \A t \in Tx : (exploredb.lookup[t] # 0) = (viewTx[t] # Absent)

\* getrichlist answers from mapAddressBalances: the number of addresses of every
\* balance.
RichListComplete ==
    mapAddressBalances = {<<r[1], CountOf(exploredb, r[1])>> : r \in exploredb.rich}

\* The index ends in the best block and is taken as it is.
RestartWithoutRebuild == ExploreRestart /\ exploreBest = diskBest

\* The counts in memory follow the sets on disk through everything but a restart that
\* does not rebuild, after which they are empty, and a batch that is dropped.
OnlyRestartLosesRichList ==
    [][ RichListComplete =>
            \/ RichListComplete'
            \/ RestartWithoutRebuild
            \/ ExploreReorganizeRefused ]_allExploreVars

-----------------------------------------------------------------------------
\* ExploreDisconnectTx says of inputs that cannot be fetched: "This should never
\* happen: couldn't fetch inputs".
DisconnectFetchesInputs ==
    pc = "reorganize" /\ tip \notin Chain[pindexIntermediate] =>
        \A s \in Txs[tip] : Fetches(tip, s)
=============================================================================
