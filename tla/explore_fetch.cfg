SPECIFICATION ExploreSpec
CONSTANTS
    Block <- MCBlock
    Genesis = "g"
    NoBlock = NoBlock
    Parent <- MCParent
    Chain <- MCChain
    Height <- MCHeight
    Trust <- MCTrust
    Tx <- MCTx
    Absent = Absent
    Unspent = Unspent
    Spends <- MCSpends
    Txs <- MCTxs
    Rejected = {"c4"}
    Addr = {"A", "B"}
    AddrOf <- MCAddrOf
    Value <- MCValue
    vtx <- MCvtx
    vin <- MCvin
    Wash = {"s"}
    MaxDust = 1
    HashOrder <- MCHashOrder
INVARIANTS
    DisconnectFetchesInputs
