SPECIFICATION WalletSpec
CONSTANTS
    Block <- MCBlock
    Genesis = "g"
    NoBlock = NoBlock
    Parent <- MCParent
    Chain <- MCChain
    Height <- MCHeight
    Trust <- MCTrust
    Tx <- MCTx
    Absent = Absent
    Unspent = Unspent
    Spends <- MCSpends
    Txs <- MCTxs
    Rejected = {"a2"}
    Poolable = {"t1", "t2"}
    Large = {}
    MaxOrphans = 1
    Mine = {"x", "t1", "s", "y"}
    Value <- MCValue
    Staking = {"s"}
    Authored = {"t1", "t2"}
    vtxPrev <- MCvtxPrev
    HashOrder <- MCHashOrder
    Maturity = 1
    MaxReconciles = 1
VIEW MCView
PROPERTIES
    OnlyAbandonedReorganizeMisleads
    ConfirmedKeepsUp
    OnlyConfirmationReopens
