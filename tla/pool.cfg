SPECIFICATION PoolSpec
CONSTANTS
    Block <- MCBlock
    Genesis = "g"
    NoBlock = NoBlock
    Parent <- MCParent
    Chain <- MCChain
    Height <- MCHeight
    Trust <- MCTrust
    Tx <- MCTx
    Absent = Absent
    Unspent = Unspent
    Spends <- MCSpends
    Txs <- MCTxs
    Rejected = {"b4"}
    Poolable <- MCPoolable
    Large = {}
    MaxOrphans = 2
INVARIANTS
    PoolHasNoDoubleSpend
    OrphanMapsAgree
PROPERTIES
    PoolStaysOutsideChain
    OnlyKnownOrphansHideOthers
    OnlyReorganizeStrands
    OnlyOrphansEscapeWallets
