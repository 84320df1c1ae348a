SPECIFICATION TemplateSpec
CONSTANTS
    Block <- MCBlock
    Genesis = "g"
    NoBlock = NoBlock
    Parent <- MCParent
    Chain <- MCChain
    Height <- MCHeight
    Trust <- MCTrust
    Tx <- MCTx
    Absent = Absent
    Unspent = Unspent
    Spends <- MCSpends
    Txs <- MCTxs
    Rejected = {}
    Poolable <- MCPoolable
    Large = {}
    MaxOrphans = 1
INVARIANTS
    TemplateConnects
    EveryReadyTxIsTried
