SPECIFICATION FairSpecNoCrash
CONSTANTS
    Block <- MCBlock
    Genesis = "g"
    NoBlock = NoBlock
    Parent <- MCParent
    Chain <- MCChain
    Height <- MCHeight
    Trust <- MCTrust
    Tx <- MCTx
    Absent = Absent
    Unspent = Unspent
    Spends <- MCSpends
    Txs <- MixedTxs
    Rejected = {"a3"}
INVARIANTS
    TypeOK
    DiskIsReplayOfBest
    MemoryAgreesWithDisk
    BestIsHeaviest
    InvalidTrustIsReal
PROPERTIES
    BestTrustGrows
    ValidBlockIsMatched
    ImplementsBestChain
CHECK_DEADLOCK FALSE
