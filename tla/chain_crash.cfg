SPECIFICATION Spec
CONSTANTS
    Block <- MCBlock
    Genesis = "g"
    NoBlock = NoBlock
    Parent <- MCParent
    Chain <- MCChain
    Height <- MCHeight
    Trust <- MCTrust
    Tx <- MCTx
    Absent = Absent
    Unspent = Unspent
    Spends <- MCSpends
    Txs <- MixedTxs
    Rejected = {"a3"}
INVARIANTS
    RestartFindsEveryBlock
PROPERTIES
    OnlyNonFatalFailureBreaks
    StepsImplementBestChain
