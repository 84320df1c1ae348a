SPECIFICATION Spec
CONSTANTS
    Peer = {"h", "q"}
    Honest = {"h"}
    Block <- MCBlock
    Tx <- MCTx
    Needs <- MCNeeds
    Nothing = Nothing
    Has <- MCHas
    Stake <- MCStake
    NoStake = NoStake
    Retry = 1
    MaxAsks <- MCMaxAsks
PROPERTIES
    AnnouncedIsObtained
    AncestorIsFetched
    OnlyDisconnectPutsOffInVain
