SPECIFICATION Spec
CONSTANTS
    Block <- MCBlock
    Genesis = "g"
    NoBlock = NoBlock
    Parent <- MCParent
    Stake <- MCStake
    NoStake = NoStake
    MaxOrphanBlocks = 2
INVARIANTS
    TypeOK
    OrphanMapsMatch
    NoOrphanLeftBehind
    OrphanStakeIsHeld
PROPERTY OnlySharedStakeIsForgotten
