SPECIFICATION Spec
CONSTANTS
    Color <- MCColor
    SIS = "SIS"
    Fork = {0, 3, 4, 5}
    Fork000 = 0
    Fork004 = 4
    Fork005 = 5
    BurnForks = {3, 4, 5}
    PowReward <- MCPowReward
    PosReward <- MCPosReward
    Half = 4
    MaxAmount = 2
    MaxHeight = 4
CHECK_DEADLOCK FALSE
PROPERTIES
    HardReset
