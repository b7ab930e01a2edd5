SPECIFICATION Spec
CONSTANTS
    OptMod = 5
    CfgCount <- NoCounts
    Rx <- MppPackets
    MaxPosted = 1
INVARIANTS Attended IdleIsIdle
PROPERTY SessionOrder
