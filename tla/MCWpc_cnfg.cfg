SPECIFICATION FairSpec
CONSTANTS
    OptMod = 8
    CfgCount <- Counts
    Rx <- CnfgLivePackets
    MaxPosted = 1
INVARIANT Admitted
PROPERTY Silence
