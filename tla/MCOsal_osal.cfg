SPECIFICATION FairSpec
CONSTANTS
    NTask = 2
    NTimer = 1
    NBit = 2
    TickMod = 4
    WdtTicks = 1
    Timeout = {1}
    Period = {0, 1}
    Registered <- MCRegistered
    IsrEvent <- MCIsr
    MainPost <- MCMain
    TimerEvent <- MCTimerEvent
INVARIANTS OnTime NoPostLost
PROPERTIES ImplementsMailbox Served
