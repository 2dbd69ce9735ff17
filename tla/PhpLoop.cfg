SPECIFICATION FairSpec
CONSTANTS
    SetSize = 2
    MaxFaults = 1
    Delays = {0, 1}
    Intervals = {1, 3}
    IntMod = 4
    MaxCbs = 2
    MaxTimers = 3
INVARIANTS
    WatchesRegistered
    NoTimerLost
    DueTimersFire
    CallbackMemory
PROPERTIES
    TimersFire
CHECK_DEADLOCK FALSE
