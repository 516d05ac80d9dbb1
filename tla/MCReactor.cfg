SPECIFICATION AnySpec
CONSTANTS
    Calls = {c1, c2}
    Seconds = {0, 2}
    Shifts <- SomeShifts
    Threshold = 0
    Longest = 1
    MaxOps = 4
    Triggers = {t1, t2, t3}
    AsyncEvents <- BothEvents
    MaxCrashes = 1
    ReallyStart = ReallyStart
    CrashReactor = CrashReactor
    Disconnect = Disconnect
    NONE = NONE
    Intervals = {0, 2}
    MaxTime = 5
    MaxStarts = 2
INVARIANTS
    LifecycleIsSound
    LoopIsCarriedOn
PROPERTIES
    EveryCallEnds
    StopEndsRun
CHECK_DEADLOCK FALSE
