SPECIFICATION Spec
CONSTANTS
    Triggers = {t1, t2, t3}
    AsyncEvents <- Both
    MaxCrashes = 0
    ReallyStart = ReallyStart
    CrashReactor = CrashReactor
    Disconnect = Disconnect
    NONE = NONE
SYMMETRY Symmetry
INVARIANTS
    RunningOnlyWhileStarted
CHECK_DEADLOCK FALSE
