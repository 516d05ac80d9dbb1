SPECIFICATION AnySpec
CONSTANTS
    Calls = {c1, c2, c3, c4}
    Seconds = {0, 2}
    Shifts <- SomeShifts
    Threshold = 0
    Longest = 2
    MaxOps = 5
    MaxParsed = 3
    MaxChunk = 3
    EagerSize = 2
    MaxWrites = 1
    MaxWritten = 3
    MaxReceived = 3
    MaxRegistered = 2
SYMMETRY Symmetry
INVARIANTS
    TimersAreSound
    ServerIsSound
    TLSIsDriven
PROPERTIES
    CallsOnTime
