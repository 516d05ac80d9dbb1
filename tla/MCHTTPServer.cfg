SPECIFICATION Spec
CONSTANTS
    MaxParsed = 3
    MaxChunk = 3
    EagerSize = 2
    MaxWrites = 1
INVARIANTS
    OneAtATime
CHECK_DEADLOCK FALSE
