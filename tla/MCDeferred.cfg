SPECIFICATION BoundedSpec
CONSTANTS
    Deferreds = {a, b, c}
    Cancellable = {b}
    NONE = NONE
    MaxCalls = 1
    MaxAdds = 2
    MaxPauses = 1
    MaxDepth = 2
SYMMETRY Symmetry
INVARIANTS
    ChainIntegrity
    PauseBalance
    NoNestedCallbacks
    SingleCallAccepted
    FailuresAccountedFor
    NoResultWithheld
