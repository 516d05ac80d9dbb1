SPECIFICATION Spec
CONSTANTS
    Deferreds = {a, b}
    Cancellable = {}
    NONE = NONE
    MaxCalls = 1
    MaxAdds = 2
    MaxPauses = 1
    MaxDepth = 1
INVARIANTS
    Drained
