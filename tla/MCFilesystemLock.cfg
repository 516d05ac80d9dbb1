SPECIFICATION Spec
CONSTANTS
    Processes = {p1, p2, p3}
INVARIANT MutualExclusion
CHECK_DEADLOCK FALSE
