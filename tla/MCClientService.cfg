SPECIFICATION Spec
CONSTANTS
    Connections = {c1, c2}
    Waiters = {w1}
    Stoppers = {s1}
    MaxFailures = 1
INVARIANT ConnectedIsAlive
CHECK_DEADLOCK FALSE
