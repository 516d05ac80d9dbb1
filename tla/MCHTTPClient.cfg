SPECIFICATION Spec
CONSTANTS
    Conns = {c1, c2}
    Requests = {r1, r2}
    MaxPersistent = 1
    None = None
INVARIANT NoRequestOutlivesItsConnection
CHECK_DEADLOCK FALSE
