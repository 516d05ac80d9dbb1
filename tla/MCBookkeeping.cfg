SPECIFICATION AnySpec
CONSTANTS
    Tasks = {t1, t2, t3}
    MaxPause = 1
    Processes = {p1, p2, p3}
    MaxAttempts = 4
    Keys = {k1, k2}
    Values = {v1, v2}
    Conns = {c1, c2}
    Requests = {r1, r2}
    MaxPersistent = 1
    None = None
    Transports = {1, 2, 3, 4, 5}
    MaxRetries = 2
    Names = {n1, n2}
    Callers = {a1, a2, a3}
    Servers <- TwoServers
    Rounds = 2
    MaxConns = 2
INVARIANTS
    CooperatorNeverStalls
    HolderOwnsTheLink
    AttemptIsDriven
    HTTPClientIsSound
    ConnectorIsSound
    LookupsAreDriven
PROPERTIES
    EveryTaskGetsATurn
    ImplementsMap
CHECK_DEADLOCK FALSE
