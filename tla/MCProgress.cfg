SPECIFICATION AnySpec
CONSTANTS
    Users = {u1, u2, u3, u4, u5}
    Limit = 2
    Objects = {o1, o2, o3, o4}
    Gets = {g1, g2, g3, g4}
    Size = 2
    Backlog = 2
    NoLimit = NoLimit
    MaxBytes = 4
    BufferSize = 2
    SendLimit = 2
    Connections = {c1, c2, c3}
    Waiters = {w1, w2}
    Stoppers = {s1, s2}
    MaxFailures = 2
    Window = 2
    MaxPacket = 2
    MaxChannelBytes = 3
    MaxRequests = 1
INVARIANTS
    TokensAreUsed
    QueueIsSound
    TransportIsDriven
    ServiceIsDriven
    ChannelIsSound
PROPERTIES
    NoOvertaking
    WaitersAreServed
    IsSemaphore
    ClosesInTheEnd
    StopIsAnswered
    CloseCompletes
CHECK_DEADLOCK FALSE
