SPECIFICATION AnySpec
CONSTANTS
    Threads = {t1, t2}
    Calls = {1, 2, 3, 4}
    Nested = {1}
    Child <- AddsCallFour
    Capacity = 2
    Chunk = 1
    Callers = {c1, c2}
    Works = {x1, x2, x3}
    MayRaise = {x1}
    Workers = {w1, w2, w3}
    Tasks = {k1, k2}
    Sizes <- SmallSizes
    InitialSize <- FirstSize
    MaxCalls = 3
    NONE = NONE
INVARIANTS
    NoLostWakeup
    MadeInOrder
    PoolIsSound
PROPERTIES
    QueuedAreMade
    WorkersImplement
    WorkersFinish
    PoolFinishes
CHECK_DEADLOCK FALSE
