SPECIFICATION FairSpec
CONSTANTS
    Clients = {c1, c2}
    c1 = c1
    c2 = c2
    Owner = c1
    Tasks = {t1, t2, t3}
    t1 = t1
    t2 = t2
    t3 = t3
    NoTask = NoTask
    Priority <- MCPriority
    Workers = {w1, w2}
    CoreThreads = 1
    MaxArg = 3
INVARIANTS
    TypeOK
    FutureAccounting
    WorkerBounds
    GrowsWithBacklog
    NoThreadOutlivesPool
PROPERTIES
    ShrinksWhenIdle
