SPECIFICATION FairSpec
CONSTANTS
    Clients = {c1, c2}
    c1 = c1
    c2 = c2
    Owner = c1
    Tasks = {t1, t2, t3}
    t1 = t1
    t2 = t2
    t3 = t3
    NoTask = NoTask
    Priority <- MCPriority
    Workers = {w1, w2, w3}
    CoreThreads = 2
    MaxArg = 0
INVARIANTS
    NoStrandedTask
    ShutdownComplete
PROPERTIES
    EveryTaskSettles
    StopCallReturns
