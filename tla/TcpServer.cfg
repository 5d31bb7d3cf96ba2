SPECIFICATION FairSpec
CONSTANTS
    c1 = c1
    c2 = c2
    Conns = {c1, c2}
    Addrs = {1, 2}
    Clients <- MCClients
    ThreadNums = {0, 1}
    Threads = {}
INVARIANTS
    AssertsHold
    NoCallOnDead
    RegistrationAgrees
    CallbackOrder
    OutputBeforeShutdown
PROPERTIES
    ClosedIsDestroyed
    ShutdownReachesSocket
CHECK_DEADLOCK FALSE
