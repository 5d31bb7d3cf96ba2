SPECIFICATION FairSpec
CONSTANTS
    c1 = c1
    c2 = c2
    Conns = {c1}
    Addrs = {1}
    Clients <- MCClients
    ThreadNums = {0, 1}
    Threads = {}
PROPERTY
    ResetIsDestroyed
CHECK_DEADLOCK FALSE
