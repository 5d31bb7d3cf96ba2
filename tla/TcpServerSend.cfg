SPECIFICATION ThreadedSpec
CONSTANTS
    c1 = c1
    c2 = c2
    Conns = {c1}
    Addrs = {1}
    Clients <- MCClients
    ThreadNums = {1}
    Threads = {t1}
INVARIANT
    SendIsSafe
CHECK_DEADLOCK FALSE
