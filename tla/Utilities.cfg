SPECIFICATION Spec
CONSTANTS
    Utilities = {"timers", "list", "log", "queue", "pool"}
    Timers = {t1, t2}
    MaxDelay = 2
    MaxLag = 1
    MaxPending = 2
    Clients = {c1, c2, c3}
    Nodes = {n1, n2, n3}
    MaxTime = 2
    Null = Null
    MaxDay = 1
    MaxSec = 2
    MaxSize = 2
    MaxLines = 5
    Writers = {w1, w2}
    Values = {a, b}
    Slots = 2
    Width = 6
    MaxCount = 3
    TotalBlocks = 3
    CountWidth = 5
    NoBlock = NoBlock
CHECK_DEADLOCK FALSE
INVARIANTS
    ArmedInTime
    OneOwner
    ListIntact
    InOrder
    NoDangling
    EveryLineKept
    LinesInOrder
    DropsEndWithTheDay
    BlocksConserved
PROPERTIES
    AddedLeaves
    LockedImplementsFIFO
