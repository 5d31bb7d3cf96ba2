SPECIFICATION Spec
CONSTANTS
    Producers = {p1, p2}
    Items = {a, b}
    Capacity = 2
    M = 6
    MaxBatch = 2
INVARIANTS
    NoSlotRace
    IndexOrder
PROPERTIES
    ImplementsFIFO
    ReservedIsConsumed
