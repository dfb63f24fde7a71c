SPECIFICATION Spec
CONSTANTS
    a = a
    b = b
    c = c
    d = d
    Null = Null
    Events <- FourEvents
    priority <- Priorities
    MaxTick = 2
SYMMETRY Symmetry
INVARIANTS
    QueueIsWellFormed
PROPERTIES
    ServicedInOrder
