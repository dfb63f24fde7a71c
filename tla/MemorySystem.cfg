SPECIFICATION Spec
CONSTANTS
    cpu = cpu
    dma = dma
    None = None
    Masters <- TwoMasters
    Packets <- FivePackets
    ReqLimit = 1
    RespLimit = 1
INVARIANTS
    AssertionsHold
    ReservationsAreExact
    NoLostRetry
PROPERTIES
    EveryRequestIsServed
CHECK_DEADLOCK FALSE
