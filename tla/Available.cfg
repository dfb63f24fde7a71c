CONSTANTS
    Functions <- AllPrograms
    Direction = "FORWARD"
    MeetOp = "INTERSECTION"
    DomainOf <- AvailableDomain
    BoundaryCond <- AllFalse
    InitCond <- AvailableDomain
    TransferFn <- AvailableTransfer
    InitBothSides = FALSE
    Unsized = Unsized
SPECIFICATION Spec
INVARIANTS AvailableExact
