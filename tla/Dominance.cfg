CONSTANTS
    Functions <- Cfgs4
    Direction = "FORWARD"
    MeetOp = "INTERSECTION"
    DomainOf <- DominanceDomain
    BoundaryCond <- AllFalse
    InitCond <- DominanceDomain
    TransferFn <- DominanceTransfer
    InitBothSides = TRUE
    Unsized = Unsized
SPECIFICATION FairSpec
INVARIANTS DominanceExact
PROPERTIES Terminates
