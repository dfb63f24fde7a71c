CONSTANTS
    Functions <- LivePrograms
    Direction = "BACKWARD"
    MeetOp = "UNION"
    DomainOf <- LivenessDomain
    BoundaryCond <- AllFalse
    InitCond <- AllFalse
    TransferFn <- LivenessTransfer
    InitBothSides = FALSE
    Unsized = Unsized
SPECIFICATION Spec
INVARIANTS UnsizedExactly ResultIsFixpoint LivenessExact 
