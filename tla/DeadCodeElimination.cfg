CONSTANTS
    Functions <- AllPrograms
    Unsized = Unsized
SPECIFICATION FairSpec
INVARIANTS StrongLivenessExact ModifiedReported LeftoverFeedsPhi
PROPERTIES Terminates Refinement
