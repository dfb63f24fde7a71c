CONSTANTS
    Functions <- AllPrograms
    Unsized = Unsized
    None = None
SPECIFICATION Spec
INVARIANTS SsaPreserved TreeIsExact AssertNeedsUnreachable InnermostLoopsClean 
