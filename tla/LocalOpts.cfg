CONSTANTS
    W = 3
    Inputs <- AllInputs
SPECIFICATION FairSpec
INVARIANTS  SsaPreserved NothingLeftToDo NaturalResultsPreserved
PROPERTIES Terminates
