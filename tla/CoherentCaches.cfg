CONSTANTS
    c1 = c1
    c2 = c2
    c3 = c3
    v1 = v1
    v2 = v2
    Gone = Gone
    Ports <- TwoPorts
    Blocks = {b1, b2}
    Values <- TwoValues
    Frames = 1
    MaxRequests = 5
SPECIFICATION Spec
INVARIANTS AssertionsHold SingleOwner OneAnswerComing CopiesAreMemory 
PROPERTIES LostStoresChangeNothing
SYMMETRY Swapped
