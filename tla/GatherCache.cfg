CONSTANTS
    Caches = {c1, c2}
    Values = {v1, v2}
    Bits = {0}
    Tiles = {t}
    Capacity = 1
    Patterns <- AllPatterns
    Room <- FewBlocks
SPECIFICATION Spec
INVARIANTS SingleWriter CopiesAreMemory
PROPERTIES OneMemory
SYMMETRY Symmetry
