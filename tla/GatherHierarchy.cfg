CONSTANTS
    Values = {v1, v2}
    Bits = {0}
    Tiles = {t}
    Patterns <- AllPatterns
    Room1 <- OneBlock
    Room2 <- TwoBlocks
SPECIFICATION Spec
PROPERTY OnlyStoresChangeMemory
