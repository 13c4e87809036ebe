CONSTANTS
    SeqSpace = 14
    Slots = 3
    FarLimit = 2
    SealLimit = 7
    Batch = 2
    KeyBase = 2
    BurnBound = 8
    PuntCap = 1
SPECIFICATION Spec
PROPERTY DropBudget
