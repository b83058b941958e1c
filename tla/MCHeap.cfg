SPECIFICATION Spec
CONSTANTS
    Total = 5
    BlockSize = 2
    HeapAddress = 9
    TableAddress = 3
    Word = 32
    Sizes <- MCSizes
INVARIANT TypeOK
INVARIANT LiveDisjoint
INVARIANT TableMatches
PROPERTY FreeIsExact
PROPERTY OverrunOnlyWhenNothingFits
PROPERTY Refinement
CHECK_DEADLOCK FALSE
