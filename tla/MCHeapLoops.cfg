SPECIFICATION LSpec
CONSTANTS
    Total = 3
    BlockSize = 2
    HeapAddress = 9
    TableAddress = 3
    Word = 32
    Sizes = {}
    Counts <- MCCounts
INVARIANT LoopsComputeHeap
PROPERTY LoopsEnd
CHECK_DEADLOCK FALSE
