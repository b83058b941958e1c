SPECIFICATION Spec
CONSTANTS
    PageSize = 2
    FirstPage = 6
    LastPage = 21
    LowPages = 2
    StackAt = 2
    StackPages = 1
    TaskPages = 1
    PathPages = 1
    ItemPages = 1
    MaxProcesses = 2
    MaxAllocations = 2
    Sizes <- MCSizes
    Programs <- MCPrograms
    Shell = "shell"
    FileSize <- MCFileSize
    Segments <- MCSegments
    Freers = {"user", "sparse"}
INVARIANT OneOwner
INVARIANT WritesOwn
INVARIANT MemoryInPlace
INVARIANT OnlyFreersFault
CHECK_DEADLOCK FALSE
