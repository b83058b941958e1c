SPECIFICATION Spec
CONSTANTS
    SectorSize = 2
    Sectors = 19
    ReservedSectors = 1
    DataSector = 9
    SectorsPerCluster = 2
    WordAt <- MCWordAt
    Word32 = 256
    Files <- MCFiles
    Chain <- MCChain
    FileSize <- MCFileSize
    Programs = {cat, other}
    MaxDescriptors = 3
    Objects = {o1, o2}
    Null = Null
    Names <- MCNames
    Finds <- MCFinds
    Requests <- MCRequests
    Offsets <- MCOffsets
    MaxPosition = 5
INVARIANT ReadsExactlySectorwise
PROPERTY FilesRefinement
CHECK_DEADLOCK FALSE
