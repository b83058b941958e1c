SPECIFICATION CSpec
CONSTANTS
    Chars <- MCChars
    Dirs <- MCDirs
    Root = "root"
    Slots <- MCSlots
    Deleted = Deleted
    NameWidth = 2
    ExtWidth = 1
    Capital <- MCCapital
    Paths <- MCPaths
    Stale <- MCStale
    Leftovers <- MCLeftovers
    MaxOpen = 2
    Drive = "0:/"
    Lines <- MCLines
    MaxArgs = 3
    MaxArgSize = 5
    Untouched = 2
    Junk = Junk
    MaxProcesses = 2
INVARIANT TypeOK
INVARIANT ArgvIsCommand
INVARIANT RunsWhatIsNamed
INVARIANT OpensWhatIsNamed
INVARIANT FindsExactly
INVARIANT HoldsWhatItUses
CHECK_DEADLOCK FALSE
