SPECIFICATION FairSpec
CONSTANTS
    Tasks = {t1, t2, t3}
    Null = null
    MaxProcesses = 3
    Kernel = kernel
    BufferSize = 2
    Keys = {enter, letter}
    Enter = enter
    NoKey = nokey
    Programs = {shell, command}
    Shell = shell
    Spawners = {shell}
    Exiters = {command}
    Faulters = {command}
    Files = {shell, command}
    Refusals = {"data", "mapping"}
INVARIANT TypeOK
INVARIANT ContextMatches
INVARIANT SavedIntact
INVARIANT ListIntact
INVARIANT ShellHasKeyboard
INVARIANT AlwaysNextTask
PROPERTY CallsRefinement
PROPERTY CommandReturns
PROPERTY BufferDrains
CHECK_DEADLOCK FALSE
