SPECIFICATION Spec
CONSTANTS
    Tasks = {t1, t2, t3}
    Null = null
    MaxProcesses = 2
    Kernel = kernel
    BufferSize = 2
    Keys = {enter, letter}
    Enter = enter
    NoKey = nokey
    Programs = {shell, runner}
    Shell = shell
    Spawners = {shell, runner}
    Exiters = {shell, runner}
    Faulters = {shell, runner}
    Files = {shell, runner}
    Refusals = {"data", "mapping", "task", "directory"}
INVARIANT SavedIntact
INVARIANT NoTaskNoProcess
PROPERTY CallsRefinement
CHECK_DEADLOCK FALSE
