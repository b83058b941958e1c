SPECIFICATION Spec
CONSTANTS
    Tasks = {t1, t2, t3, t4}
    Null = null
    MaxProcesses = 4
    Kernel = kernel
    BufferSize = 1
    Keys = {enter}
    Enter = enter
    NoKey = nokey
    Programs = {shell, runner}
    Shell = shell
    Spawners = {shell, runner}
    Exiters = {runner}
    Faulters = {}
    Files = {shell, runner}
    Refusals = {}
INVARIANT AlwaysNextTask
CHECK_DEADLOCK FALSE
