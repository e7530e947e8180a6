SPECIFICATION LiveSpec
CONSTANTS
    Paths <- MCPaths
    Dir <- MCDir
    LibDirs = {"usrlib"}
    Libs = {"lib", "a", "b"}
    FileSystems <- MCFileSystems
    File = File
    Gone = Gone
    Mounts = {"drv", "lib", "dev"}
    Devices = {"dev"}
    ProcMounts <- MCProcMounts
    Drivers = {"driver", "driver/gpus/0", "nvidia"}
    Above <- MCAbove
    Depth <- MCDepth
    MaxIterations = 2
INVARIANT GPUTypeOK
INVARIANT NoDanglingDriver
INVARIANT NothingForgotten
INVARIANT ProcDriversGone
PROPERTY GPUsReturns
CHECK_DEADLOCK FALSE
