SPECIFICATION Spec
CONSTANTS
    Callers = {main}
    Owner = main
    NoCaller = nobody
    MaxGen = 2
    Exits = {"err"}
    BinName <- Bin
    Cmdlines <- OnlyKernel
INVARIANT OneLiveProcess
CHECK_DEADLOCK FALSE
