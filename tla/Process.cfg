SPECIFICATION LiveSpec
CONSTANTS
    Callers = {main, watcher}
    Owner = main
    NoCaller = nobody
    MaxGen = 2
    Exits = {"nil", "err"}
    BinName <- Bin
    Cmdlines <- AnyCmdline
INVARIANT TypeOK
INVARIANT ReplacedReportsUserKilled
INVARIANT CrashErrorsAreGenuine
INVARIANT ReplacedWereSignalled
INVARIANT PanicOnlyAfterRestart
PROPERTY RestartReturns
PROPERTY ImplementsDaemon
CHECK_DEADLOCK FALSE
