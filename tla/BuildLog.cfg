SPECIFICATION BlogLiveSpec
CONSTANTS
    Callers = {runE, watcher, bootstrap}
    RunE = runE
    MaxLines = 2
INVARIANT TypeOK
INVARIANT StderrFollowsPush
INVARIANT QueueStaysShort
INVARIANT LinesKept
PROPERTY SendReturns
PROPERTY QueuedLinesPushed
CHECK_DEADLOCK FALSE
