SPECIFICATION LiveSpec
CONSTANTS
    MaxGen = 3
    Bootstrap = TRUE
INVARIANT TypeOK
INVARIANT WatcherFatalIsGenuine
INVARIANT BootstrapOutlivesSignal
PROPERTY SignalReachesCancel
CHECK_DEADLOCK FALSE
