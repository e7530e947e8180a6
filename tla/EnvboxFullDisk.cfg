SPECIFICATION Spec
CONSTANTS
    MaxGen = 3
    Bootstrap = TRUE
INVARIANT FullDiskIsRestarted
CHECK_DEADLOCK FALSE
