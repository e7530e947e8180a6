SPECIFICATION Spec
CONSTANTS
    MaxGen = 3
    Bootstrap = TRUE
INVARIANT RestartIsNotAnExit
CHECK_DEADLOCK FALSE
