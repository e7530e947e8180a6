SPECIFICATION Spec
CONSTANTS
    MaxGen = 3
    Bootstrap = TRUE
INVARIANT RunReportsLastAttempt
CHECK_DEADLOCK FALSE
