SPECIFICATION LiveSpec
CONSTANTS
    MaxRuns = 2
    MaxAttempts = 3
    Others = {p1, p2}
    OuterLimits <- MCOuterLimits
INVARIANT TypeOK
INVARIANT InnerLimitIsOuters
PROPERTY LostToNewcomer
PROPERTY WrapperEnds
CHECK_DEADLOCK FALSE
