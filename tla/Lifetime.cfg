SPECIFICATION LiveSpec
CONSTANTS
    Second = 4
    Limit = 12
    Entries = 3
    Subdirs = {2}
    Secrets <- MCSecrets
    NoConfig = NoConfig
    MaxRuns = 2
INVARIANT LifetimeTypeOK
INVARIANT GivesUpOnTime
INVARIANT MissingCertsTakeFailure
INVARIANT RightCredentials
PROPERTY DaemonFound
CHECK_DEADLOCK FALSE
