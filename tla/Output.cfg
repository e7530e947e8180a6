SPECIFICATION OutputLiveSpec
CONSTANTS
    N = 3
    MaxBytes = 14
    MaxChunk = 8
    MaxLine = 10
INVARIANT KeepsPrefixAndSuffix
INVARIANT SuffixNeedsFlush
INVARIANT OutputTypeOK
PROPERTY ExitReportedIfScanned
CHECK_DEADLOCK FALSE
