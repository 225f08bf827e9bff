SPECIFICATION FairSpec
CONSTANTS
    MaxSends = 2
    StrayOpens = 1
CHECK_DEADLOCK FALSE
INVARIANTS
    OwnCloseNotReported
    FirstErrorKept
    ToldBeforeClosed
PROPERTIES
    RunReturns
