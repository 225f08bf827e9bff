SPECIFICATION FairSpec
CONSTANTS
    MinRestrictedInterval = 2
    NoFill = NoFill
    DefaultFill = DefaultFill
    OtherFills = {known, unknown}
    ValidFills = {known}
    Asked <- SomeAsked
    Servers <- SomeServers
    Tokens = {0, 1, 2, 3}
    OpenTimeouts = 2
    MaxAccepts = 3
CHECK_DEADLOCK FALSE
INVARIANTS
    ParamsAgree
    StrictGetsAsked
    WithinLimits
    LooseRefusals
    ToldAtEnd
PROPERTIES
    Settled
    RunEnds
