SPECIFICATION Spec
CONSTANTS
    c1 = c1
    c2 = c2
    keyless = keyless
    NoKey = keyless
    MinRestrictedInterval = 1
    NoFill = nofill
    DefaultFill = "pattern"
    OtherFills = {"rand"}
    ValidFills = {"rand"}
    FCaps <- SmallFCaps
    Server = server
    Scenarios <- MidpointScenarios
    MTU = 26
    ServerClock <- ServerShows
    ClientClock <- ClientShows
CHECK_DEADLOCK FALSE
INVARIANTS
    ReadAsMeant
