SPECIFICATION Spec
CONSTANTS
    signal = signal
    user = user
    V4 = {0, 2}
    ZeroIPs <- ZeroIPsOf
    LinkLocal = {4}
    Unusable = {5}
    Interfaces <- Ifaces
    Scenarios <- SomeScenarios
    Callers = {signal, user}
    Main = main
CHECK_DEADLOCK FALSE
INVARIANTS
    ClosedOnce
    ErrorsReported
    ReturnMeansStopped
    ListensWhereAsked
PROPERTIES
    KeepsLifecycle
