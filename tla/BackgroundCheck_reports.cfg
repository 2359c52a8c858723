SPECIFICATION FairSpec
CONSTANTS
    Clients = {c1}
    Hooks = {h1}
    Pollers = {p1}
    PollKinds = {"sync", "reconcile"}
    MayAttach = FALSE
    MaxRows = 1
    MaxRetries = 1
    MaxFaults = 1
    MaxEvents = 4
INVARIANTS
    PointerIsOfThisAttempt
PROPERTIES
    TerminalIsFinal
    FailureHasEvidence
    GraduatedPointerIsFinal
    ReportsReachTheRow
CHECK_DEADLOCK FALSE
