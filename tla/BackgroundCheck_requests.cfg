SPECIFICATION Spec
CONSTANTS
    Clients = {c1, c2}
    Hooks = {h1}
    Pollers = {}
    PollKinds = {}
    MayAttach = TRUE
    MaxRows = 2
    MaxRetries = 0
    MaxFaults = 2
    MaxEvents = 3
SYMMETRY CallSymmetry
INVARIANTS
    NoUnitIsStranded
CHECK_DEADLOCK FALSE
