SPECIFICATION Spec
CONSTANTS
    Calls = {c1, c2, c3}
    None = None
    MaxPolls = 2
    Keep = 2
    MaxUsers = 2
    MaxFaults = 2
SYMMETRY Symmetry
INVARIANTS
    OneRefreshAtATime
    RejectionHasACause
CHECK_DEADLOCK FALSE
