SPECIFICATION Spec
CONSTANTS
    Requests = {r1, r2}
    Members = {m1}
    RowIds = {i1}
    Types = {"register"}
    None = None
    MaxEdits = 1
    MaxRounds = 1
    MaxVersions = 1
    MaxPlatform = 1
INVARIANTS
    NoEditIsOmitted
CHECK_DEADLOCK FALSE
