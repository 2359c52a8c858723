SPECIFICATION Spec
CONSTANTS
    Requests = {r1, r2}
    Members = {m1, m2}
    RowIds = {i1}
    Types = {"register", "review"}
    None = None
    MaxEdits = 2
    MaxRounds = 2
    MaxVersions = 2
    MaxPlatform = 2
SYMMETRY Symmetry
CONSTRAINT OnePlatformForReviews
INVARIANTS
    ApprovedIsPublished
    DecidedOnceByItsApprover
    PublishedWasComplete
    BaselineIsWhatWasDerived
PROPERTIES
    SignedMinutesAreFrozen
CHECK_DEADLOCK FALSE
