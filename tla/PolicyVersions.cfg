SPECIFICATION Spec
CONSTANTS
    Requests = {r1, r2}
    Members = {m1, m2}
    None = None
    MaxTexts = 2
    MaxVersions = 2
    MaxRequests = 5
SYMMETRY Symmetry
INVARIANTS
    SignaturesAreForLiveText
    AcceptedWasSubmitted
PROPERTIES
    PublishedTextIsFrozen
CHECK_DEADLOCK FALSE
