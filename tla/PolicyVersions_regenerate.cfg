SPECIFICATION Spec
CONSTANTS
    Requests = {r1, r2}
    Members = {m1}
    None = None
    MaxTexts = 2
    MaxVersions = 2
    MaxRequests = 3
PROPERTIES
    LiveTextIsPublished
CHECK_DEADLOCK FALSE
