SPECIFICATION FairSpec
CONSTANTS
    None = None
    Events = {evt1}
    Handlers = {h1, h2, h3}
    EventTimes = {0, 1}
    MaxAge = 3
    StaleInflight = 1
    MaxTime = 5
    MaxFailures = 2
    MaxLostCleanups = 1
    MaxCrashes = 1
    Overlapping = TRUE
INVARIANTS
    AppliedMarkerIsEarned
    SettledOnceUnlessStolen
    ApplyingIsMarked
PROPERTIES
    AppliedMarkerIsFinal
    EveryEventIsDecided
CHECK_DEADLOCK FALSE
