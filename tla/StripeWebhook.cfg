SPECIFICATION FairSpec
CONSTANTS
    None = None
    Events = {evt1}
    Handlers = {h1, h2, h3}
    ReclaimAfter = 1
    MaxTime = 5
    MaxFailures = 2
    MaxLostMarks = 1
    MaxCrashes = 2
    Overlapping = TRUE
INVARIANTS
    ProcessedWasApplied
    NoConcurrentProcessing
    ProcessingIsVisible
    LossIsVisible
PROPERTIES
    ProcessedIsFinal
    EveryEventIsApplied
CHECK_DEADLOCK FALSE
