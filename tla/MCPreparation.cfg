SPECIFICATION Spec
CONSTANTS
    MaxRuns = 2
    MaxAge = 1
    MaxValidity = 2
    MaxTime = 3
    MaxLag = 1
    MaxBlocks = 3
    ScopedRuns = {1}
INVARIANTS
    OwnDecision
PROPERTIES
    PlanIsSound
    EveryRunEnds
CHECK_DEADLOCK FALSE
