SPECIFICATION Spec
CONSTANTS
    Callers = {c1, c2}
    Jobs = {j1}
    Deny = deny
    Foreign = foreign
    NoJob = none
    LateUpdates = FALSE
SYMMETRY Symmetry
INVARIANTS
    RestoresDeny
    OneSendPerJob
    NeverStuck
PROPERTIES
    InterruptionIsKept
    ConfirmedIsBuried
    SentSafely
CHECK_DEADLOCK FALSE
