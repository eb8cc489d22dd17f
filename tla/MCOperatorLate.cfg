SPECIFICATION Spec
CONSTANTS
    Callers = {c1, c2}
    Jobs = {j1, j2}
    Deny = deny
    Foreign = foreign
    NoJob = none
    LateUpdates = TRUE
SYMMETRY Symmetry
INVARIANTS
    RestoresDeny
CHECK_DEADLOCK FALSE
