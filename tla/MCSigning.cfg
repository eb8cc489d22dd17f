SPECIFICATION Spec
CONSTANTS
    Callers = {c1, c2}
    Jobs = {j1, j2}
    Nonces = {0}
    Bodies = {x, y}
SYMMETRY Symmetry
INVARIANTS
    OneRequestPerNonce
    SignedWhileValid
    SuccessIsFresh
PROPERTIES
    ImplementsSignOnce
CHECK_DEADLOCK FALSE
