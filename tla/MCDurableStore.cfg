SPECIFICATION StoreSpec
CONSTANTS
    Writers = {w1, w2}
    Updates = {u1, u2}
    Torn = torn
INVARIANTS
    AcknowledgedSurvive
PROPERTIES
    ImplementsAtomicRecord
CHECK_DEADLOCK FALSE
