SPECIFICATION Spec
CONSTANTS
    Ids = {f, g, h}
    IndexLimit = 1
SYMMETRY Symmetry
CONSTRAINT Bystanders
INVARIANTS
    StageMatchesChain
    SentIsRecoverable
PROPERTIES
    OnlyCrowdedOutIsMissed
    NeverDowngraded
    OnlyOwnedRunsSend
CHECK_DEADLOCK FALSE
