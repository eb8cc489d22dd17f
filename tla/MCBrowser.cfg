SPECIFICATION Spec
CONSTANTS
    Tabs = {a, b}
    Starts = {"REVIEWED", "PROPOSED", "DECIDED"}
    MaxReads = 1
    MaxPosts = 1
    MaxOperations = 2
    MaxRevision = 4
    HasLocks = TRUE
SYMMETRY Symmetry
CONSTRAINT OneBroken
INVARIANTS
    AskedOnce
    HashIsKept
PROPERTIES
    TrustNeverRestored
    NeverShowsLess
CHECK_DEADLOCK FALSE
