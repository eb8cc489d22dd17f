SPECIFICATION Spec
CONSTANTS
    Tabs = {a}
    Starts = {"REVIEWED", "DECIDED"}
    MaxReads = 1
    MaxPosts = 1
    MaxOperations = 2
    MaxRevision = 6
    HasLocks = TRUE
INVARIANTS
    MarkerOutlivesRequest
CHECK_DEADLOCK FALSE
