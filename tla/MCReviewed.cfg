SPECIFICATION Spec
CONSTANTS
    Contents = {x, y}
    MaxBlocks = 4
    MaxReorgs = 1
SYMMETRY Symmetry
INVARIANTS
    PassesOnReviewedState
    ExecutesReviewedState
CHECK_DEADLOCK FALSE
