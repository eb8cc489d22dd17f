SPECIFICATION IndexSpec
CONSTANTS
    Accounts = {a, b}
    Self = gate
    Targets = {m}
    Thresholds = {low, high}
    Rests = {r0}
    Selectors = {"setLiquidationThresholdBps", "transferOwnership", "stateVersion"}
    Nonces = {n1, n2}
    Evidence = {e}
    MaxVersion = 3
    MaxEpoch = 3
    MaxTime = 1
    MaxProposals = 2
    MaxMoves = 2
    MaxFirstBlock = 6
SYMMETRY Symmetry
CONSTRAINT OneDeadline
INVARIANTS
    IndexFollowsGate
    SeparationOfDuties
    OneChangePerNonce
PROPERTIES
    VersionIsSpent
    OnlyTheGateMoves
    ImplementsChangeGate
CHECK_DEADLOCK FALSE
