SPECIFICATION IndexSpec
CONSTANTS
    Accounts = {a, b}
    Self = market
    Amounts = {1, 2}
    Thresholds = {5, 8}
    Prices = {2, 3}
    BPS = 10
    WAD = 2
    CollateralScale = 1
    DebtScale = 1
    MaxVersion = 6
    MaxSupply = 3
    MaxUint = 40
    MaxFirstBlock = 6
    MaxWorkload = 8
    Policies <- MCPolicies
SYMMETRY Symmetry
INVARIANTS
    CollateralIsBacked
    IndexFollowsMarket
    RecommendationIsBoundary
PROPERTIES
    LentIsOwed
    OnlyParametersHurt
    EveryChangeIsVersioned
    SimulationForetells
CHECK_DEADLOCK FALSE
