----------------------------- MODULE RiskEngine -----------------------------
(***************************************************************************)
(* packages/risk-engine: what a lower liquidation threshold does to the    *)
(* positions of a snapshot, and the verdict and recommendation of a        *)
(* policy.  Pure functions of a snapshot; the medians and shortfalls that  *)
(* are only displayed are left out.  Where the code throws, an operator    *)
(* ending in Fits or Accepted is false and the result has no meaning.      *)
(*                                                                         *)
(* A snapshot is [positions, liquidationThresholdBps,                      *)
(* collateralPriceUsdE18, totalDebt], positions a function on accounts.    *)
(***************************************************************************)
EXTENDS Integers, FiniteSets, Functions

CONSTANTS
    BPS, WAD, CollateralScale, DebtScale,
    MaxUint,        \* UINT256_MAX
    MaxWorkload     \* positions times candidates of one search

NoValue == -1       \* recommendedValueBps: null

(***************************************************************************)
(* simulate                                                                *)
(***************************************************************************)

CollateralValue(p, price) == (p.collateralAmount * price) \div CollateralScale
DebtValue(p) == (p.debtAmount * WAD) \div DebtScale
Adjusted(p, lt, price) == (CollateralValue(p, price) * lt) \div BPS

\* mul() throws on a product above uint256; here no product does.
PositionFits(p, lt, price) ==
    /\ p.collateralAmount * price <= MaxUint
    /\ p.debtAmount * WAD <= MaxUint
    /\ DebtValue(p) > 0 => /\ CollateralValue(p, price) * lt <= MaxUint
                           /\ Adjusted(p, lt, price) * WAD <= MaxUint

\* Mutant: a health factor of exactly one counts as liquidatable.
LiquidatableAtOne(s, lt, price) ==
    {a \in DOMAIN s.positions :
        LET p == s.positions[a]
        IN  DebtValue(p) > 0 /\ (Adjusted(p, lt, price) * WAD) \div DebtValue(p) <= WAD}

\* The liquidatable positions of one cell of the scenario matrix.
Liquidatable(s, lt, price) ==
    {a \in DOMAIN s.positions :
        LET p == s.positions[a]
        IN  DebtValue(p) > 0 /\ (Adjusted(p, lt, price) * WAD) \div DebtValue(p) < WAD}

\* liquidatableDebtUsdE18
LiquidatableDebt(s, lt, price) ==
    FoldFunctionOnSet(+, 0, [a \in DOMAIN s.positions |-> DebtValue(s.positions[a])],
                      Liquidatable(s, lt, price))

StressedPrice(s, stressBps) == (s.collateralPriceUsdE18 * (BPS - stressBps)) \div BPS

SimulationFits(s, proposed, stressBps) ==
    /\ s.collateralPriceUsdE18 * (BPS - stressBps) <= MaxUint
    /\ StressedPrice(s, stressBps) > 0
    /\ s.totalDebt * WAD <= MaxUint
    /\ \A a \in DOMAIN s.positions, lt \in {s.liquidationThresholdBps, proposed},
          price \in {s.collateralPriceUsdE18, StressedPrice(s, stressBps)} :
          PositionFits(s.positions[a], lt, price)

Simulate(s, proposed, stressBps) ==
    LET price    == s.collateralPriceUsdE18
        current  == s.liquidationThresholdBps
        stressed == StressedPrice(s, stressBps)
        delta    == LiquidatableDebt(s, proposed, stressed) - LiquidatableDebt(s, current, stressed)
    IN  [decreaseBps |-> current - proposed,
         totalDebt |-> (s.totalDebt * WAD) \div DebtScale,
         newlyLiquidatable |-> Liquidatable(s, proposed, price) \ Liquidatable(s, current, price),
         currentStressDebt |-> LiquidatableDebt(s, current, stressed),
         proposedStressDebt |-> LiquidatableDebt(s, proposed, stressed),
         additionalStressDebt |-> IF delta > 0 THEN delta ELSE 0]

(***************************************************************************)
(* assessAndRecommend                                                      *)
(***************************************************************************)

Violations(sim, policy) ==
    LET exposure == IF policy.stressExposureMode = "incremental"
                    THEN sim.additionalStressDebt ELSE sim.proposedStressDebt
    IN  {v \in {"MAX_LT_DECREASE", "NEW_NORMAL_LIQUIDATABLE", "STRESS_EXPOSURE"} :
           \/ v = "MAX_LT_DECREASE" /\ sim.decreaseBps > policy.maxDecreaseBps
           \/ /\ v = "NEW_NORMAL_LIQUIDATABLE"
              /\ Cardinality(sim.newlyLiquidatable) > policy.maxNewNormalLiquidatable
           \/ /\ v = "STRESS_EXPOSURE"
              /\ exposure * BPS > sim.totalDebt * policy.maxStressExposureBps}

Admissible(s, candidate, policy) ==
    Violations(Simulate(s, candidate, policy.stressBps), policy) = {}

\* What makes assessAndRecommend throw instead of answering.
Accepted(s, proposed, policy) ==
    /\ proposed < s.liquidationThresholdBps
    /\ Cardinality(DOMAIN s.positions) * (s.liquidationThresholdBps - proposed + 1) <= MaxWorkload
    /\ SimulationFits(s, proposed, policy.stressBps)

\* Mutant: the search tries the current threshold first and works its way down.
SearchDown(s, proposed, policy) ==
    LET safe == {c \in (proposed + 1)..s.liquidationThresholdBps : Admissible(s, c, policy)}
    IN  IF safe = {} THEN NoValue ELSE CHOOSE c \in safe : \A d \in safe : d <= c

\* The candidates are tried upwards from the proposed value.
Search(s, proposed, policy) ==
    LET safe == {c \in (proposed + 1)..s.liquidationThresholdBps : Admissible(s, c, policy)}
    IN  IF safe = {} THEN NoValue ELSE CHOOSE c \in safe : \A d \in safe : c <= d

AssessAndRecommend(s, proposed, policy) ==
    LET value == Search(s, proposed, policy) IN
    IF Admissible(s, proposed, policy)
    THEN [verdict |-> "ALLOW", status |-> "NOT_NEEDED", value |-> NoValue]
    ELSE [verdict |-> "BLOCK", value |-> value,
          status |-> CASE value = NoValue -> "NO_SAFE_VALUE"
                       [] value = s.liquidationThresholdBps -> "NO_CHANGE"
                       [] OTHER -> "RECOMMENDED"]
=============================================================================
