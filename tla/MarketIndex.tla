----------------------------- MODULE MarketIndex -----------------------------
(***************************************************************************)
(* The subgraph of the market (subgraph/v2/src/market.ts) behind the       *)
(* market it indexes, and the risk engine on the snapshots taken from it.  *)
(*                                                                         *)
(* The node indexes block after block and shows an index only at the end   *)
(* of a block.  Its handlers depend on where a block ends only through the *)
(* contract calls that create the Market entity, in the block of the       *)
(* constructor, so the first block is collected and then indexed as one;   *)
(* from then on the events of a transaction are indexed with it.           *)
(***************************************************************************)
EXTENDS ReferenceLendingMarket, SequencesExt

CONSTANTS
    MaxFirstBlock,      \* bound on the events of the first block
    MaxWorkload, Policies

\* What validatePolicy accepts.
ASSUME PolicyAssumption ==
    Policies \subseteq [maxDecreaseBps: 0..BPS, maxNewNormalLiquidatable: Nat,
                        maxStressExposureBps: 0..BPS, stressBps: 0..BPS,
                        stressExposureMode: {"incremental", "absolute"}]

Engine == INSTANCE RiskEngine

VARIABLES
    logs,       \* events of the first block, until it is indexed
    market,     \* the Market entity, NoMarket before the first block is indexed
    entities    \* account -> its Position entity

indexVars == <<logs, market, entities>>
allVars == <<vars, indexVars>>

NoMarket == [positionCount |-> -1]
Indexed == market # NoMarket

\* The contract calls of marketFor.
Chain == [owner |-> owner, stateVersion |-> stateVersion,
          liquidationThresholdBps |-> liquidationThresholdBps,
          collateralPriceUsdE18 |-> collateralPriceUsdE18]

\* The Market entity.
Entity(params, collateral, debt, count) ==
    [owner |-> params.owner, stateVersion |-> params.stateVersion,
     liquidationThresholdBps |-> params.liquidationThresholdBps,
     collateralPriceUsdE18 |-> params.collateralPriceUsdE18,
     totalCollateral |-> collateral, totalDebt |-> debt, positionCount |-> count]

\* The map f with v stored under x.
Put(f, x, v) == [y \in DOMAIN f \cup {x} |-> IF y = x THEN v ELSE f[y]]

(***************************************************************************)
(* The handlers                                                            *)
(***************************************************************************)

\* Mutant: the totals are read from the contract as well.
MarketForTotals(m, final) ==
    IF m # NoMarket THEN m ELSE Entity(final, totalCollateral, totalDebt, 0)

\* The entity, created from the state at the end of the block if need be.
MarketFor(m, final) ==
    IF m # NoMarket THEN m ELSE Entity(final, 0, 0, 0)

HandlePositionUpdated(m, es, log) ==
    LET new == log.account \notin DOMAIN es
        old == IF new THEN NoPosition ELSE es[log.account]
    IN  [market |-> [m EXCEPT !.positionCount = IF new THEN @ + 1 ELSE @,
                              !.totalCollateral = @ - old.collateralAmount + log.position.collateralAmount,
                              !.totalDebt = @ - old.debtAmount + log.position.debtAmount],
         entities |-> Put(es, log.account, log.position)]

\* handleThresholdUpdated, handlePriceUpdated, handleOwnershipTransferred,
\* handleStateUpdated: one field each.
Handle(index, log, final) ==
    LET m == MarketFor(index.market, final) IN
    IF log.field = "position" THEN HandlePositionUpdated(m, index.entities, log)
    ELSE [index EXCEPT !.market = [m EXCEPT ![log.field] = log.value]]

\* The logs of a block, in order.
IndexLogs(index, block, final) ==
    FoldLeft(LAMBDA i, log : Handle(i, log, final), index, block)

(***************************************************************************)
(* The index behind the market                                             *)
(***************************************************************************)

\* What a transaction of the market logs.  A setter that writes the value it
\* finds logs it too, which changes no entity.
Logs ==
    LET Field(name, old, new) == IF old = new THEN << >> ELSE <<[field |-> name, value |-> new]>>
        moved == {a \in Addresses : positions'[a] # positions[a]}
    IN  Field("owner", owner, owner')
        \o Field("liquidationThresholdBps", liquidationThresholdBps, liquidationThresholdBps')
        \o Field("collateralPriceUsdE18", collateralPriceUsdE18, collateralPriceUsdE18')
        \o Field("stateVersion", stateVersion, stateVersion')
        \o SetToSeq({[field |-> "position", account |-> a, position |-> positions'[a]] : a \in moved})

IndexInit ==
    /\ Init
    /\ logs = <<[field |-> "owner", value |-> owner], [field |-> "stateVersion", value |-> 1]>>
    /\ market = NoMarket /\ entities = << >>

Transaction ==
    /\ Next
    /\ IF Indexed
       THEN LET index == IndexLogs([market |-> market, entities |-> entities], Logs, Chain')
            IN  market' = index.market /\ entities' = index.entities /\ UNCHANGED logs
       ELSE /\ logs' = logs \o Logs /\ Len(logs') <= MaxFirstBlock
            /\ UNCHANGED <<market, entities>>

FirstBlock ==
    /\ ~Indexed
    /\ LET index == IndexLogs([market |-> NoMarket, entities |-> << >>], logs, Chain)
       IN  market' = index.market /\ entities' = index.entities
    /\ logs' = << >>
    /\ UNCHANGED vars

IndexSpec == IndexInit /\ [][Transaction \/ FirstBlock]_allVars

(***************************************************************************)
(* Properties                                                              *)
(***************************************************************************)

\* The index shows the market: parameters and version, each position ever
\* touched, and totals, which it accumulates from events alone.
IndexFollowsMarket ==
    Indexed =>
        /\ market = Entity(Chain, totalCollateral, totalDebt, Cardinality(DOMAIN entities))
        /\ \A a \in Addresses :
              positions[a] = IF a \in DOMAIN entities THEN entities[a] ELSE NoPosition

\* What a review sees of the market: the entities of the index.
Snapshot ==
    [positions |-> entities, totalDebt |-> market.totalDebt,
     liquidationThresholdBps |-> market.liquidationThresholdBps,
     collateralPriceUsdE18 |-> market.collateralPriceUsdE18]

Unhealthy == {a \in Addresses : positions[a].debtAmount > 0 /\ Health(positions[a]) < WAD}

UnhealthyDebt ==
    FoldFunctionOnSet(+, 0, [a \in Addresses |-> DebtValue(positions[a])], Unhealthy)

\* The simulation foretells the chain: setting the reviewed threshold makes just
\* the simulated positions liquidatable, and a fall of the price to the stressed
\* one makes just the simulated debt liquidatable.
SimulationForetells ==
    [][Indexed => \A policy \in Policies :
         LET sim(lt) == Engine!Simulate(Snapshot, lt, policy.stressBps)
             fits(lt) == Engine!SimulationFits(Snapshot, lt, policy.stressBps)
         IN  /\ (liquidationThresholdBps' < liquidationThresholdBps /\ fits(liquidationThresholdBps'))
                => Unhealthy' \ Unhealthy = sim(liquidationThresholdBps').newlyLiquidatable
             /\ (/\ collateralPriceUsdE18' # collateralPriceUsdE18
                 /\ collateralPriceUsdE18' = Engine!StressedPrice(Snapshot, policy.stressBps)
                 /\ fits(liquidationThresholdBps))
                => UnhealthyDebt' = sim(liquidationThresholdBps).currentStressDebt]_allVars

\* The answer of the policy is the boundary between inadmissible and admissible
\* thresholds: ALLOW if the proposed value is on the admissible side, else the
\* first value that is, everything above which is admissible too.  There is none
\* only if the present market already exceeds an absolute limit.
RecommendationIsBoundary ==
    Indexed => \A policy \in Policies, proposed \in Thresholds :
        Engine!Accepted(Snapshot, proposed, policy) =>
            LET answer == Engine!AssessAndRecommend(Snapshot, proposed, policy)
                boundary == CASE answer.status = "NOT_NEEDED"    -> proposed
                              [] answer.status = "NO_SAFE_VALUE" -> liquidationThresholdBps + 1
                              [] OTHER                           -> answer.value
            IN  /\ \A c \in proposed..liquidationThresholdBps :
                      Engine!Admissible(Snapshot, c, policy) <=> c >= boundary
                /\ answer.status = "NO_SAFE_VALUE" => policy.stressExposureMode = "absolute"
                /\ answer.status = "NO_CHANGE" => answer.value = liquidationThresholdBps
=============================================================================
