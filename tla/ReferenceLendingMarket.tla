----------------------- MODULE ReferenceLendingMarket -----------------------
(***************************************************************************)
(* contracts/src/ReferenceLendingMarket.sol with the balances of its two   *)
(* MockERC20 tokens.  A transaction that reverts is no step: reverts are   *)
(* guards, and so are the overflows of checked arithmetic, at MaxUint.     *)
(* The two unchecked blocks (repay and withdrawCollateral) wrap instead.   *)
(*                                                                         *)
(* An allowance only makes transferFrom revert, and every holder can give  *)
(* any allowance at any time, so allowances are left out.  The collateral  *)
(* and the debt token are different contracts, as in ParamShieldBootstrap. *)
(***************************************************************************)
EXTENDS Integers, Functions

CONSTANTS
    Accounts, Self,     \* the callers, and the market's own address
    Amounts,            \* amounts users ask for
    Thresholds,         \* MIN_LIQUIDATION_THRESHOLD_BPS..MAX_..., in units of BPS
    Prices,             \* positive prices
    BPS, WAD, CollateralScale, DebtScale,
    MaxVersion,         \* bound on stateVersion
    MaxSupply,          \* bound on what the token owners mint
    MaxUint             \* type(uint256).max of the other arithmetic

ASSUME MarketAssumption ==
    /\ Self \notin Accounts
    /\ Amounts \subseteq Nat \ {0} /\ Prices \subseteq Nat \ {0}
    /\ Thresholds \subseteq 1..BPS
    /\ {BPS, WAD, CollateralScale, DebtScale} \subseteq Nat \ {0}
    /\ DebtScale <= WAD     \* at most 18 decimals
    /\ MaxUint \in Nat
    /\ MaxSupply \in 0..MaxUint   \* totalSupply is a uint256
    /\ MaxVersion \in Nat \ {0}

VARIABLES
    owner, liquidationThresholdBps, collateralPriceUsdE18,
    totalCollateral, totalDebt, stateVersion,
    positions,          \* address -> [collateralAmount, debtAmount]
    collateralToken, debtToken      \* address -> balanceOf

parameters == <<owner, liquidationThresholdBps, collateralPriceUsdE18>>
accounting == <<totalCollateral, totalDebt, positions>>
tokens == <<collateralToken, debtToken>>
vars == <<parameters, accounting, stateVersion, tokens>>

Addresses == Accounts \cup {Self}
Uint == 0..MaxUint
Positions == [collateralAmount: Uint, debtAmount: Uint]
NoPosition == [collateralAmount |-> 0, debtAmount |-> 0]

TypeOK ==
    /\ owner \in Addresses
    /\ liquidationThresholdBps \in Thresholds /\ collateralPriceUsdE18 \in Prices
    /\ totalCollateral \in Uint /\ totalDebt \in Uint
    /\ stateVersion \in 1..MaxVersion
    /\ positions \in [Addresses -> Positions]
    /\ collateralToken \in [Addresses -> Uint] /\ debtToken \in [Addresses -> Uint]

\* The constructor, and the tokens the bootstrap mints to the market before it
\* seeds positions; accounts start without any.
Init ==
    /\ owner \in Accounts
    /\ liquidationThresholdBps \in Thresholds /\ collateralPriceUsdE18 \in Prices
    /\ totalCollateral = 0 /\ totalDebt = 0 /\ stateVersion = 1
    /\ positions = [a \in Addresses |-> NoPosition]
    /\ collateralToken \in [Addresses -> 0..MaxSupply]
    /\ debtToken \in [Addresses -> 0..MaxSupply]
    /\ \A a \in Accounts : collateralToken[a] = 0 /\ debtToken[a] = 0

(***************************************************************************)
(* Arithmetic                                                              *)
(***************************************************************************)

CollateralValue(p, price) == (p.collateralAmount * price) \div CollateralScale
DebtValue(p) == (p.debtAmount * WAD) \div DebtScale
Adjusted(p, threshold, price) == (CollateralValue(p, price) * threshold) \div BPS

\* _healthFactor, type(uint256).max without debt.
HealthFactor(p, threshold, price) ==
    IF p.debtAmount = 0 THEN MaxUint
    ELSE (Adjusted(p, threshold, price) * WAD) \div DebtValue(p)

\* No product of _healthFactor overflows.
HealthFits(p, threshold, price) ==
    p.debtAmount > 0 =>
        /\ p.collateralAmount * price <= MaxUint
        /\ CollateralValue(p, price) * threshold <= MaxUint
        /\ p.debtAmount * WAD <= MaxUint
        /\ Adjusted(p, threshold, price) * WAD <= MaxUint

Health(p) == HealthFactor(p, liquidationThresholdBps, collateralPriceUsdE18)
Fits(p)   == HealthFits(p, liquidationThresholdBps, collateralPriceUsdE18)

\* Mutant: compared after dividing by BPS once too often.
HealthyLoose(p) == Fits(p) /\ Health(p) * BPS >= WAD

\* The check of borrow, withdrawCollateral and seedPosition.
Healthy(p) == Fits(p) /\ Health(p) >= WAD

\* Unchecked subtraction.
Wrap(n) == n % (MaxUint + 1)

(***************************************************************************)
(* Pieces shared by the functions                                          *)
(***************************************************************************)

\* MockERC20._transfer: reverts on a short balance.
Transfer(balances, from, to, amount) ==
    LET debited == [balances EXCEPT ![from] = @ - amount]
    IN  [debited EXCEPT ![to] = @ + amount]

AdvanceStateVersion == stateVersion < MaxVersion /\ stateVersion' = stateVersion + 1

\* _emitPosition computes the health factor of the new position once more.
SetPosition(a, p) == positions' = [positions EXCEPT ![a] = p] /\ Fits(p)

(***************************************************************************)
(* The functions of the market                                             *)
(***************************************************************************)

DepositCollateral(sender, amount) ==
    /\ collateralToken[sender] >= amount
    /\ totalCollateral + amount <= MaxUint
    /\ collateralToken' = Transfer(collateralToken, sender, Self, amount)
    /\ totalCollateral' = totalCollateral + amount
    /\ SetPosition(sender, [positions[sender] EXCEPT !.collateralAmount = @ + amount])
    /\ AdvanceStateVersion
    /\ UNCHANGED <<parameters, totalDebt, debtToken>>

Borrow(sender, amount) ==
    LET p == [positions[sender] EXCEPT !.debtAmount = @ + amount] IN
    /\ debtToken[Self] >= amount
    /\ totalDebt + amount <= MaxUint
    /\ Healthy(p) /\ SetPosition(sender, p)
    /\ totalDebt' = totalDebt + amount
    /\ debtToken' = Transfer(debtToken, Self, sender, amount)
    /\ AdvanceStateVersion
    /\ UNCHANGED <<parameters, totalCollateral, collateralToken>>

\* Mutant: the result of transferFrom is ignored.
RepayUnpaid(sender, amount) ==
    /\ amount <= positions[sender].debtAmount
    /\ SetPosition(sender, [positions[sender] EXCEPT !.debtAmount = Wrap(@ - amount)])
    /\ totalDebt' = Wrap(totalDebt - amount)
    /\ AdvanceStateVersion
    /\ UNCHANGED <<parameters, totalCollateral, tokens>>

Repay(sender, amount) ==
    /\ amount <= positions[sender].debtAmount
    /\ debtToken[sender] >= amount
    /\ debtToken' = Transfer(debtToken, sender, Self, amount)
    /\ SetPosition(sender, [positions[sender] EXCEPT !.debtAmount = Wrap(@ - amount)])
    /\ totalDebt' = Wrap(totalDebt - amount)
    /\ AdvanceStateVersion
    /\ UNCHANGED <<parameters, totalCollateral, collateralToken>>

WithdrawCollateral(sender, amount) ==
    LET p == [positions[sender] EXCEPT !.collateralAmount = Wrap(@ - amount)] IN
    /\ amount <= positions[sender].collateralAmount
    /\ Healthy(p) /\ SetPosition(sender, p)
    /\ totalCollateral' = Wrap(totalCollateral - amount)
    /\ collateralToken[Self] >= amount
    /\ collateralToken' = Transfer(collateralToken, Self, sender, amount)
    /\ AdvanceStateVersion
    /\ UNCHANGED <<parameters, totalDebt, debtToken>>

\* Mutant: the collateral of a seeded position need not be there.
SeedPositionUnfunded(sender, account, collateral, debt) ==
    LET p == [collateralAmount |-> collateral, debtAmount |-> debt] IN
    /\ sender = owner
    /\ positions[account] = NoPosition
    /\ debtToken[Self] >= debt
    /\ Healthy(p) /\ SetPosition(account, p)
    /\ totalCollateral' = totalCollateral + collateral /\ totalDebt' = totalDebt + debt
    /\ debtToken' = Transfer(debtToken, Self, account, debt)
    /\ AdvanceStateVersion
    /\ UNCHANGED <<parameters, collateralToken>>

\* The account may be any address but zero, the market's own included.
SeedPosition(sender, account, collateral, debt) ==
    LET p == [collateralAmount |-> collateral, debtAmount |-> debt] IN
    /\ sender = owner
    /\ positions[account] = NoPosition
    /\ collateralToken[Self] >= totalCollateral + collateral
    /\ debtToken[Self] >= debt
    /\ totalDebt + debt <= MaxUint
    /\ Healthy(p) /\ SetPosition(account, p)
    /\ totalCollateral' = totalCollateral + collateral /\ totalDebt' = totalDebt + debt
    /\ debtToken' = Transfer(debtToken, Self, account, debt)
    /\ AdvanceStateVersion
    /\ UNCHANGED <<parameters, collateralToken>>

SetLiquidationThresholdBps(sender, newThresholdBps) ==
    /\ sender = owner
    /\ liquidationThresholdBps' = newThresholdBps
    /\ AdvanceStateVersion
    /\ UNCHANGED <<owner, collateralPriceUsdE18, accounting, tokens>>

\* Mutant: a price change is not a change of state.
SetCollateralPriceQuietly(sender, newPriceUsdE18) ==
    /\ sender = owner
    /\ collateralPriceUsdE18' = newPriceUsdE18
    /\ UNCHANGED <<owner, liquidationThresholdBps, accounting, stateVersion, tokens>>

SetCollateralPriceUsdE18(sender, newPriceUsdE18) ==
    /\ sender = owner
    /\ collateralPriceUsdE18' = newPriceUsdE18
    /\ AdvanceStateVersion
    /\ UNCHANGED <<owner, liquidationThresholdBps, accounting, tokens>>

TransferOwnership(sender, newOwner) ==
    /\ sender = owner
    /\ owner' = newOwner
    /\ AdvanceStateVersion
    /\ UNCHANGED <<liquidationThresholdBps, collateralPriceUsdE18, accounting, tokens>>

(***************************************************************************)
(* The tokens on their own                                                 *)
(***************************************************************************)

Supply(balances) == FoldFunction(+, 0, balances)

\* transfer(), by a holder, also to the market itself.
TokenTransfer(sender, to, amount) ==
    /\ \/ /\ collateralToken[sender] >= amount
          /\ collateralToken' = Transfer(collateralToken, sender, to, amount)
          /\ UNCHANGED debtToken
       \/ /\ debtToken[sender] >= amount
          /\ debtToken' = Transfer(debtToken, sender, to, amount)
          /\ UNCHANGED collateralToken
    /\ UNCHANGED <<parameters, accounting, stateVersion>>

\* mint(), by the token's owner.
Mint(to, amount) ==
    /\ \/ /\ Supply(collateralToken) + amount <= MaxSupply
          /\ collateralToken' = [collateralToken EXCEPT ![to] = @ + amount]
          /\ UNCHANGED debtToken
       \/ /\ Supply(debtToken) + amount <= MaxSupply
          /\ debtToken' = [debtToken EXCEPT ![to] = @ + amount]
          /\ UNCHANGED collateralToken
    /\ UNCHANGED <<parameters, accounting, stateVersion>>

UserStep ==
    \E sender \in Accounts, amount \in Amounts :
        \/ DepositCollateral(sender, amount) \/ Borrow(sender, amount)
        \/ Repay(sender, amount) \/ WithdrawCollateral(sender, amount)
        \/ \E to \in Addresses : TokenTransfer(sender, to, amount)

OwnerStep ==
    \E sender \in Accounts :
        \/ \E account \in Addresses, collateral, debt \in Amounts :
              SeedPosition(sender, account, collateral, debt)
        \/ \E t \in Thresholds : SetLiquidationThresholdBps(sender, t)
        \/ \E p \in Prices : SetCollateralPriceUsdE18(sender, p)
        \/ \E a \in Addresses : TransferOwnership(sender, a)

Next == UserStep \/ OwnerStep \/ \E to \in Addresses, amount \in Amounts : Mint(to, amount)

Spec == Init /\ [][Next]_vars

(***************************************************************************)
(* Properties                                                              *)
(***************************************************************************)

TotalsAreSums ==
    /\ totalCollateral = FoldFunction(+, 0, [a \in Addresses |-> positions[a].collateralAmount])
    /\ totalDebt = FoldFunction(+, 0, [a \in Addresses |-> positions[a].debtAmount])

\* The totals are the sums of the positions, so the unchecked subtractions of repay and
\* withdrawCollateral never wrap, and the market holds the collateral it owes, whatever
\* is transferred, seeded or withdrawn, and in whatever order: nobody's withdrawal can
\* use up another's.
CollateralIsBacked == TotalsAreSums /\ collateralToken[Self] >= totalCollateral

\* What the market holds and is owed in the debt token never shrinks: every
\* token that leaves is recorded as debt, and no debt disappears unpaid.
LentIsOwed == [][debtToken'[Self] + totalDebt' >= debtToken[Self] + totalDebt]_vars

\* A healthy position becomes unhealthy only by a price or a threshold change:
\* no borrowing, withdrawal, rounding or seeding leaves one below WAD.
OnlyParametersHurt ==
    [][\A a \in Addresses :
          /\ Fits(positions[a]) /\ Health(positions[a]) >= WAD
          /\ ~(Health(positions[a]) >= WAD)'
          => \/ collateralPriceUsdE18' # collateralPriceUsdE18
             \/ liquidationThresholdBps' # liquidationThresholdBps]_vars

\* Every change to what the market records takes exactly one version, and a
\* version is never reused: what the executor's gate relies on.
EveryChangeIsVersioned ==
    [][<<parameters, accounting>>' # <<parameters, accounting>>
          => stateVersion' = stateVersion + 1]_vars
=============================================================================
