------------------------------ MODULE MCMarket ------------------------------
(***************************************************************************)
(* MarketIndex for TLC.  Accounts are only compared.                       *)
(***************************************************************************)
EXTENDS MarketIndex

Policy(decrease, accounts, exposure, mode) ==
    [maxDecreaseBps |-> decrease, maxNewNormalLiquidatable |-> accounts,
     maxStressExposureBps |-> exposure, stressExposureMode |-> mode, stressBps |-> 3]

\* One that binds on each of the three limits, and one that binds on all.
MCPolicies ==
    {Policy(0, 2, BPS, "incremental"), Policy(BPS, 0, BPS, "incremental"),
     Policy(BPS, 2, 0, "incremental"), Policy(1, 0, 5, "absolute")}

Symmetry == Permutations(Accounts)
=============================================================================
