------------------------ MODULE ParamShieldExecutor ------------------------
(***************************************************************************)
(* The on-chain execution gate (contracts/src/ParamShieldExecutor.sol)     *)
(* together with the versioned markets it calls.                           *)
(*                                                                         *)
(* A change is the preimage of a changeHash: the proposing operator and    *)
(* the whole intent.  The hash is taken to be injective, so `proposals` is *)
(* a partial function on changes, and a change outside its domain is a     *)
(* proposal in state NONE.  A transaction that reverts is no step at all:  *)
(* every revert of the source is a conjunct of a guard.                    *)
(*                                                                         *)
(* A market is seen through what the gate can tell of it: stateVersion,    *)
(* its owner, the parameter the gate sets, and `rest` (positions, price,   *)
(* token balances).  ReferenceLendingMarket is the detailed market.        *)
(***************************************************************************)
EXTENDS Integers, FiniteSets

CONSTANTS
    Accounts,       \* externally owned accounts
    Self,           \* the address of the executor
    Targets,        \* the markets
    Thresholds,     \* arguments of setLiquidationThresholdBps that validate
    Rests,          \* the part of a market's state the gate never reads
    Selectors,      \* function selectors: the admin may allow any of them
    Nonces,
    Evidence,       \* non-zero evidence hashes
    MaxVersion,     \* type(uint256).max of stateVersion: ++ reverts there
    MaxEpoch,       \* type(uint256).max of authorizationEpoch
    MaxTime,        \* last block timestamp explored
    MaxProposals,   \* bound on the changes proposed
    MaxMoves        \* bound on the moves of a version and of the epoch together

ASSUME SelfAssumption == Self \notin Accounts
\* The constructor allows it.
ASSUME SelectorAssumption == "setLiquidationThresholdBps" \in Selectors
\* Both counters start at 1.
ASSUME BoundsAssumption ==
    MaxVersion \in Nat \ {0} /\ MaxEpoch \in Nat \ {0} /\ MaxTime \in Nat

VARIABLES
    admin, operator, decisionAuthority, authorizationEpoch, allowedCalls,
    proposals,      \* change -> [state, decidedBy]
    nonceUsed,      \* pairs <<proposer, nonce>>
    market,         \* target -> [version, owner, threshold, rest]
    now,            \* block.timestamp
    disturbed       \* history: proposed changes that saw their world change

authority == <<admin, operator, decisionAuthority, allowedCalls>>
authVars  == <<authority, authorizationEpoch>>
vars == <<authVars, proposals, nonceUsed, market, now, disturbed>>

(***************************************************************************)
(* Data                                                                    *)
(***************************************************************************)

\* Every address that can own a market.
Addresses == Accounts \cup {Self}

\* The functions of the market that change it.  Any other selector is that of a
\* view, or of no function, and then the call reverts.
OwnerOnly == {"setLiquidationThresholdBps", "transferOwnership", "setCollateralPriceUsdE18",
              "seedPosition"}
Mutators == OwnerOnly \cup {"depositCollateral", "borrow", "repay", "withdrawCollateral"}

\* Calldata: the selector decides the function and `arg` is what the function
\* makes of its arguments.
Calls == [selector: Selectors \cap {"setLiquidationThresholdBps"}, arg: Thresholds]
            \cup [selector: Selectors \cap {"transferOwnership"}, arg: Addresses]
            \cup [selector: (Selectors \cap Mutators)
                               \ {"setLiquidationThresholdBps", "transferOwnership"}, arg: Rests]
            \cup [selector: Selectors \ Mutators, arg: {Self}]
Mutates(call) == call.selector \in Mutators

\* The intents that pass the checks reading the intent alone: this chain's id,
\* a target, no value, an evidence hash and at least a selector of calldata; no
\* counter is ever 0.
Intents == [target: Targets, call: Calls, nonce: Nonces, evidenceHash: Evidence,
            expectedStateVersion: 1..MaxVersion,
            expectedAuthorizationEpoch: 1..MaxEpoch, expiresAt: 0..MaxTime]
Changes == [operator: Accounts, intent: Intents]

Decisions == {"ALLOWED", "BLOCKED", "ESCALATED"}
ProposalStates == {"PENDING", "EXECUTED", "EXPIRED"} \cup Decisions
Proposals == [state: ProposalStates, decidedBy: Accounts \cup {Self}]
Markets == [version: 0..MaxVersion, owner: Addresses, threshold: Thresholds, rest: Rests]

hashChangeIntent(sender, intent) == [operator |-> sender, intent |-> intent]
State(c) == IF c \in DOMAIN proposals THEN proposals[c].state ELSE "NONE"
Live(c)  == State(c) \in {"PENDING", "ALLOWED", "ESCALATED"}

\* What a market holds besides its version.
Content(m) == <<m.owner, m.threshold, m.rest>>

TypeOK ==
    /\ admin \in Accounts /\ operator \in Accounts /\ decisionAuthority \in Accounts
    /\ authorizationEpoch \in 0..MaxEpoch
    /\ allowedCalls \in SUBSET (Targets \X Selectors)
    /\ DOMAIN proposals \subseteq Changes
    /\ proposals \in [DOMAIN proposals -> Proposals]
    /\ nonceUsed \in SUBSET (Accounts \X Nonces)
    /\ market \in [Targets -> Markets]
    /\ now \in 0..MaxTime
    /\ disturbed \subseteq DOMAIN proposals

\* The constructor: the caller picks three non-zero roles, which may coincide,
\* and the initial target's threshold setter is allowed.  The bootstrap hands
\* the market to the executor; a market left with its deployer is legal too.
Init ==
    /\ admin \in Accounts /\ operator \in Accounts /\ decisionAuthority \in Accounts
    /\ authorizationEpoch = 1
    /\ \E initialTarget \in Targets :
          allowedCalls = {<<initialTarget, "setLiquidationThresholdBps">>}
    /\ proposals = << >>
    /\ nonceUsed = {}
    /\ market \in [Targets -> [version: {1}, owner: Addresses,
                               threshold: Thresholds, rest: Rests]]
    /\ now = 0
    /\ disturbed = {}

(***************************************************************************)
(* The guards shared by propose, recordDecision and execute                *)
(***************************************************************************)

\* Mutant: the role separation check is left to the constructor.
CheckPreconditionsNoSeparation(intent) ==
    /\ intent.expectedAuthorizationEpoch = authorizationEpoch
    /\ intent.expectedStateVersion = market[intent.target].version

\* _checkPreconditions
CheckPreconditions(intent) ==
    /\ operator # decisionAuthority
    /\ intent.expectedAuthorizationEpoch = authorizationEpoch
    /\ intent.expectedStateVersion = market[intent.target].version

\* _validateIntent, less the checks that Intents already satisfies
ValidateIntent(intent) ==
    /\ now <= intent.expiresAt
    /\ <<intent.target, intent.call.selector>> \in allowedCalls
    /\ CheckPreconditions(intent)

(***************************************************************************)
(* The market side.  _advanceStateVersion runs in every mutator, in the    *)
(* same transaction as the change.                                         *)
(***************************************************************************)

Advance(m) == [m EXCEPT !.version = @ + 1]

\* Mutant: the threshold setter forgets to advance the version.
AppliedQuietly(m, call) ==
    CASE call.selector = "setLiquidationThresholdBps" -> [m EXCEPT !.threshold = call.arg]
      [] call.selector = "transferOwnership"          -> Advance([m EXCEPT !.owner = call.arg])
      [] ~Mutates(call)                               -> m
      [] OTHER                                        -> Advance([m EXCEPT !.rest = call.arg])

\* What a call that succeeds makes of the market.
Applied(m, call) ==
    CASE call.selector = "setLiquidationThresholdBps" -> Advance([m EXCEPT !.threshold = call.arg])
      [] call.selector = "transferOwnership"          -> Advance([m EXCEPT !.owner = call.arg])
      [] ~Mutates(call)                               -> m
      [] OTHER                                        -> Advance([m EXCEPT !.rest = call.arg])

\* It can succeed; whether balances and positions let it is not seen here.
Succeeds(sender, m, call) ==
    /\ call.selector \in OwnerOnly => m.owner = sender
    /\ Mutates(call) => m.version < MaxVersion

\* Mutant: the setters lost onlyOwner.
AnyoneCalls(sender, t, call) ==
    /\ call.selector \in OwnerOnly /\ market[t].version < MaxVersion
    /\ market' = [market EXCEPT ![t] = Applied(@, call)]
    /\ UNCHANGED <<authVars, proposals, nonceUsed, now>>

\* The owner of a market calls it directly, without the gate.
MarketOwnerCall(sender, t, call) ==
    /\ call.selector \in OwnerOnly /\ Succeeds(sender, market[t], call)
    /\ market' = [market EXCEPT ![t] = Applied(@, call)]
    /\ UNCHANGED <<authVars, proposals, nonceUsed, now>>

\* deposit, borrow, repay and withdraw by their account, seed and price changes
\* by an owner other than the gate.
MarketMutation(t, rest) ==
    /\ market[t].version < MaxVersion
    /\ market' = [market EXCEPT ![t] = Advance([@ EXCEPT !.rest = rest])]
    /\ UNCHANGED <<authVars, proposals, nonceUsed, now>>

(***************************************************************************)
(* The gate                                                                *)
(***************************************************************************)

\* Mutant: the nonce is recorded but not looked up.
ProposeAnyNonce(sender, intent) ==
    LET c == hashChangeIntent(sender, intent) IN
    /\ sender = operator
    /\ ValidateIntent(intent)
    /\ c \notin DOMAIN proposals
    /\ nonceUsed' = nonceUsed \cup {<<sender, intent.nonce>>}
    /\ proposals' = [d \in DOMAIN proposals \cup {c} |->
                       IF d = c THEN [state |-> "PENDING", decidedBy |-> Self]
                                ELSE proposals[d]]
    /\ UNCHANGED <<authVars, market, now>>

Propose(sender, intent) ==
    LET c == hashChangeIntent(sender, intent) IN
    /\ sender = operator
    /\ ValidateIntent(intent)
    /\ <<sender, intent.nonce>> \notin nonceUsed
    /\ c \notin DOMAIN proposals
    /\ nonceUsed' = nonceUsed \cup {<<sender, intent.nonce>>}
    /\ proposals' = [d \in DOMAIN proposals \cup {c} |->
                       IF d = c THEN [state |-> "PENDING", decidedBy |-> Self]
                                ELSE proposals[d]]
    /\ UNCHANGED <<authVars, market, now>>

RecordDecision(sender, c, decision) ==
    /\ sender = decisionAuthority
    /\ State(c) = "PENDING"
    /\ now <= c.intent.expiresAt
    /\ CheckPreconditions(c.intent)
    /\ proposals' = [proposals EXCEPT ![c] = [state |-> decision, decidedBy |-> sender]]
    /\ UNCHANGED <<authVars, nonceUsed, market, now>>

\* The target is called with the executor as msg.sender; a failing call reverts
\* the state change of the proposal with it.
Execute(sender, intent) ==
    LET c == hashChangeIntent(sender, intent)
        t == intent.target
    IN
    /\ sender = operator
    /\ ValidateIntent(intent)
    /\ State(c) = "ALLOWED"
    /\ Succeeds(Self, market[t], intent.call)
    /\ proposals' = [proposals EXCEPT ![c].state = "EXECUTED"]
    /\ market' = [market EXCEPT ![t] = Applied(@, intent.call)]
    /\ UNCHANGED <<authVars, nonceUsed, now>>

\* Anyone may call it.
MarkExpired(c) ==
    /\ Live(c)
    /\ now > c.intent.expiresAt
    /\ proposals' = [proposals EXCEPT ![c].state = "EXPIRED"]
    /\ UNCHANGED <<authVars, nonceUsed, market, now>>

AdvanceAuthorizationEpoch ==
    /\ authorizationEpoch < MaxEpoch
    /\ authorizationEpoch' = authorizationEpoch + 1

SetAllowedCall(sender, t, selector, allowed) ==
    /\ sender = admin
    /\ allowedCalls' = IF allowed THEN allowedCalls \cup {<<t, selector>>}
                                  ELSE allowedCalls \ {<<t, selector>>}
    /\ AdvanceAuthorizationEpoch
    /\ UNCHANGED <<admin, operator, decisionAuthority, proposals, nonceUsed, market, now>>

\* Mutant: a rotation of the operator keeps the epoch.
SetOperatorQuietly(sender, newOperator) ==
    /\ sender = admin
    /\ operator' = newOperator
    /\ UNCHANGED <<admin, decisionAuthority, allowedCalls, authorizationEpoch,
                   proposals, nonceUsed, market, now>>

SetOperator(sender, newOperator) ==
    /\ sender = admin
    /\ operator' = newOperator
    /\ AdvanceAuthorizationEpoch
    /\ UNCHANGED <<admin, decisionAuthority, allowedCalls, proposals, nonceUsed, market, now>>

SetDecisionAuthority(sender, newDecisionAuthority) ==
    /\ sender = admin
    /\ decisionAuthority' = newDecisionAuthority
    /\ AdvanceAuthorizationEpoch
    /\ UNCHANGED <<admin, operator, allowedCalls, proposals, nonceUsed, market, now>>

TransferOwnership(sender, newAdmin) ==
    /\ sender = admin
    /\ admin' = newAdmin
    /\ AdvanceAuthorizationEpoch
    /\ UNCHANGED <<operator, decisionAuthority, allowedCalls, proposals, nonceUsed, market, now>>

\* A later block.
Tick ==
    /\ now < MaxTime
    /\ now' = now + 1
    /\ UNCHANGED <<authVars, proposals, nonceUsed, market>>

(***************************************************************************)
(* The specification.  Watch is history only: it observes every step and   *)
(* marks the changes already proposed whose authority or whose target's    *)
(* content the step altered, whatever the version counters say.            *)
(***************************************************************************)

Watch ==
    disturbed' = disturbed \cup
        {c \in DOMAIN proposals :
            \/ authority' # authority
            \/ Content(market'[c.intent.target]) # Content(market[c.intent.target])}

GateStep ==
    \E sender \in Accounts :
        \/ /\ Cardinality(DOMAIN proposals) < MaxProposals
           /\ \E intent \in Intents : Propose(sender, intent)
        \/ \E c \in DOMAIN proposals :
              \/ \E d \in Decisions : RecordDecision(sender, c, d)
              \/ Execute(sender, c.intent)
              \/ MarkExpired(c)

AdminStep ==
    \E sender \in Accounts :
        \/ \E t \in Targets, s \in Selectors, b \in BOOLEAN : SetAllowedCall(sender, t, s, b)
        \/ \E a \in Accounts : \/ SetOperator(sender, a)
                               \/ SetDecisionAuthority(sender, a)
                               \/ TransferOwnership(sender, a)

MarketStep ==
    \E t \in Targets :
        \/ \E sender \in Accounts, call \in Calls : MarketOwnerCall(sender, t, call)
        \/ \E rest \in Rests : MarketMutation(t, rest)

WithinMaxMoves == \A t \in Targets : authorizationEpoch' + market'[t].version <= 2 + MaxMoves

Next == (GateStep \/ AdminStep \/ MarketStep \/ Tick) /\ WithinMaxMoves /\ Watch

Spec == Init /\ [][Next]_vars

(***************************************************************************)
(* Properties                                                              *)
(***************************************************************************)

Executes(c) == State(c) # "EXECUTED" /\ State(c)' = "EXECUTED"

\* A change executes only if, since it was proposed, no role, no allowed call
\* and nothing in its target has changed, a change that was later restored
\* included: the version and epoch compared by _checkPreconditions must move
\* with every mutation, whoever makes it and in whatever order.
ExecutesUndisturbed == [][\A c \in DOMAIN proposals : Executes(c) => c \notin disturbed]_vars

\* While the executor owns a market, the owner and the threshold of that market
\* move only by the execution of a change that an authority allowed, and then to
\* exactly what that change says.
OnlyTheGateMoves ==
    [][\A t \in Targets :
          /\ market[t].owner = Self
          /\ \/ market'[t].owner # market[t].owner
             \/ market'[t].threshold # market[t].threshold
          => \E c \in DOMAIN proposals :
                /\ c.intent.target = t /\ State(c) = "ALLOWED" /\ Executes(c)
                /\ market'[t] = Applied(market[t], c.intent.call)]_vars

\* Whoever decides a change is not who proposed it, although roles rotate
\* between the two calls and the constructor lets them coincide.
SeparationOfDuties ==
    \A c \in DOMAIN proposals :
        State(c) \in {"ALLOWED", "EXECUTED"} => proposals[c].decidedBy \in Accounts \ {c.operator}

\* A change that moves its market spends the version it was reviewed against:
\* nothing else reviewed against that version executes after it, whichever
\* functions are allowed and whoever has moved the market in between.
VersionIsSpent ==
    [][\A c, d \in DOMAIN proposals :
          /\ Executes(c) /\ State(d) = "EXECUTED" /\ Mutates(d.intent.call)
          /\ c.intent.target = d.intent.target
          => c.intent.expectedStateVersion # d.intent.expectedStateVersion]_vars

\* A proposer's nonce names one change, after role rotation and expiry too.
OneChangePerNonce ==
    \A c, d \in DOMAIN proposals :
        c.operator = d.operator /\ c.intent.nonce = d.intent.nonce => c = d

\* BLOCKED, EXECUTED and EXPIRED are final and an ESCALATED change can only
\* expire: nothing refused, postponed or spent comes back.
NoWayBack ==
    [][\A c \in DOMAIN proposals :
          /\ State(c) \in {"BLOCKED", "EXECUTED", "EXPIRED"} => State(c)' = State(c)
          /\ State(c) = "ESCALATED" => State(c)' \in {"ESCALATED", "EXPIRED"}]_vars

\* The gate implements the abstract one.
In(states) == {c \in DOMAIN proposals : proposals[c].state \in states}
Gate == INSTANCE ChangeGate WITH
            TargetOf <- LAMBDA c : c.intent.target,
            pending  <- In({"PENDING"}),
            approved <- In({"ALLOWED"}),
            applied  <- In({"EXECUTED"}),
            closed   <- In({"BLOCKED", "ESCALATED", "EXPIRED"}),
            stale    <- disturbed,
            content  <- [t \in Targets |-> Content(market[t])]
\* Versions, epochs and nonces add nothing to what ChangeGate allows: see there.
ImplementsChangeGate == Gate!Spec
=============================================================================
