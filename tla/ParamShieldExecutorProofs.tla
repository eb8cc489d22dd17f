--------------------- MODULE ParamShieldExecutorProofs ---------------------
(***************************************************************************)
(* Theorems about ParamShieldExecutor for every set of accounts, markets,  *)
(* thresholds and intents and every bound.                                 *)
(*                                                                         *)
(* The argument rests on one fact about a step, CountersFollow: a counter  *)
(* never goes back, and it moves whenever what it counts moves.  From it,  *)
(* a change whose world was disturbed expects an old counter, and the      *)
(* preconditions of the gate, which compare the counters only, exclude it. *)
(*                                                                         *)
(* The last part is about the subgraph behind the gate: what its handlers  *)
(* do to the index, log by log, follows what the transaction did to the    *)
(* gate.                                                                   *)
(***************************************************************************)
EXTENDS GateIndex, FiniteSetTheorems, WellFoundedInduction, TLAPS

\* Every change holds its proposer's nonce.
NoncesSpent ==
    \A c \in DOMAIN proposals : <<c.operator, c.intent.nonce>> \in nonceUsed

\* No change is ahead of the counters it names.
NotAhead ==
    \A c \in DOMAIN proposals :
        /\ c.intent.expectedAuthorizationEpoch <= authorizationEpoch
        /\ c.intent.expectedStateVersion <= market[c.intent.target].version

\* The counters a change names have moved past it.
Outdated(c) ==
    \/ c.intent.expectedAuthorizationEpoch < authorizationEpoch
    \/ c.intent.expectedStateVersion < market[c.intent.target].version

DisturbedIsOutdated == \A c \in disturbed : Outdated(c)

\* Within an epoch the operator is the proposer.
ProposerOfEpoch ==
    \A c \in DOMAIN proposals :
        c.intent.expectedAuthorizationEpoch = authorizationEpoch => c.operator = operator

\* The execution of a call that mutates moves its market past the version it was
\* reviewed against.
ExecutedIsOutdated ==
    \A c \in DOMAIN proposals :
        State(c) = "EXECUTED" /\ Mutates(c.intent.call) =>
            c.intent.expectedStateVersion < market[c.intent.target].version

IInv ==
    /\ TypeOK
    /\ NoncesSpent
    /\ NotAhead
    /\ DisturbedIsOutdated
    /\ ProposerOfEpoch
    /\ ExecutedIsOutdated
    /\ SeparationOfDuties
    /\ OneChangePerNonce

-----------------------------------------------------------------------------
(* Lemmas about the market record                                          *)

\* Every mutator of the market adds one to the version.
LEMMA AdvanceLemma ==
    ASSUME NEW m \in Markets, m.version < MaxVersion
    PROVE  /\ Advance(m) \in Markets
           /\ Advance(m).version = m.version + 1
  BY BoundsAssumption DEF Advance, Markets

\* So does a call of one of them, whatever it sets; any other call changes nothing.
LEMMA AppliedLemma ==
    ASSUME NEW m \in Markets, NEW call \in Calls, Mutates(call) => m.version < MaxVersion
    PROVE  /\ Applied(m, call) \in Markets
           /\ Mutates(call) => Applied(m, call).version = m.version + 1
           /\ ~Mutates(call) => Applied(m, call) = m
<1>1. CASE call.selector = "transferOwnership"
  <2>1. call.arg \in Addresses /\ Mutates(call)
    BY <1>1 DEF Calls, Mutates, Mutators, OwnerOnly
  <2>2. /\ [m EXCEPT !.owner = call.arg] \in Markets
        /\ [m EXCEPT !.owner = call.arg].version = m.version
    BY <2>1 DEF Markets
  <2>3. Applied(m, call) = Advance([m EXCEPT !.owner = call.arg])
    BY <1>1, <2>1 DEF Applied
  <2>4. QED
    BY <2>1, <2>2, <2>3, AdvanceLemma
<1>2. CASE call.selector = "setLiquidationThresholdBps"
  <2>1. call.arg \in Thresholds /\ Mutates(call)
    BY <1>2 DEF Calls, Mutates, Mutators, OwnerOnly
  <2>2. /\ [m EXCEPT !.threshold = call.arg] \in Markets
        /\ [m EXCEPT !.threshold = call.arg].version = m.version
    BY <2>1 DEF Markets
  <2>3. Applied(m, call) = Advance([m EXCEPT !.threshold = call.arg])
    BY <1>2, <2>1 DEF Applied
  <2>4. QED
    BY <2>1, <2>2, <2>3, AdvanceLemma
<1>3. CASE /\ Mutates(call)
           /\ call.selector \notin {"transferOwnership", "setLiquidationThresholdBps"}
  <2>1. call.arg \in Rests
    BY <1>3 DEF Calls, Mutates
  <2>2. /\ [m EXCEPT !.rest = call.arg] \in Markets
        /\ [m EXCEPT !.rest = call.arg].version = m.version
    BY <2>1 DEF Markets
  <2>3. Applied(m, call) = Advance([m EXCEPT !.rest = call.arg])
    BY <1>3 DEF Applied
  <2>4. QED
    BY <1>3, <2>2, <2>3, AdvanceLemma
<1>4. CASE ~Mutates(call)
  <2>1. Applied(m, call) = m
    BY <1>4 DEF Applied, Mutates, Mutators, OwnerOnly
  <2>2. QED
    BY <1>4, <2>1
<1>5. QED
  BY <1>1, <1>2, <1>3, <1>4

\* What a market step, and an execution, does to the markets: one of them advances
\* or keeps all it holds.
Advances(t) ==
    /\ t \in Targets
    /\ market' \in [Targets -> Markets]
    /\ market'[t] = market[t] \/ market'[t].version = market[t].version + 1
    /\ \A u \in Targets \ {t} : market'[u] = market[u]

-----------------------------------------------------------------------------
(* Each action, reduced to what the invariant needs of it                  *)

LEMMA MarketOwnerCallLemma ==
    ASSUME TypeOK, NEW s \in Accounts, NEW t \in Targets, NEW call \in Calls,
           MarketOwnerCall(s, t, call)
    PROVE  Advances(t) /\ UNCHANGED <<authVars, proposals, nonceUsed, now>>
<1>1. market[t] \in Markets /\ (Mutates(call) => market[t].version < MaxVersion)
  BY DEF TypeOK, MarketOwnerCall, Succeeds
<1>2. /\ Applied(market[t], call) \in Markets
      /\ \/ Applied(market[t], call) = market[t]
         \/ Applied(market[t], call).version = market[t].version + 1
  BY <1>1, AppliedLemma
<1>3. QED
  BY <1>2 DEF MarketOwnerCall, TypeOK, Advances

LEMMA MarketMutationLemma ==
    ASSUME TypeOK, NEW t \in Targets, NEW r \in Rests, MarketMutation(t, r)
    PROVE  Advances(t) /\ UNCHANGED <<authVars, proposals, nonceUsed, now>>
<1>1. market[t] \in Markets /\ market[t].version < MaxVersion
  BY DEF TypeOK, MarketMutation
<1>2. /\ [market[t] EXCEPT !.rest = r] \in Markets
      /\ [market[t] EXCEPT !.rest = r].version = market[t].version
  BY <1>1 DEF Markets
<1>3. /\ Advance([market[t] EXCEPT !.rest = r]) \in Markets
      /\ Advance([market[t] EXCEPT !.rest = r]).version = market[t].version + 1
  BY <1>1, <1>2, AdvanceLemma
<1>4. QED
  BY <1>3 DEF MarketMutation, TypeOK, Advances

\* One known change moves to a new state; nothing else of proposals does.
Moves(c, rec) ==
    /\ c \in DOMAIN proposals
    /\ rec \in Proposals
    /\ proposals' = [proposals EXCEPT ![c] = rec]

LEMMA RecordDecisionLemma ==
    ASSUME TypeOK, NEW s \in Accounts, NEW c \in DOMAIN proposals, NEW d \in Decisions,
           RecordDecision(s, c, d)
    PROVE  /\ Moves(c, [state |-> d, decidedBy |-> s])
           /\ State(c) = "PENDING"
           /\ s # operator
           /\ c.intent.expectedAuthorizationEpoch = authorizationEpoch
           /\ UNCHANGED <<authVars, nonceUsed, market, now>>
  BY DEF RecordDecision, CheckPreconditions, Moves, Proposals, ProposalStates

LEMMA MarkExpiredLemma ==
    ASSUME TypeOK, NEW c \in DOMAIN proposals, MarkExpired(c)
    PROVE  /\ Moves(c, [proposals[c] EXCEPT !.state = "EXPIRED"])
           /\ State(c) \in {"PENDING", "ALLOWED", "ESCALATED"}
           /\ UNCHANGED <<authVars, nonceUsed, market, now>>
<1>1. proposals[c] \in Proposals
  BY DEF TypeOK
<1>2. [proposals[c] EXCEPT !.state = "EXPIRED"] \in Proposals
  BY <1>1 DEF Proposals, ProposalStates
<1>3. QED
  BY <1>2 DEF MarkExpired, Moves, Live

\* The executed change is the one whose proposer is the caller.
LEMMA ExecuteLemma ==
    ASSUME TypeOK, NEW s \in Accounts, NEW intent \in Intents, Execute(s, intent)
    PROVE  LET c == hashChangeIntent(s, intent) IN
           /\ c.intent = intent /\ c.operator = s
           /\ Moves(c, [proposals[c] EXCEPT !.state = "EXECUTED"])
           /\ State(c) = "ALLOWED"
           /\ Advances(intent.target)
           /\ market'[intent.target] = Applied(market[intent.target], intent.call)
           /\ Mutates(intent.call) =>
                 market'[intent.target].version = market[intent.target].version + 1
           /\ intent.expectedAuthorizationEpoch = authorizationEpoch
           /\ intent.expectedStateVersion = market[intent.target].version
           /\ UNCHANGED <<authVars, nonceUsed, now>>
<1> DEFINE c == hashChangeIntent(s, intent)
           t == intent.target
<1>1. c \in DOMAIN proposals /\ State(c) = "ALLOWED" /\ c.intent = intent /\ c.operator = s
  BY DEF Execute, State, hashChangeIntent
<1>2. t \in Targets /\ intent.call \in Calls
  BY DEF Intents
<1>3. market[t] \in Markets /\ (Mutates(intent.call) => market[t].version < MaxVersion)
  BY <1>2 DEF Execute, Succeeds, TypeOK
<1>4. /\ Applied(market[t], intent.call) \in Markets
      /\ Mutates(intent.call) =>
            Applied(market[t], intent.call).version = market[t].version + 1
      /\ ~Mutates(intent.call) => Applied(market[t], intent.call) = market[t]
  BY <1>2, <1>3, AppliedLemma
<1>5. market' = [market EXCEPT ![t] = Applied(@, intent.call)]
  BY DEF Execute
<1>6. /\ Advances(t) /\ market'[t] = Applied(market[t], intent.call)
      /\ Mutates(intent.call) => market'[t].version = market[t].version + 1
  BY <1>2, <1>4, <1>5 DEF TypeOK, Advances
<1>7. [proposals[c] EXCEPT !.state = "EXECUTED"] \in Proposals
  BY <1>1 DEF TypeOK, Proposals, ProposalStates
<1>8. Moves(c, [proposals[c] EXCEPT !.state = "EXECUTED"])
  BY <1>1, <1>7 DEF Execute, Moves
<1>9. /\ intent.expectedAuthorizationEpoch = authorizationEpoch
      /\ intent.expectedStateVersion = market[t].version
      /\ UNCHANGED <<authVars, nonceUsed, now>>
  BY DEF Execute, ValidateIntent, CheckPreconditions
<1>10. QED
  BY <1>1, <1>6, <1>8, <1>9

\* Every administrative call advances the epoch.
LEMMA AdminLemma ==
    ASSUME TypeOK, AdminStep
    PROVE  /\ authorizationEpoch' = authorizationEpoch + 1
           /\ authorizationEpoch' \in 0..MaxEpoch
           /\ admin' \in Accounts /\ operator' \in Accounts /\ decisionAuthority' \in Accounts
           /\ allowedCalls' \in SUBSET (Targets \X Selectors)
           /\ UNCHANGED <<proposals, nonceUsed, market, now>>
<1>1. AdvanceAuthorizationEpoch => /\ authorizationEpoch' = authorizationEpoch + 1
                                   /\ authorizationEpoch' \in 0..MaxEpoch
  BY BoundsAssumption DEF AdvanceAuthorizationEpoch, TypeOK
<1>2. ASSUME NEW s \in Accounts, NEW t \in Targets, NEW sel \in Selectors, NEW b \in BOOLEAN,
             SetAllowedCall(s, t, sel, b)
      PROVE  /\ AdvanceAuthorizationEpoch
             /\ allowedCalls' \in SUBSET (Targets \X Selectors)
             /\ UNCHANGED <<admin, operator, decisionAuthority, proposals, nonceUsed, market, now>>
  <2>1. <<t, sel>> \in Targets \X Selectors
    OBVIOUS
  <2>2. QED
    BY <1>2, <2>1 DEF SetAllowedCall, TypeOK
<1>3. ASSUME NEW s \in Accounts, NEW a \in Accounts,
             SetOperator(s, a) \/ SetDecisionAuthority(s, a) \/ TransferOwnership(s, a)
      PROVE  /\ AdvanceAuthorizationEpoch
             /\ admin' \in Accounts /\ operator' \in Accounts /\ decisionAuthority' \in Accounts
             /\ UNCHANGED <<allowedCalls, proposals, nonceUsed, market, now>>
  BY <1>3 DEF SetOperator, SetDecisionAuthority, TransferOwnership, TypeOK
<1>4. QED
  BY <1>1, <1>2, <1>3 DEF AdminStep, TypeOK

LEMMA MarketLemma ==
    ASSUME TypeOK, MarketStep
    PROVE  /\ \E t \in Targets : Advances(t)
           /\ UNCHANGED <<authVars, proposals, nonceUsed, now>>
  BY MarketOwnerCallLemma, MarketMutationLemma DEF MarketStep

-----------------------------------------------------------------------------
(* Counters                                                                *)

\* A counter never goes back, and moves whenever what it counts moves.
CountersFollow ==
    /\ authorizationEpoch' >= authorizationEpoch
    /\ authority' # authority => authorizationEpoch' > authorizationEpoch
    /\ \A t \in Targets :
          /\ market'[t].version >= market[t].version
          /\ Content(market'[t]) # Content(market[t]) => market'[t].version > market[t].version

LEMMA AdvancesCounts ==
    ASSUME TypeOK, NEW t \in Targets, Advances(t), UNCHANGED authVars
    PROVE  CountersFollow
<1>1. \A u \in Targets : market[u].version \in Nat
  BY BoundsAssumption DEF TypeOK, Markets
<1>2. authorizationEpoch \in Nat
  BY BoundsAssumption DEF TypeOK
<1>3. QED
  BY <1>1, <1>2 DEF Advances, CountersFollow, authVars

LEMMA StillCounts ==
    ASSUME TypeOK, UNCHANGED <<authVars, market>>
    PROVE  CountersFollow
<1>1. \A u \in Targets : market[u].version \in Nat
  BY BoundsAssumption DEF TypeOK, Markets
<1>2. authorizationEpoch \in Nat
  BY BoundsAssumption DEF TypeOK
<1>3. QED
  BY <1>1, <1>2 DEF CountersFollow, authVars

\* The fact the whole argument rests on, for every step of the system.
LEMMA StepCounts ==
    ASSUME TypeOK, Next
    PROVE  CountersFollow
<1>1. CASE GateStep
  <2>1. ASSUME NEW s \in Accounts, NEW intent \in Intents, Propose(s, intent)
        PROVE  CountersFollow
    BY <2>1, StillCounts DEF Propose
  <2>2. ASSUME NEW s \in Accounts, NEW c \in DOMAIN proposals, NEW d \in Decisions,
               RecordDecision(s, c, d)
        PROVE  CountersFollow
    BY <2>2, StillCounts DEF RecordDecision
  <2>3. ASSUME NEW s \in Accounts, NEW c \in DOMAIN proposals, Execute(s, c.intent)
        PROVE  CountersFollow
    <3>1. c.intent \in Intents /\ c.intent.target \in Targets
      BY DEF TypeOK, Changes, Intents
    <3>2. Advances(c.intent.target) /\ UNCHANGED authVars
      BY <2>3, <3>1, ExecuteLemma
    <3>3. QED
      BY <3>1, <3>2, AdvancesCounts
  <2>4. ASSUME NEW c \in DOMAIN proposals, MarkExpired(c)
        PROVE  CountersFollow
    BY <2>4, StillCounts DEF MarkExpired
  <2>5. QED
    BY <1>1, <2>1, <2>2, <2>3, <2>4 DEF GateStep
<1>2. CASE AdminStep
  <2>1. /\ authorizationEpoch' = authorizationEpoch + 1
        /\ UNCHANGED market
    BY <1>2, AdminLemma
  <2>2. authorizationEpoch \in Nat /\ \A u \in Targets : market[u].version \in Nat
    BY BoundsAssumption DEF TypeOK, Markets
  <2>3. QED
    BY <2>1, <2>2 DEF CountersFollow
<1>3. CASE MarketStep
  BY <1>3, MarketLemma, AdvancesCounts
<1>4. CASE Tick
  BY <1>4, StillCounts DEF Tick
<1>5. QED
  BY <1>1, <1>2, <1>3, <1>4 DEF Next

-----------------------------------------------------------------------------
(* Type correctness                                                        *)

LEMMA WatchType ==
    ASSUME disturbed \subseteq DOMAIN proposals, Watch,
           DOMAIN proposals \subseteq DOMAIN proposals'
    PROVE  disturbed' \subseteq DOMAIN proposals'
  BY DEF Watch

\* A move keeps the domain and every other change, and installs its record.
LEMMA MovesLemma ==
    ASSUME TypeOK, NEW c, NEW rec, Moves(c, rec)
    PROVE  /\ DOMAIN proposals' = DOMAIN proposals
           /\ proposals' \in [DOMAIN proposals -> Proposals]
           /\ State(c)' = rec.state /\ proposals'[c] = rec
           /\ \A d \in DOMAIN proposals \ {c} : /\ proposals'[d] = proposals[d]
                                                /\ State(d)' = State(d)
  BY DEF Moves, TypeOK, State

\* A new change starts PENDING and leaves the others alone.
LEMMA ProposeLemma ==
    ASSUME TypeOK, NEW s \in Accounts, NEW intent \in Intents, Propose(s, intent)
    PROVE  LET c == hashChangeIntent(s, intent) IN
           /\ c \in Changes /\ c.intent = intent /\ c.operator = s
           /\ c \notin DOMAIN proposals
           /\ DOMAIN proposals' = DOMAIN proposals \cup {c}
           /\ proposals' \in [DOMAIN proposals' -> Proposals]
           /\ State(c)' = "PENDING"
           /\ \A d \in DOMAIN proposals : /\ proposals'[d] = proposals[d]
                                          /\ State(d)' = State(d)
           /\ s = operator
           /\ intent.expectedAuthorizationEpoch = authorizationEpoch
           /\ intent.expectedStateVersion = market[intent.target].version
           /\ <<s, intent.nonce>> \notin nonceUsed
           /\ nonceUsed' = nonceUsed \cup {<<s, intent.nonce>>}
           /\ UNCHANGED <<authVars, market, now>>
<1> DEFINE c == hashChangeIntent(s, intent)
           fresh == [state |-> "PENDING", decidedBy |-> Self]
<1>1. c \in Changes /\ c.intent = intent /\ c.operator = s
  BY DEF hashChangeIntent, Changes
<1>2. fresh \in Proposals
  BY DEF Proposals, ProposalStates
<1>3. /\ c \notin DOMAIN proposals
      /\ proposals' = [d \in DOMAIN proposals \cup {c} |->
                          IF d = c THEN fresh ELSE proposals[d]]
  BY DEF Propose
<1> HIDE DEF c, fresh
<1>4. /\ DOMAIN proposals' = DOMAIN proposals \cup {c}
      /\ proposals'[c] = fresh
      /\ \A d \in DOMAIN proposals : proposals'[d] = proposals[d]
  BY <1>3
<1>5. proposals' \in [DOMAIN proposals' -> Proposals]
  BY <1>2, <1>3, <1>4 DEF TypeOK
<1>6. /\ State(c)' = "PENDING"
      /\ \A d \in DOMAIN proposals : State(d)' = State(d)
  BY <1>4 DEF State, fresh
<1>7. /\ s = operator
      /\ intent.expectedAuthorizationEpoch = authorizationEpoch
      /\ intent.expectedStateVersion = market[intent.target].version
      /\ <<s, intent.nonce>> \notin nonceUsed
      /\ nonceUsed' = nonceUsed \cup {<<s, intent.nonce>>}
      /\ UNCHANGED <<authVars, market, now>>
  BY DEF Propose, ValidateIntent, CheckPreconditions
<1>8. QED
  BY <1>1, <1>3, <1>4, <1>5, <1>6, <1>7 DEF c

LEMMA TypeStep ==
    ASSUME TypeOK, [Next]_vars
    PROVE  TypeOK'
<1>1. CASE GateStep /\ Watch
  <2>1. ASSUME NEW s \in Accounts, NEW intent \in Intents, Propose(s, intent)
        PROVE  TypeOK'
    <3> DEFINE c == hashChangeIntent(s, intent)
    <3>1. /\ c \in Changes
          /\ DOMAIN proposals' = DOMAIN proposals \cup {c}
          /\ proposals' \in [DOMAIN proposals' -> Proposals]
          /\ nonceUsed' = nonceUsed \cup {<<s, intent.nonce>>}
          /\ UNCHANGED <<authVars, market, now>>
      BY <2>1, ProposeLemma
    <3>2. intent.nonce \in Nonces
      BY DEF Intents
    <3>3. disturbed' \subseteq DOMAIN proposals'
      BY <1>1, <3>1, WatchType DEF TypeOK
    <3>4. QED
      BY <3>1, <3>2, <3>3 DEF TypeOK, authVars, authority
  <2>2. ASSUME NEW c, NEW rec, Moves(c, rec),
               market' \in [Targets -> Markets], UNCHANGED <<authVars, nonceUsed, now>>
        PROVE  TypeOK'
    <3>1. /\ DOMAIN proposals' = DOMAIN proposals
          /\ proposals' \in [DOMAIN proposals' -> Proposals]
      BY <2>2, MovesLemma
    <3>2. disturbed' \subseteq DOMAIN proposals'
      BY <1>1, <3>1, WatchType DEF TypeOK
    <3>3. QED
      BY <2>2, <3>1, <3>2 DEF TypeOK, authVars, authority
  <2>3. ASSUME NEW s \in Accounts, NEW c \in DOMAIN proposals, NEW d \in Decisions,
               RecordDecision(s, c, d)
        PROVE  TypeOK'
    BY <2>2, <2>3, RecordDecisionLemma DEF TypeOK
  <2>4. ASSUME NEW s \in Accounts, NEW c \in DOMAIN proposals, Execute(s, c.intent)
        PROVE  TypeOK'
    <3>1. c.intent \in Intents
      BY DEF TypeOK, Changes
    <3> DEFINE d == hashChangeIntent(s, c.intent)
    <3>2. /\ Moves(d, [proposals[d] EXCEPT !.state = "EXECUTED"])
          /\ Advances(c.intent.target)
          /\ UNCHANGED <<authVars, nonceUsed, now>>
      BY <2>4, <3>1, ExecuteLemma
    <3>3. market' \in [Targets -> Markets]
      BY <3>2 DEF Advances
    <3>4. QED
      BY <2>2, <3>2, <3>3
  <2>5. ASSUME NEW c \in DOMAIN proposals, MarkExpired(c)
        PROVE  TypeOK'
    BY <2>2, <2>5, MarkExpiredLemma DEF TypeOK
  <2>6. QED
    BY <1>1, <2>1, <2>3, <2>4, <2>5 DEF GateStep
<1>2. CASE AdminStep /\ Watch
  BY <1>2, AdminLemma, WatchType DEF TypeOK
<1>3. CASE MarketStep /\ Watch
  BY <1>3, MarketLemma, WatchType DEF TypeOK, Advances, authVars, authority
<1>4. CASE Tick /\ Watch
  <2>1. now' \in 0..MaxTime
    BY <1>4, BoundsAssumption DEF Tick, TypeOK
  <2>2. disturbed' \subseteq DOMAIN proposals'
    BY <1>4, WatchType DEF Tick, TypeOK
  <2>3. QED
    BY <1>4, <2>1, <2>2 DEF Tick, TypeOK, authVars, authority
<1>5. CASE UNCHANGED vars
  BY <1>5 DEF vars, TypeOK, authVars, authority
<1>6. QED
  BY <1>1, <1>2, <1>3, <1>4, <1>5 DEF Next

-----------------------------------------------------------------------------
(* The inductive invariant                                                 *)

LEMMA InitInv == Init => IInv
<1>1. Init => TypeOK
  <2> SUFFICES ASSUME Init, Targets # {} PROVE TypeOK
    BY DEF Init
  <2>1. 1 \in 0..MaxVersion /\ 1 \in 0..MaxEpoch /\ 0 \in 0..MaxTime
    BY BoundsAssumption
  <2>2. QED
    BY <2>1, SelectorAssumption DEF Init, TypeOK, Markets
<1>2. QED
  BY <1>1 DEF Init, IInv, NoncesSpent, NotAhead, DisturbedIsOutdated, ProposerOfEpoch,
              ExecutedIsOutdated, SeparationOfDuties, OneChangePerNonce

\* A step that touches neither proposals nor nonces keeps everything the counters
\* carry: what was outdated stays outdated.
LEMMA WorldStep ==
    ASSUME IInv, TypeOK', CountersFollow, Watch, UNCHANGED <<proposals, nonceUsed>>
    PROVE  IInv'
<1> USE DEF IInv
<1>0. /\ authorizationEpoch \in Nat /\ authorizationEpoch' \in Nat
      /\ \A t \in Targets : market[t].version \in Nat /\ market'[t].version \in Nat
  BY BoundsAssumption DEF TypeOK, Markets
<1>1. \A c \in DOMAIN proposals : /\ c.intent.target \in Targets
                                  /\ c.intent.expectedStateVersion \in Nat
                                  /\ c.intent.expectedAuthorizationEpoch \in Nat
  BY BoundsAssumption DEF TypeOK, Changes, Intents
<1>2. \A c \in DOMAIN proposals : State(c)' = State(c)
  BY DEF State
<1>3. NoncesSpent'
  BY DEF NoncesSpent
<1>4. NotAhead'
  BY <1>0, <1>1 DEF NotAhead, CountersFollow
<1>5. DisturbedIsOutdated'
  <2> SUFFICES ASSUME NEW c \in disturbed' PROVE Outdated(c)'
    BY DEF DisturbedIsOutdated
  <2>1. c \in DOMAIN proposals
    BY DEF Watch, TypeOK
  <2>2. CASE c \in disturbed
    BY <1>0, <1>1, <2>1, <2>2 DEF DisturbedIsOutdated, Outdated, CountersFollow
  <2>3. CASE c \notin disturbed
    <3>1. \/ authority' # authority
          \/ Content(market'[c.intent.target]) # Content(market[c.intent.target])
      BY <2>3 DEF Watch
    <3>2. \/ authorizationEpoch' > authorizationEpoch
          \/ market'[c.intent.target].version > market[c.intent.target].version
      BY <1>1, <2>1, <3>1 DEF CountersFollow
    <3>3. QED
      BY <1>0, <1>1, <2>1, <3>2 DEF NotAhead, Outdated
  <2>4. QED
    BY <2>2, <2>3
<1>6. ProposerOfEpoch'
  <2> SUFFICES ASSUME NEW c \in DOMAIN proposals,
                      c.intent.expectedAuthorizationEpoch = authorizationEpoch'
               PROVE  c.operator = operator'
    BY DEF ProposerOfEpoch
  <2>1. authorizationEpoch' = authorizationEpoch
    BY <1>0, <1>1 DEF NotAhead, CountersFollow
  <2>2. operator' = operator
    BY <1>0, <2>1 DEF CountersFollow, authority
  <2>3. QED
    BY <2>1, <2>2 DEF ProposerOfEpoch
<1>7. ExecutedIsOutdated'
  BY <1>0, <1>1, <1>2 DEF ExecutedIsOutdated, CountersFollow
<1>8. SeparationOfDuties' /\ OneChangePerNonce'
  BY <1>2 DEF SeparationOfDuties, OneChangePerNonce
<1>9. QED
  BY <1>3, <1>4, <1>5, <1>6, <1>7, <1>8

\* A new change expects the present counters and holds a nonce nobody holds.
LEMMA ProposeStep ==
    ASSUME IInv, TypeOK', Watch, NEW s \in Accounts, NEW intent \in Intents, Propose(s, intent)
    PROVE  IInv'
<1> USE DEF IInv
<1> DEFINE c == hashChangeIntent(s, intent)
<1>0. /\ c \in Changes /\ c.intent = intent /\ c.operator = s
      /\ c \notin DOMAIN proposals
      /\ DOMAIN proposals' = DOMAIN proposals \cup {c}
      /\ State(c)' = "PENDING"
      /\ \A d \in DOMAIN proposals : /\ proposals'[d] = proposals[d]
                                     /\ State(d)' = State(d)
      /\ s = operator
      /\ intent.expectedAuthorizationEpoch = authorizationEpoch
      /\ intent.expectedStateVersion = market[intent.target].version
      /\ <<s, intent.nonce>> \notin nonceUsed
      /\ nonceUsed' = nonceUsed \cup {<<s, intent.nonce>>}
      /\ UNCHANGED <<authVars, market, now>>
  BY ProposeLemma
<1> HIDE DEF c
<1>1. /\ authorizationEpoch \in Nat
      /\ \A t \in Targets : market[t].version \in Nat
      /\ intent.target \in Targets
  BY BoundsAssumption DEF TypeOK, Markets, Intents
<1>2. NoncesSpent'
  BY <1>0 DEF NoncesSpent
<1>3. NotAhead'
  BY <1>0, <1>1 DEF NotAhead, authVars
<1>4. DisturbedIsOutdated'
  <2>1. disturbed' = disturbed
    BY <1>0 DEF Watch, authVars
  <2>2. QED
    BY <1>0, <2>1 DEF DisturbedIsOutdated, Outdated, authVars
<1>5. ProposerOfEpoch'
  BY <1>0 DEF ProposerOfEpoch, authVars, authority
<1>6. ExecutedIsOutdated' /\ SeparationOfDuties'
  BY <1>0 DEF ExecutedIsOutdated, SeparationOfDuties
<1>7. OneChangePerNonce'
  BY <1>0 DEF OneChangePerNonce, NoncesSpent
<1>8. QED
  BY <1>2, <1>3, <1>4, <1>5, <1>6, <1>7

\* A decision or an expiry: no counter moves, and only an allowed change gains
\* an obligation, that its decider is not its proposer.
LEMMA StatusStep ==
    ASSUME IInv, TypeOK', Watch, NEW c, NEW rec, Moves(c, rec),
           rec.state # "EXECUTED",
           rec.state = "ALLOWED" => rec.decidedBy \in Accounts \ {c.operator},
           UNCHANGED <<authVars, nonceUsed, market, now>>
    PROVE  IInv'
<1> USE DEF IInv
<1>0. /\ c \in DOMAIN proposals
      /\ DOMAIN proposals' = DOMAIN proposals
      /\ State(c)' = rec.state /\ proposals'[c] = rec
      /\ \A d \in DOMAIN proposals \ {c} : /\ proposals'[d] = proposals[d]
                                           /\ State(d)' = State(d)
  BY MovesLemma DEF Moves
<1>1. disturbed' = disturbed
  BY DEF Watch, authVars
<1>2. NoncesSpent' /\ NotAhead' /\ DisturbedIsOutdated' /\ ProposerOfEpoch'
  BY <1>0, <1>1 DEF NoncesSpent, NotAhead, DisturbedIsOutdated, Outdated, ProposerOfEpoch,
                    authVars, authority
<1>3. ExecutedIsOutdated'
  BY <1>0 DEF ExecutedIsOutdated
<1>4. SeparationOfDuties'
  <2> SUFFICES ASSUME NEW d \in DOMAIN proposals, State(d)' \in {"ALLOWED", "EXECUTED"}
               PROVE  proposals'[d].decidedBy \in Accounts \ {d.operator}
    BY <1>0 DEF SeparationOfDuties
  <2>1. CASE d = c
    BY <1>0, <2>1
  <2>2. CASE d # c
    BY <1>0, <2>2 DEF SeparationOfDuties
  <2>3. QED
    BY <2>1, <2>2
<1>5. OneChangePerNonce'
  BY <1>0 DEF OneChangePerNonce
<1>6. QED
  BY <1>2, <1>3, <1>4, <1>5

\* The executed change was at its market's version, which has moved on if the call
\* mutates.
LEMMA ExecuteStep ==
    ASSUME IInv, TypeOK', Watch, NEW s \in Accounts, NEW intent \in Intents, Execute(s, intent)
    PROVE  IInv'
<1> USE DEF IInv
<1> DEFINE c == hashChangeIntent(s, intent)
           t == intent.target
           rec == [proposals[c] EXCEPT !.state = "EXECUTED"]
<1>0. /\ c.intent = intent /\ c.operator = s
      /\ Moves(c, rec)
      /\ State(c) = "ALLOWED"
      /\ Advances(t)
      /\ Mutates(intent.call) => market'[t].version = market[t].version + 1
      /\ intent.expectedStateVersion = market[t].version
      /\ UNCHANGED <<authVars, nonceUsed, now>>
  BY ExecuteLemma
<1>1. rec.state = "EXECUTED" /\ rec.decidedBy = proposals[c].decidedBy
  BY <1>0 DEF Moves, TypeOK, Proposals
<1> HIDE DEF rec
<1>2. /\ c \in DOMAIN proposals
      /\ DOMAIN proposals' = DOMAIN proposals
      /\ State(c)' = "EXECUTED"
      /\ proposals'[c].decidedBy = proposals[c].decidedBy
      /\ \A d \in DOMAIN proposals \ {c} : /\ proposals'[d] = proposals[d]
                                           /\ State(d)' = State(d)
  BY <1>0, <1>1, MovesLemma DEF Moves
<1> HIDE DEF c
<1>3. CountersFollow
  BY <1>0, AdvancesCounts DEF Advances
<1>4. /\ authorizationEpoch \in Nat /\ authorizationEpoch' \in Nat
      /\ \A u \in Targets : market[u].version \in Nat /\ market'[u].version \in Nat
  BY BoundsAssumption DEF TypeOK, Markets
<1>5. \A d \in DOMAIN proposals : /\ d.intent.target \in Targets
                                  /\ d.intent.expectedStateVersion \in Nat
                                  /\ d.intent.expectedAuthorizationEpoch \in Nat
  BY BoundsAssumption DEF TypeOK, Changes, Intents
<1>6. NoncesSpent' /\ OneChangePerNonce' /\ ProposerOfEpoch'
  BY <1>0, <1>2 DEF NoncesSpent, OneChangePerNonce, ProposerOfEpoch, authVars, authority
<1>7. NotAhead'
  BY <1>2, <1>3, <1>4, <1>5 DEF NotAhead, CountersFollow
<1>8. DisturbedIsOutdated'
  <2> SUFFICES ASSUME NEW d \in disturbed' PROVE Outdated(d)'
    BY DEF DisturbedIsOutdated
  <2>1. d \in DOMAIN proposals
    BY DEF Watch, TypeOK
  <2>2. CASE d \in disturbed
    BY <1>3, <1>4, <1>5, <2>1, <2>2 DEF DisturbedIsOutdated, Outdated, CountersFollow
  <2>3. CASE d \notin disturbed
    <3>1. \/ authorizationEpoch' > authorizationEpoch
          \/ market'[d.intent.target].version > market[d.intent.target].version
      BY <1>3, <1>5, <2>1, <2>3 DEF CountersFollow, Watch
    <3>2. QED
      BY <1>4, <1>5, <2>1, <3>1 DEF NotAhead, Outdated
  <2>4. QED
    BY <2>2, <2>3
<1>9. ExecutedIsOutdated'
  <2> SUFFICES ASSUME NEW d \in DOMAIN proposals, State(d)' = "EXECUTED",
                      Mutates(d.intent.call)
               PROVE  d.intent.expectedStateVersion < market'[d.intent.target].version
    BY <1>2 DEF ExecutedIsOutdated
  <2>1. CASE d = c
    BY <1>0, <1>2, <1>3, <1>4, <1>5, <2>1
  <2>2. CASE d # c
    BY <1>2, <1>3, <1>4, <1>5, <2>2 DEF ExecutedIsOutdated, CountersFollow
  <2>3. QED
    BY <2>1, <2>2
<1>10. SeparationOfDuties'
  BY <1>0, <1>2 DEF SeparationOfDuties
<1>11. QED
  BY <1>6, <1>7, <1>8, <1>9, <1>10

\* The invariant survives every step: one case per action.
LEMMA StepInv ==
    ASSUME IInv, [Next]_vars
    PROVE  IInv'
<1>1. TypeOK'
  BY TypeStep DEF IInv
<1>2. CASE UNCHANGED vars
  BY <1>2 DEF vars, authVars, authority, IInv, TypeOK, NoncesSpent, NotAhead,
              DisturbedIsOutdated, Outdated, ProposerOfEpoch, ExecutedIsOutdated,
              SeparationOfDuties, OneChangePerNonce, State
<1>3. CASE Next
  <2>1. CountersFollow /\ Watch
    BY <1>3, StepCounts DEF IInv, Next
  <2>2. CASE AdminStep
    BY <1>1, <2>1, <2>2, AdminLemma, WorldStep DEF IInv
  <2>3. CASE MarketStep
    BY <1>1, <2>1, <2>3, MarketLemma, WorldStep DEF IInv
  <2>4. CASE Tick
    BY <1>1, <2>1, <2>4, WorldStep DEF Tick
  <2>5. CASE GateStep
    <3>1. ASSUME NEW s \in Accounts, NEW intent \in Intents, Propose(s, intent)
          PROVE  IInv'
      BY <1>1, <2>1, <3>1, ProposeStep
    <3>2. ASSUME NEW s \in Accounts, NEW c \in DOMAIN proposals, NEW d \in Decisions,
                 RecordDecision(s, c, d)
          PROVE  IInv'
      <4> DEFINE rec == [state |-> d, decidedBy |-> s]
      <4>1. /\ Moves(c, rec)
            /\ s # operator
            /\ c.intent.expectedAuthorizationEpoch = authorizationEpoch
            /\ UNCHANGED <<authVars, nonceUsed, market, now>>
        BY <3>2, RecordDecisionLemma DEF IInv
      <4>2. c.operator = operator
        BY <4>1 DEF IInv, ProposerOfEpoch
      <4>3. rec.state # "EXECUTED" /\ rec.decidedBy \in Accounts \ {c.operator}
        BY <4>1, <4>2 DEF Decisions
      <4> HIDE DEF rec
      <4>4. QED
        BY <1>1, <2>1, <4>1, <4>3, StatusStep
    <3>3. ASSUME NEW s \in Accounts, NEW c \in DOMAIN proposals, Execute(s, c.intent)
          PROVE  IInv'
      <4>1. c.intent \in Intents
        BY DEF IInv, TypeOK, Changes
      <4>2. QED
        BY <1>1, <2>1, <3>3, <4>1, ExecuteStep
    <3>4. ASSUME NEW c \in DOMAIN proposals, MarkExpired(c)
          PROVE  IInv'
      <4> DEFINE rec == [proposals[c] EXCEPT !.state = "EXPIRED"]
      <4>1. Moves(c, rec) /\ UNCHANGED <<authVars, nonceUsed, market, now>>
        BY <3>4, MarkExpiredLemma DEF IInv
      <4>2. rec.state = "EXPIRED"
        BY DEF IInv, TypeOK, Proposals
      <4> HIDE DEF rec
      <4>3. QED
        BY <1>1, <2>1, <4>1, <4>2, StatusStep
    <3>5. QED
      BY <2>5, <3>1, <3>2, <3>3, <3>4 DEF GateStep
  <2>6. QED
    BY <1>3, <2>2, <2>3, <2>4, <2>5 DEF Next
<1>4. QED
  BY <1>2, <1>3

\* The invariant holds in every reachable state.
THEOREM Invariance == Spec => []IInv
<1>1. QED
  BY InitInv, StepInv, PTL DEF Spec

\* Every variable keeps its type, for every bound on the counters.
THEOREM TypeCorrect == Spec => []TypeOK
<1>1. IInv => TypeOK
  BY DEF IInv
<1>2. QED
  BY <1>1, Invariance, PTL

\* Nobody decides a change of their own, whatever the rotation of roles.
THEOREM DutiesSeparated == Spec => []SeparationOfDuties
<1>1. IInv => SeparationOfDuties
  BY DEF IInv
<1>2. QED
  BY <1>1, Invariance, PTL

\* A nonce of a proposer is never used for a second change.
THEOREM SingleUseNonces == Spec => []OneChangePerNonce
<1>1. IInv => OneChangePerNonce
  BY DEF IInv
<1>2. QED
  BY <1>1, Invariance, PTL

-----------------------------------------------------------------------------
(* What a step may never do                                                *)

\* Only Execute makes a change EXECUTED.
LEMMA OnlyExecuteExecutes ==
    ASSUME TypeOK, Next, NEW c \in DOMAIN proposals, Executes(c)
    PROVE  Execute(c.operator, c.intent) /\ c.operator \in Accounts /\ c.intent \in Intents
<1>1. CASE GateStep
  <2>1. ASSUME NEW s \in Accounts, NEW intent \in Intents, Propose(s, intent) PROVE FALSE
    BY <2>1, ProposeLemma DEF Executes
  <2>2. ASSUME NEW s \in Accounts, NEW d \in DOMAIN proposals, NEW x \in Decisions,
               RecordDecision(s, d, x)
        PROVE  FALSE
    <3> DEFINE rec == [state |-> x, decidedBy |-> s]
    <3>1. Moves(d, rec) /\ rec.state # "EXECUTED"
      BY <2>2, RecordDecisionLemma DEF Decisions
    <3> HIDE DEF rec
    <3>2. QED
      BY <3>1, MovesLemma DEF Executes
  <2>3. ASSUME NEW d \in DOMAIN proposals, MarkExpired(d) PROVE FALSE
    <3> DEFINE rec == [proposals[d] EXCEPT !.state = "EXPIRED"]
    <3>1. Moves(d, rec) /\ rec.state # "EXECUTED"
      BY <2>3, MarkExpiredLemma DEF TypeOK, Proposals
    <3> HIDE DEF rec
    <3>2. QED
      BY <3>1, MovesLemma DEF Executes
  <2>4. ASSUME NEW s \in Accounts, NEW d \in DOMAIN proposals, Execute(s, d.intent)
        PROVE  Execute(c.operator, c.intent) /\ c.operator \in Accounts /\ c.intent \in Intents
    <3> DEFINE e == hashChangeIntent(s, d.intent)
               rec == [proposals[e] EXCEPT !.state = "EXECUTED"]
    <3>1. d.intent \in Intents
      BY DEF TypeOK, Changes
    <3>2. e.intent = d.intent /\ e.operator = s /\ Moves(e, rec)
      BY <2>4, <3>1, ExecuteLemma
    <3> HIDE DEF rec, e
    <3>3. c = e
      BY <3>2, MovesLemma DEF Executes
    <3>4. QED
      BY <2>4, <3>1, <3>2, <3>3
  <2>5. QED
    BY <1>1, <2>1, <2>2, <2>3, <2>4 DEF GateStep
<1>2. CASE AdminStep
  BY <1>2, AdminLemma DEF Executes, State
<1>3. CASE MarketStep
  BY <1>3, MarketLemma DEF Executes, State
<1>4. CASE Tick
  BY <1>4 DEF Tick, Executes, State
<1>5. QED
  BY <1>1, <1>2, <1>3, <1>4 DEF Next

\* An executing change is undisturbed: a disturbed one is outdated, and
\* _checkPreconditions rejects it.
LEMMA ExecutesUndisturbedStep ==
    ASSUME IInv, Next, NEW c \in DOMAIN proposals, Executes(c)
    PROVE  c \notin disturbed
<1>1. /\ c.operator \in Accounts /\ c.intent \in Intents
      /\ Execute(c.operator, c.intent)
  BY OnlyExecuteExecutes DEF IInv
<1>2. /\ c.intent.expectedAuthorizationEpoch = authorizationEpoch
      /\ c.intent.expectedStateVersion = market[c.intent.target].version
  BY <1>1, ExecuteLemma DEF IInv
<1>3. /\ authorizationEpoch \in Nat
      /\ market[c.intent.target].version \in Nat
  BY <1>1, BoundsAssumption DEF IInv, TypeOK, Markets, Intents
<1>4. ~ Outdated(c)
  BY <1>2, <1>3 DEF Outdated
<1>5. QED
  BY <1>4 DEF IInv, DisturbedIsOutdated

\* No change executes once a role, an allowed call or its target has changed
\* since it was proposed, even if the old value has been restored.
THEOREM UndisturbedExecution == Spec => ExecutesUndisturbed
<1>1. IInv /\ [Next]_vars =>
        [\A c \in DOMAIN proposals : Executes(c) => c \notin disturbed]_vars
  BY ExecutesUndisturbedStep
<1>2. QED
  BY <1>1, Invariance, PTL DEF Spec, ExecutesUndisturbed

\* Nothing reviewed against a version executes after a change that was reviewed
\* against it has executed and moved the market.
THEOREM VersionsAreSpent == Spec => VersionIsSpent
<1>1. ASSUME IInv, Next, NEW c \in DOMAIN proposals, NEW d \in DOMAIN proposals,
             Executes(c), State(d) = "EXECUTED", Mutates(d.intent.call),
             c.intent.target = d.intent.target
      PROVE  c.intent.expectedStateVersion # d.intent.expectedStateVersion
  <2>1. /\ c.operator \in Accounts /\ c.intent \in Intents
        /\ Execute(c.operator, c.intent)
    BY <1>1, OnlyExecuteExecutes DEF IInv
  <2>2. c.intent.expectedStateVersion = market[c.intent.target].version
    BY <1>1, <2>1, ExecuteLemma DEF IInv
  <2>3. d.intent.expectedStateVersion < market[c.intent.target].version
    BY <1>1 DEF IInv, ExecutedIsOutdated
  <2>4. market[c.intent.target].version \in Nat /\ d.intent.expectedStateVersion \in Nat
    BY <1>1, <2>1, BoundsAssumption DEF IInv, TypeOK, Markets, Intents, Changes
  <2>5. QED
    BY <2>2, <2>3, <2>4
<1>2. IInv /\ [Next]_vars =>
        [\A c, d \in DOMAIN proposals :
            /\ Executes(c) /\ State(d) = "EXECUTED" /\ Mutates(d.intent.call)
            /\ c.intent.target = d.intent.target
            => c.intent.expectedStateVersion # d.intent.expectedStateVersion]_vars
  BY <1>1
<1>3. QED
  BY <1>2, Invariance, PTL DEF Spec, VersionIsSpent

\* While the executor owns a market, only the execution of an allowed change
\* moves the owner or the threshold, and to what that change says.
THEOREM GateOnly == Spec => OnlyTheGateMoves
<1> DEFINE Moved(t) == \/ market'[t].owner # market[t].owner
                       \/ market'[t].threshold # market[t].threshold
           ByGate(t) == \E c \in DOMAIN proposals :
                          /\ c.intent.target = t /\ State(c) = "ALLOWED" /\ Executes(c)
                          /\ market'[t] = Applied(market[t], c.intent.call)
<1>1. ASSUME IInv, Next, NEW t \in Targets, market[t].owner = Self, Moved(t)
      PROVE  ByGate(t)
  <2>0. TypeOK /\ market[t] \in Markets
    BY <1>1 DEF IInv, TypeOK
  <2>1. ASSUME MarketStep PROVE FALSE
    <3>1. ASSUME NEW u \in Targets, NEW s \in Accounts, NEW call \in Calls,
                 MarketOwnerCall(s, u, call)
          PROVE  FALSE
      <4>1. u # t
        BY <1>1, <3>1, SelfAssumption DEF MarketOwnerCall, Succeeds
      <4>2. market'[t] = market[t]
        BY <2>0, <3>1, <4>1, MarketOwnerCallLemma DEF Advances
      <4>3. QED
        BY <1>1, <4>2
    <3>2. ASSUME NEW u \in Targets, NEW r \in Rests, MarketMutation(u, r)
          PROVE  FALSE
      <4>1. market' = [market EXCEPT ![u] = Advance([@ EXCEPT !.rest = r])]
        BY <3>2 DEF MarketMutation
      <4>2. market'[t].owner = market[t].owner /\ market'[t].threshold = market[t].threshold
        BY <2>0, <4>1 DEF Advance, TypeOK, Markets
      <4>3. QED
        BY <1>1, <4>2
    <3>3. QED
      BY <2>1, <3>1, <3>2 DEF MarketStep
  <2>2. ASSUME AdminStep \/ Tick PROVE FALSE
    BY <1>1, <2>0, <2>2, AdminLemma DEF Tick
  <2>3. CASE GateStep
    <3>1. ASSUME NEW s \in Accounts, NEW intent \in Intents, Propose(s, intent) PROVE FALSE
      BY <1>1, <3>1 DEF Propose
    <3>2. ASSUME NEW s \in Accounts, NEW c \in DOMAIN proposals,
                 \/ \E d \in Decisions : RecordDecision(s, c, d)
                 \/ MarkExpired(c)
          PROVE  FALSE
      BY <1>1, <3>2 DEF RecordDecision, MarkExpired
    <3>3. ASSUME NEW s \in Accounts, NEW d \in DOMAIN proposals, Execute(s, d.intent)
          PROVE  ByGate(t)
      <4> DEFINE c == hashChangeIntent(s, d.intent)
                 rec == [proposals[c] EXCEPT !.state = "EXECUTED"]
      <4>1. d.intent \in Intents
        BY <2>0 DEF TypeOK, Changes
      <4>2. /\ c.intent = d.intent /\ Moves(c, rec) /\ State(c) = "ALLOWED"
            /\ Advances(d.intent.target)
            /\ market'[d.intent.target] = Applied(market[d.intent.target], d.intent.call)
        BY <2>0, <3>3, <4>1, ExecuteLemma
      <4>3. rec.state = "EXECUTED" /\ c \in DOMAIN proposals
        BY <2>0, <4>2 DEF Moves, TypeOK, Proposals
      <4> HIDE DEF c, rec
      <4>4. Executes(c)
        BY <2>0, <4>2, <4>3, MovesLemma DEF Executes
      <4>5. d.intent.target = t
        BY <1>1, <4>2 DEF Advances
      <4>6. QED
        BY <4>2, <4>3, <4>4, <4>5
    <3>4. QED
      BY <2>3, <3>1, <3>2, <3>3 DEF GateStep
  <2>4. QED
    BY <1>1, <2>1, <2>2, <2>3 DEF Next
<1>2. IInv /\ [Next]_vars =>
        [\A t \in Targets :
            /\ market[t].owner = Self
            /\ \/ market'[t].owner # market[t].owner
               \/ market'[t].threshold # market[t].threshold
            => \E c \in DOMAIN proposals :
                  /\ c.intent.target = t /\ State(c) = "ALLOWED" /\ Executes(c)
                  /\ market'[t] = Applied(market[t], c.intent.call)]_vars
  BY <1>1
<1>3. QED
  BY <1>2, Invariance, PTL DEF Spec, OnlyTheGateMoves

\* BLOCKED, EXECUTED and EXPIRED are final; ESCALATED leads only to EXPIRED.
THEOREM Finality == Spec => NoWayBack
<1> DEFINE Kept(c) ==
        /\ State(c) \in {"BLOCKED", "EXECUTED", "EXPIRED"} => State(c)' = State(c)
        /\ State(c) = "ESCALATED" => State(c)' \in {"ESCALATED", "EXPIRED"}
<1>1. ASSUME TypeOK, Next, NEW c \in DOMAIN proposals
      PROVE  Kept(c)
  <2>1. ASSUME UNCHANGED proposals PROVE Kept(c)
    BY <2>1 DEF State
  <2>2. ASSUME NEW d, NEW rec, Moves(d, rec),
               \/ State(d) \in {"PENDING", "ALLOWED"}
               \/ State(d) = "ESCALATED" /\ rec.state = "EXPIRED"
        PROVE  Kept(c)
    BY <1>1, <2>2, MovesLemma
  <2>3. ASSUME NEW s \in Accounts, NEW intent \in Intents, Propose(s, intent) PROVE Kept(c)
    BY <1>1, <2>3, ProposeLemma
  <2>4. ASSUME NEW s \in Accounts, NEW d \in DOMAIN proposals, NEW x \in Decisions,
               RecordDecision(s, d, x)
        PROVE  Kept(c)
    BY <1>1, <2>2, <2>4, RecordDecisionLemma
  <2>5. ASSUME NEW d \in DOMAIN proposals, MarkExpired(d) PROVE Kept(c)
    <3> DEFINE rec == [proposals[d] EXCEPT !.state = "EXPIRED"]
    <3>1. Moves(d, rec) /\ rec.state = "EXPIRED" /\ State(d) \in {"PENDING", "ALLOWED", "ESCALATED"}
      BY <1>1, <2>5, MarkExpiredLemma DEF TypeOK, Proposals
    <3> HIDE DEF rec
    <3>2. QED
      BY <2>2, <3>1
  <2>6. ASSUME NEW s \in Accounts, NEW d \in DOMAIN proposals, Execute(s, d.intent)
        PROVE  Kept(c)
    <3> DEFINE e == hashChangeIntent(s, d.intent)
               rec == [proposals[e] EXCEPT !.state = "EXECUTED"]
    <3>1. d.intent \in Intents
      BY <1>1 DEF TypeOK, Changes
    <3>2. Moves(e, rec) /\ State(e) = "ALLOWED"
      BY <1>1, <2>6, <3>1, ExecuteLemma
    <3> HIDE DEF e, rec
    <3>3. QED
      BY <2>2, <3>2
  <2>7. CASE AdminStep
    BY <1>1, <2>1, <2>7, AdminLemma
  <2>8. CASE MarketStep
    BY <1>1, <2>1, <2>8, MarketLemma
  <2>9. CASE Tick
    BY <2>1, <2>9 DEF Tick
  <2>10. QED
    BY <1>1, <2>3, <2>4, <2>5, <2>6, <2>7, <2>8, <2>9 DEF Next, GateStep
<1>2. TypeOK /\ [Next]_vars =>
        [\A c \in DOMAIN proposals :
            /\ State(c) \in {"BLOCKED", "EXECUTED", "EXPIRED"} => State(c)' = State(c)
            /\ State(c) = "ESCALATED" => State(c)' \in {"ESCALATED", "EXPIRED"}]_vars
  BY <1>1
<1>3. QED
  BY <1>2, TypeCorrect, PTL DEF Spec, NoWayBack

-----------------------------------------------------------------------------
(* The refinement of ChangeGate                                            *)

LEMMA GateInit == Init => Gate!Init
  BY DEF Init, Gate!Init, In

\* The abstract sets hold exactly the changes of the gate.
LEMMA Requested ==
    ASSUME TypeOK
    PROVE  Gate!requested = DOMAIN proposals
  BY DEF TypeOK, Gate!requested, In, Proposals, ProposalStates, Decisions

\* Watch marks stale what the abstract gate does.
LEMMA WatchStale ==
    ASSUME TypeOK, Watch
    PROVE  disturbed' = disturbed \cup Gate!Affected
<1>1. Gate!Affected = {c \in DOMAIN proposals :
          \/ authority' # authority
          \/ [t \in Targets |-> Content(market[t])]'[c.intent.target]
               # [t \in Targets |-> Content(market[t])][c.intent.target]}
  BY Requested DEF Gate!Affected, authority
<1>2. \A c \in DOMAIN proposals : c.intent.target \in Targets
  BY DEF TypeOK, Changes, Intents
<1>3. Gate!Affected = {c \in DOMAIN proposals :
          \/ authority' # authority
          \/ Content(market'[c.intent.target]) # Content(market[c.intent.target])}
  BY <1>1, <1>2 DEF Content
<1>4. QED
  BY <1>3 DEF Watch

\* A step that leaves the proposals alone is at most a disturbance.
LEMMA WorldIsDisturb ==
    ASSUME TypeOK, Watch, UNCHANGED proposals
    PROVE  Gate!Next
  BY WatchStale DEF Gate!Next, Gate!Disturb, In

\* The states of all changes after one of them moved.
LEMMA MovedSets ==
    ASSUME TypeOK, NEW c, NEW rec, Moves(c, rec), NEW S
    PROVE  In(S)' = IF rec.state \in S THEN In(S) \cup {c} ELSE In(S) \ {c}
<1>1. /\ c \in DOMAIN proposals
      /\ DOMAIN proposals' = DOMAIN proposals
      /\ proposals'[c] = rec
      /\ \A d \in DOMAIN proposals \ {c} : proposals'[d] = proposals[d]
  BY MovesLemma DEF Moves
<1>2. QED
  BY <1>1 DEF In

LEMMA ProposeIsRequest ==
    ASSUME IInv, Watch, NEW s \in Accounts, NEW intent \in Intents, Propose(s, intent)
    PROVE  Gate!Next
<1> USE DEF IInv
<1> DEFINE c == hashChangeIntent(s, intent)
<1>1. /\ c \in Changes
      /\ c \notin DOMAIN proposals
      /\ DOMAIN proposals' = DOMAIN proposals \cup {c}
      /\ State(c)' = "PENDING"
      /\ \A d \in DOMAIN proposals : proposals'[d] = proposals[d]
      /\ UNCHANGED <<authVars, market, now>>
  BY ProposeLemma
<1> HIDE DEF c
<1>2. proposals'[c].state = "PENDING"
  BY <1>1 DEF State
<1>3. /\ In({"PENDING"})' = In({"PENDING"}) \cup {c}
      /\ UNCHANGED <<In({"ALLOWED"}), In({"EXECUTED"}), In({"BLOCKED", "ESCALATED", "EXPIRED"})>>
  BY <1>1, <1>2 DEF In
<1>4. disturbed' = disturbed
  BY <1>1 DEF Watch, authVars
<1>5. UNCHANGED <<authority, [t \in Targets |-> Content(market[t])]>>
  BY <1>1 DEF authVars
<1>6. Gate!Request(c)
  BY <1>1, <1>3, <1>4, <1>5, Requested DEF Gate!Request, Gate!world, authority
<1>7. QED
  BY <1>1, <1>6 DEF Gate!Next

\* A move out of PENDING or ALLOWED that executes nothing.
LEMMA StatusIsApproveOrClose ==
    ASSUME IInv, Watch, NEW c, NEW rec, Moves(c, rec),
           State(c) \in {"PENDING", "ALLOWED"},
           \/ rec.state \in {"BLOCKED", "ESCALATED", "EXPIRED"}
           \/ rec.state = "ALLOWED" /\ State(c) = "PENDING" /\ c \notin disturbed,
           UNCHANGED <<authVars, market>>
    PROVE  Gate!Next
<1> USE DEF IInv
<1>1. c \in DOMAIN proposals /\ c \in Changes
  BY DEF Moves, TypeOK
<1>2. disturbed' = disturbed
  BY DEF Watch, authVars
<1>3. UNCHANGED <<authority, [t \in Targets |-> Content(market[t])]>>
  BY DEF authVars
<1>4. /\ c \in In({"PENDING"}) <=> State(c) = "PENDING"
      /\ c \in In({"ALLOWED"}) <=> State(c) = "ALLOWED"
      /\ c \notin In({"EXECUTED"}) /\ c \notin In({"BLOCKED", "ESCALATED", "EXPIRED"})
  BY <1>1 DEF In, State
<1>5. CASE rec.state \in {"BLOCKED", "ESCALATED", "EXPIRED"}
  <2>1. /\ In({"PENDING"})' = In({"PENDING"}) \ {c}
        /\ In({"ALLOWED"})' = In({"ALLOWED"}) \ {c}
        /\ In({"EXECUTED"})' = In({"EXECUTED"})
        /\ In({"BLOCKED", "ESCALATED", "EXPIRED"})'
             = In({"BLOCKED", "ESCALATED", "EXPIRED"}) \cup {c}
    BY <1>4, <1>5, MovedSets
  <2>2. Gate!Close(c)
    BY <1>2, <1>3, <1>4, <2>1 DEF Gate!Close, Gate!world, authority
  <2>3. QED
    BY <1>4, <2>2 DEF Gate!Next
<1>6. CASE rec.state = "ALLOWED" /\ State(c) = "PENDING" /\ c \notin disturbed
  <2>1. /\ In({"PENDING"})' = In({"PENDING"}) \ {c}
        /\ In({"ALLOWED"})' = In({"ALLOWED"}) \cup {c}
        /\ In({"EXECUTED"})' = In({"EXECUTED"})
        /\ In({"BLOCKED", "ESCALATED", "EXPIRED"})' = In({"BLOCKED", "ESCALATED", "EXPIRED"})
    <3>1. \A S : In(S)' = IF "ALLOWED" \in S THEN In(S) \cup {c} ELSE In(S) \ {c}
      BY <1>6, MovedSets
    <3>2. QED
      BY <1>4, <1>6, <3>1
  <2>2. Gate!Approve(c)
    BY <1>2, <1>3, <1>4, <1>6, <2>1 DEF Gate!Approve, Gate!world, authority
  <2>3. QED
    BY <1>4, <1>6, <2>2 DEF Gate!Next
<1>7. QED
  BY <1>5, <1>6

LEMMA ExecuteIsApply ==
    ASSUME IInv, Watch, NEW s \in Accounts, NEW intent \in Intents, Execute(s, intent)
    PROVE  Gate!Next
<1> USE DEF IInv
<1> DEFINE c == hashChangeIntent(s, intent)
           rec == [proposals[c] EXCEPT !.state = "EXECUTED"]
<1>1. /\ c.intent = intent /\ c.operator = s
      /\ Moves(c, rec)
      /\ State(c) = "ALLOWED"
      /\ Advances(intent.target)
      /\ intent.expectedAuthorizationEpoch = authorizationEpoch
      /\ intent.expectedStateVersion = market[intent.target].version
      /\ UNCHANGED <<authVars, nonceUsed, now>>
  BY ExecuteLemma
<1>2. rec.state = "EXECUTED" /\ c \in DOMAIN proposals /\ c \in Changes
  BY <1>1 DEF Moves, TypeOK, Proposals
<1> HIDE DEF c, rec
<1>3. c \in In({"ALLOWED"})
  BY <1>1, <1>2 DEF In, State
<1>4. /\ c \notin In({"PENDING"}) /\ c \notin In({"BLOCKED", "ESCALATED", "EXPIRED"})
  BY <1>1, <1>2 DEF In, State
<1>5. /\ In({"ALLOWED"})' = In({"ALLOWED"}) \ {c}
      /\ In({"EXECUTED"})' = In({"EXECUTED"}) \cup {c}
      /\ In({"PENDING"})' = In({"PENDING"})
      /\ In({"BLOCKED", "ESCALATED", "EXPIRED"})' = In({"BLOCKED", "ESCALATED", "EXPIRED"})
  <2>1. \A S : In(S)' = IF "EXECUTED" \in S THEN In(S) \cup {c} ELSE In(S) \ {c}
    BY <1>1, <1>2, MovedSets
  <2>2. /\ In({"ALLOWED"})' = In({"ALLOWED"}) \ {c}
        /\ In({"EXECUTED"})' = In({"EXECUTED"}) \cup {c}
        /\ In({"PENDING"})' = In({"PENDING"}) \ {c}
        /\ In({"BLOCKED", "ESCALATED", "EXPIRED"})'
             = In({"BLOCKED", "ESCALATED", "EXPIRED"}) \ {c}
    BY <2>1
  <2>3. QED
    BY <1>4, <2>2
<1>6. c \notin disturbed
  <2>1. /\ authorizationEpoch \in Nat
        /\ market[intent.target].version \in Nat
    BY BoundsAssumption DEF TypeOK, Markets, Intents
  <2>2. QED
    BY <1>1, <2>1 DEF DisturbedIsOutdated, Outdated
<1>7. \A t \in Targets \ {intent.target} :
         [u \in Targets |-> Content(market[u])]'[t] = [u \in Targets |-> Content(market[u])][t]
  BY <1>1 DEF Advances, Content
<1>8. disturbed' = disturbed \cup Gate!Affected
  BY WatchStale
<1>9. Gate!Apply(c)
  BY <1>1, <1>3, <1>5, <1>6, <1>7, <1>8 DEF Gate!Apply, authVars, authority
<1>10. QED
  BY <1>3, <1>9 DEF Gate!Next

LEMMA GateNext ==
    ASSUME IInv, [Next]_vars
    PROVE  [Gate!Next]_Gate!cgVars
<1> USE DEF IInv
<1>1. CASE UNCHANGED vars
  BY <1>1 DEF vars, authVars, authority, Gate!cgVars, Gate!world, In
<1>2. CASE Next
  <2>0. Watch
    BY <1>2 DEF Next
  <2>1. CASE AdminStep
    BY <2>0, <2>1, AdminLemma, WorldIsDisturb
  <2>2. CASE MarketStep
    BY <2>0, <2>2, MarketLemma, WorldIsDisturb
  <2>3. CASE Tick
    BY <2>0, <2>3, WorldIsDisturb DEF Tick
  <2>4. CASE GateStep
    <3>1. ASSUME NEW s \in Accounts, NEW intent \in Intents, Propose(s, intent)
          PROVE  Gate!Next
      BY <2>0, <3>1, ProposeIsRequest
    <3>2. ASSUME NEW s \in Accounts, NEW c \in DOMAIN proposals, NEW d \in Decisions,
                 RecordDecision(s, c, d)
          PROVE  Gate!Next
      <4> DEFINE rec == [state |-> d, decidedBy |-> s]
      <4>1. Moves(c, rec) /\ State(c) = "PENDING" /\ UNCHANGED <<authVars, market>>
        BY <3>2, RecordDecisionLemma
      <4>2. c \notin disturbed
        <5>1. /\ c.intent.target \in Targets
              /\ c.intent.expectedAuthorizationEpoch = authorizationEpoch
              /\ c.intent.expectedStateVersion = market[c.intent.target].version
          BY <3>2 DEF RecordDecision, CheckPreconditions, TypeOK, Changes, Intents
        <5>2. /\ authorizationEpoch \in Nat /\ market[c.intent.target].version \in Nat
          BY <5>1, BoundsAssumption DEF TypeOK, Markets
        <5>3. QED
          BY <5>1, <5>2 DEF DisturbedIsOutdated, Outdated
      <4>3. rec.state \in {"BLOCKED", "ESCALATED", "EXPIRED"} \/ rec.state = "ALLOWED"
        BY DEF Decisions
      <4> HIDE DEF rec
      <4>4. QED
        BY <2>0, <4>1, <4>2, <4>3, StatusIsApproveOrClose
    <3>3. ASSUME NEW s \in Accounts, NEW c \in DOMAIN proposals, Execute(s, c.intent)
          PROVE  Gate!Next
      <4>1. c.intent \in Intents
        BY DEF TypeOK, Changes
      <4>2. QED
        BY <2>0, <3>3, <4>1, ExecuteIsApply
    <3>4. ASSUME NEW c \in DOMAIN proposals, MarkExpired(c)
          PROVE  [Gate!Next]_Gate!cgVars
      <4> DEFINE rec == [proposals[c] EXCEPT !.state = "EXPIRED"]
      <4>1. /\ Moves(c, rec)
            /\ State(c) \in {"PENDING", "ALLOWED", "ESCALATED"}
            /\ UNCHANGED <<authVars, market>>
        BY <3>4, MarkExpiredLemma
      <4>2. rec.state = "EXPIRED" /\ c \in DOMAIN proposals
        BY <4>1 DEF Moves, TypeOK, Proposals
      <4> HIDE DEF rec
      <4>3. CASE State(c) \in {"PENDING", "ALLOWED"}
        <5>1. rec.state \in {"BLOCKED", "ESCALATED", "EXPIRED"}
          BY <4>2
        <5>2. Gate!Next
          BY <2>0, <4>1, <4>3, <5>1, StatusIsApproveOrClose
        <5>3. QED
          BY <5>2
      <4>4. CASE State(c) = "ESCALATED"
        <5>1. /\ c \in In({"BLOCKED", "ESCALATED", "EXPIRED"})
              /\ c \notin In({"PENDING"}) /\ c \notin In({"ALLOWED"}) /\ c \notin In({"EXECUTED"})
          BY <4>2, <4>4 DEF In, State
        <5>2. UNCHANGED <<In({"PENDING"}), In({"ALLOWED"}), In({"EXECUTED"}),
                          In({"BLOCKED", "ESCALATED", "EXPIRED"})>>
          BY <4>1, <4>2, <5>1, MovedSets
        <5>3. UNCHANGED <<disturbed, authority, [t \in Targets |-> Content(market[t])]>>
          BY <2>0, <4>1 DEF Watch, authVars
        <5>4. QED
          BY <5>2, <5>3 DEF Gate!cgVars, Gate!world, authority
      <4>5. QED
        BY <4>1, <4>3, <4>4
    <3>5. QED
      BY <2>4, <3>1, <3>2, <3>3, <3>4 DEF GateStep
  <2>5. QED
    BY <1>2, <2>1, <2>2, <2>3, <2>4 DEF Next
<1>3. QED
  BY <1>1, <1>2

\* The gate with its versions, epochs and nonces implements the abstract one:
\* nothing is applied twice, unapproved, or after its world moved.
THEOREM Refinement == Spec => ImplementsChangeGate
<1>1. Init => Gate!Init
  BY GateInit
<1>2. IInv /\ [Next]_vars => [Gate!Next]_Gate!cgVars
  BY GateNext
<1>3. QED
  BY <1>1, <1>2, Invariance, PTL DEF Spec, Gate!Spec, ImplementsChangeGate

-----------------------------------------------------------------------------
(* Indexing a block.  IndexLogs folds IndexLog over the logs, a recursion  *)
(* over the subsets of their positions; that it has a value, and that the  *)
(* value is that of going through the logs one by one, is shown by minimal *)
(* counterexamples.                                                        *)

Less == {p \in Nat \X Nat : p[1] < p[2]}

LEMMA SmallestInSet ==
    ASSUME NEW T \in SUBSET Nat, T # {}
    PROVE  \E n \in T : \A m \in T : n <= m
  <1>1. IsWellFoundedOn(Less, Nat)
    BY NatLessThanWellFounded DEF OpToRel, Less
  <1>2. \E x \in T : \A y \in T : ~(<<y, x>> \in Less)
    BY <1>1, WFMin
  <1>3. \A x, y \in Nat : y < x => <<y, x>> \in Less
    BY DEF Less
  <1>4. PICK x \in T : \A y \in T : ~(<<y, x>> \in Less)
    BY <1>2
  <1>5. ASSUME NEW y \in T PROVE x <= y
    <2>1. x \in Nat /\ y \in Nat /\ ~(y < x)
      BY <1>3, <1>4
    <2> QED  BY <2>1
  <1> QED  BY <1>5

LEMMA SubsetLess ==
    ASSUME NEW S, IsFiniteSet(S), NEW s \in SUBSET S, NEW x \in s
    PROVE  /\ IsFiniteSet(s) /\ Cardinality(s) \in Nat
           /\ Cardinality(s \ {x}) \in Nat /\ Cardinality(s \ {x}) < Cardinality(s)
  BY FS_Subset, FS_RemoveElement, FS_CardinalityType

LEMMA MaxOfSet ==
    ASSUME NEW n \in Nat, NEW s \in SUBSET (1..n), s # {}
    PROVE  Max(s) \in s /\ \A y \in s : y <= Max(s)
  <1> DEFINE T == {n - y : y \in s}
  <1>0. \A y \in s : y \in 1..n /\ n - y \in Nat
    OBVIOUS
  <1>1. T \in SUBSET Nat /\ T # {}
    <2>1. T \in SUBSET Nat
      BY <1>0
    <2>2. PICK y \in s : TRUE
      OBVIOUS
    <2>3. n - y \in T
      BY <2>2
    <2> QED  BY <2>1, <2>3
  <1>2. PICK m \in T : \A k \in T : m <= k
    BY <1>1, SmallestInSet
  <1>3. PICK x \in s : m = n - x
    BY <1>2
  <1>4. \A y \in s : x >= y
    <2> SUFFICES ASSUME NEW y \in s PROVE x >= y
      OBVIOUS
    <2>1. n - y \in T
      OBVIOUS
    <2>2. n - x <= n - y
      BY <1>2, <1>3, <2>1
    <2> QED  BY <2>2
  <1>5. Max(s) \in s /\ \A y \in s : Max(s) >= y
    BY <1>4 DEF Max
  <1> QED  BY <1>5

LEMMA MaxOfInterval ==
    ASSUME NEW k \in Nat, k > 0
    PROVE  Max(1..k) = k
  <1>1. 1..k \in SUBSET (1..k) /\ 1..k # {} /\ k \in 1..k
    OBVIOUS
  <1>2. PICK m : m = Max(1..k)
    OBVIOUS
  <1>3. m \in 1..k /\ k <= m
    BY <1>1, <1>2, MaxOfSet
  <1> QED  BY <1>2, <1>3

Indexes(g, i, block, final) ==
    g = [s \in SUBSET DOMAIN block |->
            IF s = {} THEN i
            ELSE LET x == Max(s) IN IndexLog(g[s \ {x}], block[x], final)]

IndexesUpTo(h, n, i, block, final) ==
    h = [s \in {s \in SUBSET DOMAIN block : Cardinality(s) <= n} |->
            IF s = {} THEN i
            ELSE LET x == Max(s) IN IndexLog(h[s \ {x}], block[x], final)]

LEMMA IndexLogsIsRecursion ==
    ASSUME NEW i, NEW block, NEW final
    PROVE  IndexLogs(i, block, final)
              = (CHOOSE g : Indexes(g, i, block, final))[DOMAIN block]
  BY DEF IndexLogs, FoldLeft, MapThenFoldSet, Indexes

LEMMA IndexesExist ==
    ASSUME NEW i, NEW n \in Nat, NEW block, DOMAIN block = 1..n, NEW final
    PROVE  \E g : Indexes(g, i, block, final)
  <1> DEFINE D(k) == {s \in SUBSET DOMAIN block : Cardinality(s) <= k}
             T == {k \in Nat : ~\E h : IndexesUpTo(h, k, i, block, final)}
  <1>1. /\ IsFiniteSet(1..n)
        /\ \A s \in SUBSET DOMAIN block :
              IsFiniteSet(s) /\ Cardinality(s) \in Nat /\ (Cardinality(s) = 0 => s = {})
    <2>1. IsFiniteSet(1..n)
      BY FS_Interval
    <2>2. ASSUME NEW s \in SUBSET DOMAIN block
          PROVE  IsFiniteSet(s) /\ Cardinality(s) \in Nat /\ (Cardinality(s) = 0 => s = {})
      <3>1. IsFiniteSet(s)
        BY <2>1, FS_Subset
      <3> QED  BY <3>1, FS_CardinalityType, FS_EmptySet
    <2> QED  BY <2>1, <2>2
  <1>2. T = {}
    <2> SUFFICES ASSUME T # {} PROVE FALSE
      OBVIOUS
    <2>1. PICK k \in T : \A m \in T : k <= m
      BY SmallestInSet
    <2>2. \E h : IndexesUpTo(h, k, i, block, final)
      <3>1. CASE k = 0
        <4> DEFINE h == [s \in D(k) |-> i]
        <4>1. \A s \in D(k) : s = {}
          BY <1>1, <3>1
        <4>2. h = [s \in D(k) |-> IF s = {} THEN i
                                  ELSE LET x == Max(s) IN IndexLog(h[s \ {x}], block[x], final)]
          BY <4>1
        <4> QED  BY <4>2 DEF IndexesUpTo
      <3>2. CASE k > 0
        <4>1. k - 1 \in Nat /\ k - 1 \notin T
          BY <2>1, <3>2
        <4>2. PICK h : IndexesUpTo(h, k - 1, i, block, final)
          BY <4>1
        <4> DEFINE j == [s \in D(k) |-> IF s = {} THEN i
                                        ELSE LET x == Max(s) IN IndexLog(h[s \ {x}], block[x], final)]
        <4>3. \A s \in D(k - 1) : j[s] = h[s]
          <5> SUFFICES ASSUME NEW s \in D(k - 1) PROVE j[s] = h[s]
            OBVIOUS
          <5>1. s \in D(k)
            BY <1>1, <2>1
          <5> QED  BY <4>2, <5>1 DEF IndexesUpTo
        <4>4. ASSUME NEW s \in D(k), s # {}
              PROVE  Max(s) \in s /\ s \ {Max(s)} \in D(k - 1)
          <5>1. Max(s) \in s
            BY <4>4, MaxOfSet
          <5>2. PICK x \in s : x = Max(s)
            BY <5>1
          <5>3. Cardinality(s \ {x}) \in Nat /\ Cardinality(s \ {x}) < Cardinality(s)
            BY <1>1, SubsetLess
          <5> QED  BY <1>1, <2>1, <3>2, <5>2, <5>3
        <4>5. ASSUME NEW s \in D(k)
              PROVE  j[s] = IF s = {} THEN i
                            ELSE LET x == Max(s) IN IndexLog(j[s \ {x}], block[x], final)
          <5>1. CASE s = {}
            BY <5>1
          <5>2. CASE s # {}
            <6>1. j[s] = IndexLog(h[s \ {Max(s)}], block[Max(s)], final)
              BY <5>2
            <6>2. h[s \ {Max(s)}] = j[s \ {Max(s)}]
              BY <4>3, <4>4, <5>2
            <6> HIDE DEF j
            <6> QED  BY <5>2, <6>1, <6>2
          <5> QED  BY <5>1, <5>2
        <4>6. j = [s \in D(k) |-> IF s = {} THEN i
                                  ELSE LET x == Max(s) IN IndexLog(j[s \ {x}], block[x], final)]
          BY <4>5
        <4> QED  BY <4>6 DEF IndexesUpTo
      <3> QED  BY <2>1, <3>1, <3>2
    <2> QED  BY <2>1, <2>2
  <1>3. Cardinality(DOMAIN block) \in Nat
    BY <1>1
  <1>4. PICK h : IndexesUpTo(h, Cardinality(DOMAIN block), i, block, final)
    BY <1>2, <1>3
  <1>5. D(Cardinality(DOMAIN block)) = SUBSET DOMAIN block
    BY <1>1, FS_Subset
  <1> QED  BY <1>4, <1>5 DEF IndexesUpTo, Indexes

\* The index after each of the logs of a block, in order.
IsRun(r, i, block, final) ==
    /\ DOMAIN r = 0..Len(block) /\ r[0] = i
    /\ \A k \in 1..Len(block) : r[k] = IndexLog(r[k - 1], block[k], final)

LEMMA RunExists ==
    ASSUME NEW S, NEW block \in Seq(S), NEW i, NEW final
    PROVE  \E r : IsRun(r, i, block, final) /\ IndexLogs(i, block, final) = r[Len(block)]
  <1> DEFINE n == Len(block)
             g == CHOOSE g : Indexes(g, i, block, final)
             r == [k \in 0..n |-> g[1..k]]
  <1>1. n \in Nat /\ DOMAIN block = 1..n
    OBVIOUS
  <1>2. Indexes(g, i, block, final)
    BY <1>1, IndexesExist
  <1>3. IndexLogs(i, block, final) = g[1..n]
    BY <1>1, IndexLogsIsRecursion
  <1> HIDE DEF g
  <1>4. r[0] = i
    <2>1. 1..0 = {} /\ {} \in SUBSET DOMAIN block
      OBVIOUS
    <2>2. g[{}] = i
      BY <1>2, <2>1 DEF Indexes
    <2> QED  BY <1>1, <2>1, <2>2
  <1>5. ASSUME NEW k \in 1..n
        PROVE  r[k] = IndexLog(r[k - 1], block[k], final)
    <2>1. 1..k \in SUBSET DOMAIN block /\ 1..k # {} /\ (1..k) \ {k} = 1..(k - 1)
      BY <1>1
    <2>2. Max(1..k) = k
      BY <1>1, MaxOfInterval
    <2>3. g[1..k] = LET x == Max(1..k) IN IndexLog(g[(1..k) \ {x}], block[x], final)
      BY <1>2, <2>1 DEF Indexes
    <2>4. g[1..k] = IndexLog(g[1..(k - 1)], block[k], final)
      BY <2>1, <2>2, <2>3
    <2> QED  BY <1>1, <2>4
  <1>6. r[n] = g[1..n]
    BY <1>1
  <1>7. DOMAIN r = 0..n
    OBVIOUS
  <1> HIDE DEF r
  <1> QED  BY <1>3, <1>4, <1>5, <1>6, <1>7 DEF IsRun

LEMMA RunsAgree ==
    ASSUME NEW S, NEW block \in Seq(S), NEW i, NEW final, NEW r, NEW q,
           IsRun(r, i, block, final), IsRun(q, i, block, final)
    PROVE  \A k \in 0..Len(block) : r[k] = q[k]
  <1> DEFINE T == {k \in 0..Len(block) : r[k] # q[k]}
  <1> SUFFICES ASSUME T # {} PROVE FALSE
    OBVIOUS
  <1>1. T \in SUBSET Nat
    OBVIOUS
  <1>2. PICK k \in T : \A m \in T : k <= m
    BY <1>1, SmallestInSet
  <1>3. k # 0
    BY <1>2 DEF IsRun
  <1>4. k - 1 \in 0..Len(block) /\ k - 1 \notin T /\ k \in 1..Len(block)
    BY <1>1, <1>2, <1>3
  <1>5. r[k - 1] = q[k - 1]
    BY <1>4
  <1> QED  BY <1>2, <1>4, <1>5 DEF IsRun

LEMMA IndexLogsIsRun ==
    ASSUME NEW S, NEW block \in Seq(S), NEW i, NEW final, NEW r, IsRun(r, i, block, final)
    PROVE  IndexLogs(i, block, final) = r[Len(block)]
  <1>1. PICK q : IsRun(q, i, block, final) /\ IndexLogs(i, block, final) = q[Len(block)]
    BY RunExists
  <1>2. Len(block) \in 0..Len(block)
    OBVIOUS
  <1> QED  BY <1>1, <1>2, RunsAgree

\* Nothing, one log, and one block after another.
LEMMA IndexNothing ==
    ASSUME NEW i, NEW final
    PROVE  IndexLogs(i, << >>, final) = i
  <1>1. << >> \in Seq({}) /\ Len(<< >>) = 0
    OBVIOUS
  <1>2. PICK r : IsRun(r, i, << >>, final) /\ IndexLogs(i, << >>, final) = r[Len(<< >>)]
    BY <1>1, RunExists
  <1> QED  BY <1>1, <1>2 DEF IsRun

LEMMA IndexOne ==
    ASSUME NEW i, NEW log, NEW final
    PROVE  IndexLogs(i, <<log>>, final) = IndexLog(i, log, final)
  <1>1. <<log>> \in Seq({log}) /\ Len(<<log>>) = 1 /\ <<log>>[1] = log
    OBVIOUS
  <1>2. PICK r : IsRun(r, i, <<log>>, final) /\ IndexLogs(i, <<log>>, final) = r[Len(<<log>>)]
    BY <1>1, RunExists
  <1>3. r[1] = IndexLog(r[1 - 1], <<log>>[1], final) /\ r[0] = i
    BY <1>1, <1>2 DEF IsRun
  <1> QED  BY <1>1, <1>2, <1>3

LEMMA IndexConcat ==
    ASSUME NEW S, NEW a \in Seq(S), NEW b \in Seq(S), NEW i, NEW final
    PROVE  IndexLogs(i, a \o b, final) = IndexLogs(IndexLogs(i, a, final), b, final)
  <1> DEFINE n == Len(a)
             m == Len(b)
  <1>1. PICK c : c = a \o b
    OBVIOUS
  <1>2. /\ n \in Nat /\ m \in Nat /\ c \in Seq(S) /\ Len(c) = n + m
        /\ \A k \in 1..n : c[k] = a[k]
        /\ \A k \in 1..m : c[n + k] = b[k]
    BY <1>1
  <1>3. PICK r : IsRun(r, i, c, final) /\ IndexLogs(i, c, final) = r[Len(c)]
    BY <1>2, RunExists
  <1> DEFINE q == [k \in 0..n |-> r[k]]
             s == [k \in 0..m |-> r[n + k]]
  <1>4. /\ r[0] = i
        /\ \A k \in 1..(n + m) : r[k] = IndexLog(r[k - 1], c[k], final)
    BY <1>2, <1>3 DEF IsRun
  <1>5. IsRun(q, i, a, final)
    <2>1. q[0] = i /\ DOMAIN q = 0..n
      BY <1>2, <1>4
    <2>2. ASSUME NEW k \in 1..n
          PROVE  q[k] = IndexLog(q[k - 1], a[k], final)
      <3>1. r[k] = IndexLog(r[k - 1], c[k], final)
        BY <1>2, <1>4
      <3>2. q[k] = r[k] /\ q[k - 1] = r[k - 1] /\ c[k] = a[k]
        BY <1>2
      <3> HIDE DEF q
      <3> QED  BY <3>1, <3>2
    <2> HIDE DEF q
    <2> QED  BY <2>1, <2>2 DEF IsRun
  <1>6. IndexLogs(i, a, final) = r[n]
    <2>1. q[n] = r[n]
      BY <1>2
    <2> HIDE DEF q
    <2> QED  BY <1>5, <2>1, IndexLogsIsRun
  <1>7. IsRun(s, r[n], b, final)
    <2>1. s[0] = r[n] /\ DOMAIN s = 0..m
      BY <1>2
    <2>2. ASSUME NEW k \in 1..m
          PROVE  s[k] = IndexLog(s[k - 1], b[k], final)
      <3>1. n + k \in 1..(n + m) /\ n + (k - 1) = (n + k) - 1 /\ k - 1 \in 0..m /\ k \in 0..m
        BY <1>2
      <3>2. r[n + k] = IndexLog(r[(n + k) - 1], c[n + k], final)
        BY <1>4, <3>1
      <3>3. s[k] = r[n + k] /\ s[k - 1] = r[n + (k - 1)] /\ c[n + k] = b[k]
        BY <1>2, <3>1
      <3> HIDE DEF s
      <3> QED  BY <3>1, <3>2, <3>3
    <2> HIDE DEF s
    <2> QED  BY <2>1, <2>2 DEF IsRun
  <1>8. IndexLogs(r[n], b, final) = r[n + m]
    <2>1. s[m] = r[n + m]
      BY <1>2
    <2> HIDE DEF s
    <2> QED  BY <1>7, <2>1, IndexLogsIsRun
  <1> QED  BY <1>1, <1>2, <1>3, <1>6, <1>8

\* The sequences of at most one element.
LEMMA ShortSequences ==
    SetToSeq({}) = << >> /\ \A e : SetToSeq({e}) = <<e>>
  <1>1. SetToSeq({}) = << >>
    <2>1. Cardinality({}) = 0 /\ 1..0 = {}
      BY FS_EmptySet
    <2>2. \A f \in [1..0 -> {}] : f = << >>
      OBVIOUS
    <2>3. << >> \in [1..0 -> {}] /\ IsInjective(<< >>)
      BY DEF IsInjective
    <2> QED  BY <2>1, <2>2, <2>3 DEF SetToSeq
  <1>2. ASSUME NEW e
        PROVE  SetToSeq({e}) = <<e>>
    <2>1. Cardinality({e}) = 1 /\ 1..1 = {1}
      BY FS_Singleton
    <2>2. \A f \in [1..1 -> {e}] : f = <<e>>
      BY <2>1
    <2>3. <<e>> \in [1..1 -> {e}] /\ IsInjective(<<e>>)
      BY DEF IsInjective
    <2> QED  BY <2>1, <2>2, <2>3 DEF SetToSeq
  <1> QED  BY <1>1, <1>2

-----------------------------------------------------------------------------
(* What the index shows of the gate                                        *)

RoleNames == {"admin", "operator", "decisionAuthority", "authorizationEpoch"}
Roles == [admin: Accounts, operator: Accounts, decisionAuthority: Accounts,
          authorizationEpoch: 0..MaxEpoch]

IndexFields == {"executor", "preconditions", "changes", "calls", "halted"}
ChangeFields == {"expects", "decision", "state"}

\* An index that has met its executor and has not stopped.
IsIndex(i) ==
    /\ DOMAIN i = IndexFields /\ i.halted = FALSE
    /\ i.executor \in Roles
    /\ i.calls \in [DOMAIN i.calls -> BOOLEAN]

ShowsCalls(i) == {p \in DOMAIN i.calls : i.calls[p]} = allowedCalls

DecisionsAt(state) ==
    CASE state \in Decisions  -> {state}
      [] state = "PENDING"  -> {"NONE"}
      [] state = "EXECUTED" -> {"ALLOWED"}
      [] state = "EXPIRED"  -> {"NONE", "ALLOWED", "ESCALATED"}

ShowsChange(change, c) ==
    /\ DOMAIN change = ChangeFields
    /\ change.expects = Expects(c) /\ change.state = proposals[c].state
    /\ change.decision \in DecisionsAt(proposals[c].state)

ShowsChanges(i) ==
    /\ DOMAIN i.changes = DOMAIN proposals
    /\ \A c \in DOMAIN proposals : ShowsChange(i.changes[c], c)

\* An entity created from final may already show roles as they will be.
ShowsRoles(i, final) == \A f \in RoleNames : i.executor[f] = Contract[f] \/ i.executor[f] = final[f]

Shows(i, final) == IsIndex(i) /\ ShowsRoles(i, final) /\ ShowsCalls(i) /\ ShowsChanges(i)

\* Sequences, of whatever logs.
IsBlock(s) == \E S : s \in Seq(S)

LEMMA Blocks ==
    /\ IsBlock(<< >>)
    /\ \A log : IsBlock(<<log>>)
    /\ \A a, b : IsBlock(a) /\ IsBlock(b) => IsBlock(a \o b)
  <1>1. << >> \in Seq({}) /\ \A log : <<log>> \in Seq({log})
    OBVIOUS
  <1>2. ASSUME NEW a, NEW b, IsBlock(a), IsBlock(b)
        PROVE  IsBlock(a \o b)
    <2>1. PICK S : a \in Seq(S)
      BY <1>2 DEF IsBlock
    <2>2. PICK T : b \in Seq(T)
      BY <1>2 DEF IsBlock
    <2>3. a \in Seq(S \cup T) /\ b \in Seq(S \cup T)
      BY <2>1, <2>2
    <2>4. a \o b \in Seq(S \cup T)
      BY <2>3
    <2> QED  BY <2>4 DEF IsBlock
  <1> QED  BY <1>1, <1>2 DEF IsBlock

LEMMA IndexBoth ==
    ASSUME NEW a, NEW b, IsBlock(a), IsBlock(b), NEW i, NEW final
    PROVE  IndexLogs(i, a \o b, final) = IndexLogs(IndexLogs(i, a, final), b, final)
  <1>1. PICK S : a \in Seq(S)
    BY DEF IsBlock
  <1>2. PICK T : b \in Seq(T)
    BY DEF IsBlock
  <1>3. a \in Seq(S \cup T) /\ b \in Seq(S \cup T)
    BY <1>1, <1>2
  <1> QED  BY <1>3, IndexConcat

LEMMA Running ==
    ASSUME NEW i, IsIndex(i), NEW log, NEW final
    PROVE  /\ IndexLogs(i, <<log>>, final) = Handle(i, log, final)
           /\ ExecutorFor(i, final) = i.executor
  <1>1. i.halted = FALSE
    BY DEF IsIndex
  <1>2. i.executor # NoExecutor
    BY DEF IsIndex, Roles, NoExecutor
  <1> QED  BY <1>1, <1>2, IndexOne DEF IndexLog, ExecutorFor

\* The event of a role writes that role only.
LEMMA TellRole ==
    ASSUME NEW i, IsIndex(i), NEW name \in RoleNames, NEW to \in Roles, NEW final
    PROVE  \E j : /\ j = IndexLogs(i, <<Field(name, to[name])>>, final)
                  /\ IsIndex(j) /\ j.executor[name] = to[name]
                  /\ \A f \in RoleNames \ {name} : j.executor[f] = i.executor[f]
                  /\ j.calls = i.calls /\ j.changes = i.changes
  <1>1. PICK log : log = Field(name, to[name])
    OBVIOUS
  <1>2. log.event = "Executor" /\ log.field = name /\ log.value = to[name]
    BY <1>1 DEF Field
  <1>3. PICK e : e = [i.executor EXCEPT ![name] = to[name]]
    OBVIOUS
  <1>4. PICK j : j = [i EXCEPT !.executor = e]
    OBVIOUS
  <1>5. Handle(i, log, final) = j
    BY <1>2, <1>3, <1>4, Running DEF Handle
  <1>6. e \in Roles /\ e[name] = to[name] /\ \A f \in RoleNames \ {name} : e[f] = i.executor[f]
    BY <1>3 DEF IsIndex, Roles, RoleNames
  <1>7. /\ DOMAIN j = IndexFields /\ j.halted = FALSE
        /\ j.executor = e /\ j.changes = i.changes /\ j.calls = i.calls
    BY <1>4 DEF IsIndex, IndexFields
  <1>8. IsIndex(j)
    BY <1>6, <1>7 DEF IsIndex
  <1>9. j = IndexLogs(i, <<log>>, final)
    BY <1>5, Running
  <1> QED  BY <1>1, <1>6, <1>7, <1>8, <1>9

\* The event of an allowed call writes that call only.
LEMMA TellCall ==
    ASSUME NEW i, IsIndex(i), NEW p, NEW b \in BOOLEAN, NEW final
    PROVE  \E j : /\ j = IndexLogs(i, <<AllowedCall(p, b)>>, final)
                  /\ IsIndex(j) /\ j.executor = i.executor /\ j.changes = i.changes
                  /\ \A q : /\ q \in DOMAIN j.calls <=> q \in DOMAIN i.calls \/ q = p
                            /\ q \in DOMAIN j.calls =>
                                  j.calls[q] = IF q = p THEN b ELSE i.calls[q]
  <1>1. PICK log : log = AllowedCall(p, b)
    OBVIOUS
  <1>2. log.event = "AllowedCallUpdated" /\ log.call = p /\ log.allowed = b
    BY <1>1 DEF AllowedCall
  <1>3. PICK calls : calls = Put(i.calls, p, b)
    OBVIOUS
  <1>4. PICK j : j = [i EXCEPT !.executor = i.executor, !.calls = calls]
    OBVIOUS
  <1>5. Handle(i, log, final) = j
    BY <1>2, <1>3, <1>4, Running DEF Handle
  <1>6. /\ \A q : /\ q \in DOMAIN calls <=> q \in DOMAIN i.calls \/ q = p
                  /\ q \in DOMAIN calls => calls[q] = IF q = p THEN b ELSE i.calls[q]
        /\ calls \in [DOMAIN calls -> BOOLEAN]
    BY <1>3 DEF Put, IsIndex
  <1>7. /\ DOMAIN j = IndexFields /\ j.halted = FALSE
        /\ j.executor = i.executor /\ j.changes = i.changes /\ j.calls = calls
    BY <1>4 DEF IsIndex, IndexFields
  <1>8. IsIndex(j)
    BY <1>6, <1>7 DEF IsIndex
  <1>9. j = IndexLogs(i, <<log>>, final)
    BY <1>5, Running
  <1> QED  BY <1>1, <1>6, <1>7, <1>8, <1>9

\* The two events of a proposal make its entity.
LEMMA TellCreated ==
    ASSUME NEW i, IsIndex(i), NEW c, NEW final
    PROVE  \E j : /\ j = IndexLogs(i, <<ProposalPreconditions(c)>> \o <<ProposalCreated(c)>>, final)
                  /\ IsIndex(j) /\ j.executor = i.executor /\ j.calls = i.calls
                  /\ j.changes = Put(i.changes, c, [expects |-> Expects(c), decision |-> "NONE",
                                                    state |-> "PENDING"])
  <1>1. PICK first : first = ProposalPreconditions(c)
    OBVIOUS
  <1>2. PICK second : second = ProposalCreated(c)
    OBVIOUS
  <1>3. /\ first.event = "ProposalPreconditions" /\ first.change = c /\ first.expects = Expects(c)
        /\ second.event = "ProposalCreated" /\ second.change = c
    BY <1>1, <1>2 DEF ProposalPreconditions, ProposalCreated
  <1>4. PICK preconditions : preconditions = Put(i.preconditions, c, Expects(c))
    OBVIOUS
  <1>5. PICK k : k = [i EXCEPT !.preconditions = preconditions]
    OBVIOUS
  <1>6. Handle(i, first, final) = k
    BY <1>3, <1>4, <1>5 DEF Handle
  <1>7. /\ DOMAIN k = IndexFields /\ k.halted = FALSE
        /\ k.executor = i.executor /\ k.preconditions = preconditions
        /\ k.changes = i.changes /\ k.calls = i.calls
    BY <1>5 DEF IsIndex, IndexFields
  <1>8. IsIndex(k)
    BY <1>7 DEF IsIndex
  <1>9. c \in DOMAIN k.preconditions /\ k.preconditions[c] = Expects(c)
    BY <1>4, <1>7 DEF Put
  <1>10. PICK changes : changes = Put(i.changes, c, [expects |-> Expects(c), decision |-> "NONE",
                                                     state |-> "PENDING"])
    OBVIOUS
  <1>11. PICK j : j = [k EXCEPT !.changes = changes]
    OBVIOUS
  <1>12. Handle(k, second, final) = j
    <2>1. Handle(k, second, final) = HandleProposalCreated(k, c)
      BY <1>3 DEF Handle
    <2> QED  BY <1>7, <1>9, <1>10, <1>11, <2>1 DEF HandleProposalCreated
  <1>13. /\ DOMAIN j = IndexFields /\ j.halted = FALSE
         /\ j.executor = i.executor /\ j.changes = changes /\ j.calls = i.calls
    BY <1>7, <1>11 DEF IndexFields
  <1>14. IsIndex(j)
    BY <1>8, <1>13 DEF IsIndex
  <1>15. IndexLogs(i, <<first>> \o <<second>>, final) = j
    BY <1>6, <1>8, <1>12, Blocks, IndexBoth, Running
  <1> QED  BY <1>1, <1>2, <1>10, <1>13, <1>14, <1>15

\* The event of a state writes the state of its entity, and its decision.
LEMMA TellState ==
    ASSUME NEW i, IsIndex(i), NEW c \in DOMAIN i.changes, NEW state, NEW final,
           DOMAIN i.changes[c] = ChangeFields
    PROVE  \E j : /\ j = IndexLogs(i, <<ProposalState(c, state)>>, final)
                  /\ IsIndex(j) /\ j.executor = i.executor /\ j.calls = i.calls
                  /\ DOMAIN j.changes = DOMAIN i.changes
                  /\ \A d \in DOMAIN i.changes \ {c} : j.changes[d] = i.changes[d]
                  /\ DOMAIN j.changes[c] = ChangeFields
                  /\ j.changes[c].expects = i.changes[c].expects /\ j.changes[c].state = state
                  /\ j.changes[c].decision = IF state \in Decisions THEN state
                                             ELSE i.changes[c].decision
  <1>1. PICK log : log = ProposalState(c, state)
    OBVIOUS
  <1>2. log.event = "State" /\ log.change = c /\ log.state = state
    BY <1>1 DEF ProposalState
  <1>3. PICK old : old = i.changes[c]
    OBVIOUS
  <1>4. PICK decision : decision = IF state \in Decisions THEN state ELSE old.decision
    OBVIOUS
  <1>5. PICK new : new = WithState(old, state)
    OBVIOUS
  <1>6. PICK changes : changes = Put(i.changes, c, new)
    OBVIOUS
  <1>7. PICK j : j = [i EXCEPT !.changes = changes]
    OBVIOUS
  <1>8. Handle(i, log, final) = j
    <2>1. Handle(i, log, final) = HandleState(i, c, state)
      BY <1>2 DEF Handle
    <2> QED  BY <1>3, <1>5, <1>6, <1>7, <2>1 DEF HandleState
  <1>9. /\ DOMAIN new = ChangeFields /\ new.expects = old.expects
        /\ new.state = state /\ new.decision = decision
    BY <1>3, <1>4, <1>5 DEF ChangeFields, WithState
  <1>10. /\ DOMAIN j = IndexFields /\ j.halted = FALSE
         /\ j.executor = i.executor /\ j.changes = changes /\ j.calls = i.calls
    BY <1>7 DEF IsIndex, IndexFields
  <1>11. IsIndex(j)
    BY <1>10 DEF IsIndex
  <1>12. /\ DOMAIN changes = DOMAIN i.changes /\ changes[c] = new
         /\ \A d \in DOMAIN i.changes \ {c} : changes[d] = i.changes[d]
    BY <1>6 DEF Put
  <1>13. j = IndexLogs(i, <<log>>, final)
    BY <1>8, Running
  <1> QED  BY <1>1, <1>3, <1>4, <1>9, <1>10, <1>11, <1>12, <1>13

-----------------------------------------------------------------------------
(* A transaction of the gate, log by log                                   *)

RoleLog(name, old, new) == IF old = new THEN << >> ELSE <<Field(name, new)>>
RoleBlock ==
    RoleLog("authorizationEpoch", authorizationEpoch, authorizationEpoch')
    \o RoleLog("admin", admin, admin')
    \o RoleLog("operator", operator, operator')
    \o RoleLog("decisionAuthority", decisionAuthority, decisionAuthority')

Switched == (allowedCalls' \ allowedCalls) \cup (allowedCalls \ allowedCalls')
CallLog(p) == AllowedCall(p, p \in allowedCalls')
CallLogs == SetToSeq({CallLog(p) : p \in Switched})

Created == DOMAIN proposals' \ DOMAIN proposals
Moved == {c \in DOMAIN proposals : State(c)' # State(c)}
MoveLog(c) == ProposalState(c, State(c)')
PreconditionLogs == SetToSeq({ProposalPreconditions(c) : c \in Created})
CreatedLogs == SetToSeq({ProposalCreated(c) : c \in Created})
MoveLogs == SetToSeq({MoveLog(c) : c \in Moved})

LEMMA LogsInPieces ==
    /\ RoleLogs = RoleBlock \o CallLogs
    /\ ProposalLogs = PreconditionLogs \o CreatedLogs \o MoveLogs
  <1>1. RoleLogs = RoleBlock \o CallLogs
    BY DEF RoleLogs, RoleBlock, RoleLog, CallLogs, CallLog, Switched
  <1>2. ProposalLogs = PreconditionLogs \o CreatedLogs \o MoveLogs
    BY DEF ProposalLogs, PreconditionLogs, CreatedLogs, MoveLogs, MoveLog, Created, Moved
  <1> QED  BY <1>1, <1>2

\* j is i but for a role that changed from old to new.
RoleTold(j, i, name, old, new) ==
    /\ IsIndex(j) /\ j.calls = i.calls /\ j.changes = i.changes
    /\ j.executor[name] = IF old = new THEN i.executor[name] ELSE new
    /\ \A f \in RoleNames \ {name} : j.executor[f] = i.executor[f]

LEMMA TellRoleLog ==
    ASSUME NEW i, IsIndex(i), NEW name \in RoleNames, NEW to \in Roles, NEW old, NEW final
    PROVE  /\ IsBlock(RoleLog(name, old, to[name]))
           /\ RoleTold(IndexLogs(i, RoleLog(name, old, to[name]), final), i, name, old, to[name])
  <1>1. CASE old = to[name]
    <2>1. RoleLog(name, old, to[name]) = << >>
      BY <1>1 DEF RoleLog
    <2>2. RoleTold(i, i, name, old, to[name])
      BY <1>1 DEF RoleTold
    <2> QED  BY <2>1, <2>2, Blocks, IndexNothing
  <1>2. CASE old # to[name]
    <2>1. RoleLog(name, old, to[name]) = <<Field(name, to[name])>>
      BY <1>2 DEF RoleLog
    <2>2. PICK j : /\ j = IndexLogs(i, <<Field(name, to[name])>>, final)
                   /\ IsIndex(j) /\ j.executor[name] = to[name]
                   /\ \A f \in RoleNames \ {name} : j.executor[f] = i.executor[f]
                   /\ j.calls = i.calls /\ j.changes = i.changes
      BY TellRole
    <2>3. RoleTold(j, i, name, old, to[name])
      BY <1>2, <2>2 DEF RoleTold
    <2> QED  BY <2>1, <2>2, <2>3, Blocks
  <1> QED  BY <1>1, <1>2

LEMMA ContractTyped ==
    ASSUME TypeOK
    PROVE  /\ Contract \in Roles
           /\ Contract["admin"] = admin /\ Contract["operator"] = operator
           /\ Contract["decisionAuthority"] = decisionAuthority
           /\ Contract["authorizationEpoch"] = authorizationEpoch
  BY DEF TypeOK, Contract, Roles

\* The four roles of the index follow those of the gate.
LEMMA TellRoles ==
    ASSUME TypeOK, TypeOK', NEW final, NEW i, IsIndex(i), ShowsRoles(i, final)
    PROVE  /\ IsBlock(RoleBlock)
           /\ \E j : /\ j = IndexLogs(i, RoleBlock, final)
                     /\ IsIndex(j) /\ j.calls = i.calls /\ j.changes = i.changes
                     /\ ShowsRoles(j, final)'
  <1>1. PICK from : from = Contract
    OBVIOUS
  <1>2. PICK to : to = Contract'
    OBVIOUS
  <1>3. /\ to \in Roles /\ to["admin"] = admin' /\ to["operator"] = operator'
        /\ to["decisionAuthority"] = decisionAuthority'
        /\ to["authorizationEpoch"] = authorizationEpoch'
    BY <1>2 DEF TypeOK, Contract, Roles
  <1>4. /\ from["admin"] = admin /\ from["operator"] = operator
        /\ from["decisionAuthority"] = decisionAuthority
        /\ from["authorizationEpoch"] = authorizationEpoch
    BY <1>1, ContractTyped
  <1> DEFINE A == RoleLog("authorizationEpoch", authorizationEpoch, to["authorizationEpoch"])
             B == RoleLog("admin", admin, to["admin"])
             C == RoleLog("operator", operator, to["operator"])
             D == RoleLog("decisionAuthority", decisionAuthority, to["decisionAuthority"])
  <1>5. PICK j1 : /\ IsBlock(A) /\ j1 = IndexLogs(i, A, final)
                  /\ RoleTold(j1, i, "authorizationEpoch", authorizationEpoch, to["authorizationEpoch"])
    <2>1. "authorizationEpoch" \in RoleNames
      BY DEF RoleNames
    <2> QED  BY <1>3, <2>1, TellRoleLog
  <1>6. PICK j2 : /\ IsBlock(B) /\ j2 = IndexLogs(j1, B, final)
                  /\ RoleTold(j2, j1, "admin", admin, to["admin"])
    <2>1. "admin" \in RoleNames /\ IsIndex(j1)
      BY <1>5 DEF RoleNames, RoleTold
    <2> QED  BY <1>3, <2>1, TellRoleLog
  <1>7. PICK j3 : /\ IsBlock(C) /\ j3 = IndexLogs(j2, C, final)
                  /\ RoleTold(j3, j2, "operator", operator, to["operator"])
    <2>1. "operator" \in RoleNames /\ IsIndex(j2)
      BY <1>6 DEF RoleNames, RoleTold
    <2> QED  BY <1>3, <2>1, TellRoleLog
  <1>8. PICK j4 : /\ IsBlock(D) /\ j4 = IndexLogs(j3, D, final)
                  /\ RoleTold(j4, j3, "decisionAuthority", decisionAuthority, to["decisionAuthority"])
    <2>1. "decisionAuthority" \in RoleNames /\ IsIndex(j3)
      BY <1>7 DEF RoleNames, RoleTold
    <2> QED  BY <1>3, <2>1, TellRoleLog
  <1>9. RoleBlock = A \o B \o C \o D
    BY <1>3 DEF RoleBlock
  <1>10. IsBlock(RoleBlock) /\ IndexLogs(i, RoleBlock, final) = j4
    <2> HIDE DEF A, B, C, D
    <2>1. PICK two : two = A \o B
      OBVIOUS
    <2>2. PICK three : three = two \o C
      OBVIOUS
    <2>3. IsBlock(two) /\ IndexLogs(i, two, final) = j2
      BY <1>5, <1>6, <2>1, Blocks, IndexBoth
    <2>4. IsBlock(three) /\ IndexLogs(i, three, final) = j3
      BY <1>7, <2>2, <2>3, Blocks, IndexBoth
    <2>5. RoleBlock = three \o D
      BY <1>9, <2>1, <2>2
    <2> QED  BY <1>8, <2>4, <2>5, Blocks, IndexBoth
  <1>11. \A f \in RoleNames :
            j4.executor[f] = IF from[f] = to[f] THEN i.executor[f] ELSE to[f]
    BY <1>4, <1>5, <1>6, <1>7, <1>8 DEF RoleNames, RoleTold
  <1>12. \A f \in RoleNames : j4.executor[f] = to[f] \/ j4.executor[f] = final[f]
    BY <1>1, <1>11 DEF ShowsRoles
  <1>13. ShowsRoles(j4, final)'
    BY <1>2, <1>12 DEF ShowsRoles
  <1> QED  BY <1>5, <1>6, <1>7, <1>8, <1>10, <1>13 DEF RoleTold

\* A transaction switches at most one allowed call.
LEMMA Switches ==
    ASSUME Next
    PROVE  Switched = {} \/ \E p : Switched = {p}
  <1>1. CASE allowedCalls' = allowedCalls
    BY <1>1 DEF Switched
  <1>2. CASE \E p : allowedCalls' = allowedCalls \cup {p} \/ allowedCalls' = allowedCalls \ {p}
    BY <1>2 DEF Switched
  <1>3. \/ allowedCalls' = allowedCalls
        \/ \E p : allowedCalls' = allowedCalls \cup {p} \/ allowedCalls' = allowedCalls \ {p}
    BY DEF Next, GateStep, AdminStep, MarketStep, Tick, Propose, RecordDecision, Execute,
           MarkExpired, SetAllowedCall, SetOperator, SetDecisionAuthority, TransferOwnership,
           MarketOwnerCall, MarketMutation, authVars, authority
  <1> QED  BY <1>1, <1>2, <1>3

\* The allowed calls of the index follow those of the gate.
LEMMA TellCalls ==
    ASSUME Next, NEW final, NEW i, IsIndex(i), ShowsCalls(i)
    PROVE  /\ IsBlock(CallLogs)
           /\ \E j : /\ j = IndexLogs(i, CallLogs, final)
                     /\ IsIndex(j) /\ j.executor = i.executor /\ j.changes = i.changes
                     /\ ShowsCalls(j)'
  <1>1. CASE Switched = {}
    <2>1. {CallLog(p) : p \in Switched} = {}
      BY <1>1
    <2>2. CallLogs = << >>
      BY <2>1, ShortSequences DEF CallLogs
    <2>3. allowedCalls' = allowedCalls
      BY <1>1 DEF Switched
    <2>4. ShowsCalls(i)'
      BY <2>3 DEF ShowsCalls
    <2> QED  BY <2>2, <2>4, Blocks, IndexNothing
  <1>2. CASE \E p : Switched = {p}
    <2>1. PICK p : Switched = {p}
      BY <1>2
    <2>2. PICK b \in BOOLEAN : b <=> p \in allowedCalls'
      OBVIOUS
    <2>3. PICK log : log = CallLog(p)
      OBVIOUS
    <2>4. log = AllowedCall(p, b)
      <3>1. b = (p \in allowedCalls')
        BY <2>2
      <3> QED  BY <2>3, <3>1 DEF CallLog
    <2>5. {CallLog(q) : q \in Switched} = {log}
      BY <2>1, <2>3
    <2>6. CallLogs = <<log>>
      BY <2>5, ShortSequences DEF CallLogs
    <2>7. PICK j : /\ j = IndexLogs(i, <<AllowedCall(p, b)>>, final)
                   /\ IsIndex(j) /\ j.executor = i.executor /\ j.changes = i.changes
                   /\ \A q : /\ q \in DOMAIN j.calls <=> q \in DOMAIN i.calls \/ q = p
                             /\ q \in DOMAIN j.calls =>
                                   j.calls[q] = IF q = p THEN b ELSE i.calls[q]
      BY TellCall
    <2>8. \A q : q # p => (q \in allowedCalls' <=> q \in allowedCalls)
      BY <2>1 DEF Switched
    <2>9. \A q : (q \in DOMAIN i.calls /\ i.calls[q]) <=> q \in allowedCalls
      BY DEF ShowsCalls
    <2>10. ASSUME NEW q
           PROVE  (q \in DOMAIN j.calls /\ j.calls[q]) <=> q \in allowedCalls'
      <3>1. CASE q = p
        <4>1. p \in DOMAIN j.calls /\ j.calls[p] = b
          BY <2>7
        <4> QED  BY <2>2, <3>1, <4>1
      <3>2. CASE q # p
        <4>1. /\ q \in DOMAIN j.calls <=> q \in DOMAIN i.calls
              /\ q \in DOMAIN j.calls => j.calls[q] = i.calls[q]
          BY <2>7, <3>2
        <4> QED  BY <2>8, <2>9, <3>2, <4>1
      <3> QED  BY <3>1, <3>2
    <2>11. ShowsCalls(j)'
      BY <2>10 DEF ShowsCalls
    <2>12. IsBlock(CallLogs)
      BY <2>6, Blocks
    <2>13. j = IndexLogs(i, CallLogs, final)
      BY <2>4, <2>6, <2>7
    <2> QED  BY <2>7, <2>11, <2>12, <2>13
  <1> QED  BY <1>1, <1>2, Switches

LegalMove(old, new) ==
    \/ old = "PENDING" /\ new \in Decisions
    \/ old = "ALLOWED" /\ new = "EXECUTED"
    \/ old \in {"PENDING", "ALLOWED", "ESCALATED"} /\ new = "EXPIRED"

Proposes(c) ==
    /\ c \notin DOMAIN proposals /\ DOMAIN proposals' = DOMAIN proposals \cup {c}
    /\ proposals'[c].state = "PENDING"
    /\ \A d \in DOMAIN proposals : proposals'[d] = proposals[d]

MovesTo(c, state) ==
    /\ c \in DOMAIN proposals /\ DOMAIN proposals' = DOMAIN proposals
    /\ proposals'[c].state = state /\ LegalMove(proposals[c].state, state)
    /\ \A d \in DOMAIN proposals \ {c} : proposals'[d] = proposals[d]

\* A transaction makes one proposal, moves one, or leaves them alone.
LEMMA ProposalSteps ==
    ASSUME TypeOK, Next
    PROVE  \/ proposals' = proposals
           \/ \E c : Proposes(c)
           \/ \E c, state : MovesTo(c, state)
  <1>1. CASE GateStep
    <2>1. ASSUME NEW s \in Accounts, NEW intent \in Intents, Propose(s, intent)
          PROVE  \E c : Proposes(c)
      <3>1. PICK c : c = hashChangeIntent(s, intent)
        OBVIOUS
      <3>2. /\ c \notin DOMAIN proposals /\ DOMAIN proposals' = DOMAIN proposals \cup {c}
            /\ State(c)' = "PENDING"
            /\ \A d \in DOMAIN proposals : proposals'[d] = proposals[d]
        BY <2>1, <3>1, ProposeLemma
      <3>3. Proposes(c)
        BY <3>2 DEF Proposes, State
      <3> QED  BY <3>3
    <2>2. ASSUME NEW s \in Accounts, NEW c \in DOMAIN proposals, NEW d \in Decisions,
                 RecordDecision(s, c, d)
          PROVE  MovesTo(c, d)
      <3>1. PICK rec : rec = [state |-> d, decidedBy |-> s]
        OBVIOUS
      <3>2. Moves(c, rec) /\ State(c) = "PENDING" /\ rec.state = d
        BY <2>2, <3>1, RecordDecisionLemma
      <3> QED  BY <3>2, MovesLemma DEF MovesTo, LegalMove, State
    <2>3. ASSUME NEW s \in Accounts, NEW c \in DOMAIN proposals, Execute(s, c.intent)
          PROVE  \E e : MovesTo(e, "EXECUTED")
      <3>1. c.intent \in Intents
        BY DEF TypeOK, Changes
      <3>2. PICK e : e = hashChangeIntent(s, c.intent)
        OBVIOUS
      <3>3. PICK rec : rec = [proposals[e] EXCEPT !.state = "EXECUTED"]
        OBVIOUS
      <3>4. Moves(e, rec) /\ State(e) = "ALLOWED"
        BY <2>3, <3>1, <3>2, <3>3, ExecuteLemma
      <3>5. rec.state = "EXECUTED"
        BY <3>3, <3>4 DEF Moves, TypeOK, Proposals
      <3>6. MovesTo(e, "EXECUTED")
        BY <3>4, <3>5, MovesLemma DEF MovesTo, LegalMove, State, Moves
      <3> QED  BY <3>6
    <2>4. ASSUME NEW c \in DOMAIN proposals, MarkExpired(c)
          PROVE  MovesTo(c, "EXPIRED")
      <3>1. PICK rec : rec = [proposals[c] EXCEPT !.state = "EXPIRED"]
        OBVIOUS
      <3>2. Moves(c, rec) /\ State(c) \in {"PENDING", "ALLOWED", "ESCALATED"}
        BY <2>4, <3>1, MarkExpiredLemma
      <3>3. rec.state = "EXPIRED"
        BY <3>1 DEF TypeOK, Proposals
      <3> QED  BY <3>2, <3>3, MovesLemma DEF MovesTo, LegalMove, State
    <2> QED  BY <1>1, <2>1, <2>2, <2>3, <2>4 DEF GateStep
  <1>2. CASE AdminStep \/ MarketStep \/ Tick
    BY <1>2, AdminLemma, MarketLemma DEF Tick
  <1> QED  BY <1>1, <1>2 DEF Next

\* What a transaction logs of them.
LEMMA ProposalPieces ==
    ASSUME TypeOK
    PROVE  /\ Created = {} => PreconditionLogs = << >> /\ CreatedLogs = << >>
           /\ Moved = {} => MoveLogs = << >>
           /\ \A c : Created = {c} => /\ PreconditionLogs = <<ProposalPreconditions(c)>>
                                      /\ CreatedLogs = <<ProposalCreated(c)>>
           /\ \A c : Moved = {c} => MoveLogs = <<MoveLog(c)>>
  <1>1. ASSUME Created = {}
        PROVE  PreconditionLogs = << >> /\ CreatedLogs = << >>
    <2>1. {ProposalPreconditions(c) : c \in Created} = {} /\ {ProposalCreated(c) : c \in Created} = {}
      BY <1>1
    <2> QED  BY <2>1, ShortSequences DEF PreconditionLogs, CreatedLogs
  <1>2. ASSUME Moved = {}
        PROVE  MoveLogs = << >>
    <2>1. {MoveLog(c) : c \in Moved} = {}
      BY <1>2
    <2> QED  BY <2>1, ShortSequences DEF MoveLogs
  <1>3. ASSUME NEW c, Created = {c}
        PROVE  /\ PreconditionLogs = <<ProposalPreconditions(c)>>
               /\ CreatedLogs = <<ProposalCreated(c)>>
    <2>1. PICK first : first = ProposalPreconditions(c)
      OBVIOUS
    <2>2. PICK second : second = ProposalCreated(c)
      OBVIOUS
    <2>3. {ProposalPreconditions(d) : d \in Created} = {first}
      BY <1>3, <2>1
    <2>4. {ProposalCreated(d) : d \in Created} = {second}
      BY <1>3, <2>2
    <2> QED  BY <2>1, <2>2, <2>3, <2>4, ShortSequences DEF PreconditionLogs, CreatedLogs
  <1>4. ASSUME NEW c, Moved = {c}
        PROVE  MoveLogs = <<MoveLog(c)>>
    <2>1. PICK log : log = MoveLog(c)
      OBVIOUS
    <2>2. {MoveLog(d) : d \in Moved} = {log}
      BY <1>4, <2>1
    <2> QED  BY <2>1, <2>2, ShortSequences DEF MoveLogs
  <1> QED  BY <1>1, <1>2, <1>3, <1>4

\* A decision is remembered by the state it leads to.
LEMMA DecisionKept ==
    ASSUME NEW old, NEW new, LegalMove(old, new), NEW decision \in DecisionsAt(old)
    PROVE  (IF new \in Decisions THEN new ELSE decision) \in DecisionsAt(new)
  <1>1. DecisionsAt("PENDING") = {"NONE"}
    BY DEF DecisionsAt, Decisions
  <1>2. DecisionsAt("EXECUTED") = {"ALLOWED"}
    BY DEF DecisionsAt, Decisions
  <1>3. DecisionsAt("EXPIRED") = {"NONE", "ALLOWED", "ESCALATED"}
    BY DEF DecisionsAt, Decisions
  <1>4. \A s \in Decisions : DecisionsAt(s) = {s}
    BY DEF DecisionsAt, Decisions
  <1> QED  BY <1>1, <1>2, <1>3, <1>4 DEF LegalMove, Decisions

\* The changes of the index follow the proposals of the gate.
LEMMA TellProposals ==
    ASSUME TypeOK, TypeOK', Next, NEW final, NEW i, IsIndex(i), ShowsChanges(i)
    PROVE  /\ IsBlock(ProposalLogs)
           /\ \E j : /\ j = IndexLogs(i, ProposalLogs, final)
                     /\ IsIndex(j) /\ j.executor = i.executor /\ j.calls = i.calls
                     /\ ShowsChanges(j)'
  <1>1. CASE proposals' = proposals
    <2>1. Created = {} /\ Moved = {}
      BY <1>1 DEF Created, Moved, State
    <2>2. ProposalLogs = << >>
      BY <2>1, LogsInPieces, ProposalPieces
    <2>3. ShowsChanges(i)'
      BY <1>1 DEF ShowsChanges, ShowsChange
    <2> QED  BY <2>2, <2>3, Blocks, IndexNothing
  <1>2. CASE \E c : Proposes(c)
    <2>1. PICK c : Proposes(c)
      BY <1>2
    <2>2. Created = {c} /\ Moved = {}
      BY <2>1 DEF Proposes, Created, Moved, State
    <2>3. ProposalLogs = <<ProposalPreconditions(c)>> \o <<ProposalCreated(c)>>
      BY <2>2, LogsInPieces, ProposalPieces
    <2>4. IsBlock(ProposalLogs)
      BY <2>3, Blocks
    <2>5. PICK new : new = [expects |-> Expects(c), decision |-> "NONE", state |-> "PENDING"]
      OBVIOUS
    <2>6. PICK j : /\ j = IndexLogs(i, ProposalLogs, final)
                   /\ IsIndex(j) /\ j.executor = i.executor /\ j.calls = i.calls
                   /\ j.changes = Put(i.changes, c, new)
      BY <2>3, <2>5, TellCreated
    <2>7. /\ DOMAIN j.changes = DOMAIN i.changes \cup {c} /\ j.changes[c] = new
          /\ \A d \in DOMAIN i.changes \ {c} : j.changes[d] = i.changes[d]
      BY <2>6 DEF Put
    <2>8. /\ DOMAIN new = ChangeFields /\ new.expects = Expects(c)
          /\ new.state = "PENDING" /\ new.decision = "NONE"
      BY <2>5 DEF ChangeFields
    <2>9. DecisionsAt("PENDING") = {"NONE"}
      BY DEF DecisionsAt, Decisions
    <2>10. ASSUME NEW d \in DOMAIN proposals'
           PROVE  ShowsChange(j.changes[d], d)'
      <3>1. CASE d = c
        BY <2>1, <2>7, <2>8, <2>9, <3>1 DEF ShowsChange, Proposes
      <3>2. CASE d # c
        <4>1. d \in DOMAIN proposals /\ proposals'[d] = proposals[d]
          BY <2>1, <3>2 DEF Proposes
        <4>2. ShowsChange(i.changes[d], d) /\ j.changes[d] = i.changes[d]
          BY <2>7, <3>2, <4>1 DEF ShowsChanges
        <4> QED  BY <4>1, <4>2 DEF ShowsChange
      <3> QED  BY <3>1, <3>2
    <2>11. DOMAIN j.changes = DOMAIN proposals'
      BY <2>1, <2>7 DEF ShowsChanges, Proposes
    <2>12. ShowsChanges(j)'
      BY <2>10, <2>11 DEF ShowsChanges
    <2> QED  BY <2>4, <2>6, <2>12
  <1>3. CASE \E c, state : MovesTo(c, state)
    <2>1. PICK c, state : MovesTo(c, state)
      BY <1>3
    <2>2. proposals[c].state # state
      BY <2>1 DEF MovesTo, LegalMove, Decisions
    <2>3. Created = {} /\ Moved = {c} /\ State(c)' = state
      BY <2>1, <2>2 DEF MovesTo, Created, Moved, State
    <2>4. ProposalLogs = <<ProposalState(c, state)>>
      <3>1. PICK log : log = MoveLog(c)
        OBVIOUS
      <3>2. log = ProposalState(c, state)
        BY <2>3, <3>1 DEF MoveLog
      <3>3. PreconditionLogs = << >> /\ CreatedLogs = << >> /\ MoveLogs = <<log>>
        BY <2>3, <3>1, ProposalPieces
      <3>4. ProposalLogs = <<log>>
        BY <3>3, LogsInPieces
      <3> QED  BY <3>2, <3>4
    <2>5. IsBlock(ProposalLogs)
      BY <2>4, Blocks
    <2>6. c \in DOMAIN i.changes /\ ShowsChange(i.changes[c], c)
      BY <2>1 DEF ShowsChanges, MovesTo
    <2>7. PICK j : /\ j = IndexLogs(i, <<ProposalState(c, state)>>, final)
                   /\ IsIndex(j) /\ j.executor = i.executor /\ j.calls = i.calls
                   /\ DOMAIN j.changes = DOMAIN i.changes
                   /\ \A d \in DOMAIN i.changes \ {c} : j.changes[d] = i.changes[d]
                   /\ DOMAIN j.changes[c] = ChangeFields
                   /\ j.changes[c].expects = i.changes[c].expects /\ j.changes[c].state = state
                   /\ j.changes[c].decision = IF state \in Decisions THEN state
                                              ELSE i.changes[c].decision
      BY <2>6, TellState DEF ShowsChange
    <2>8. j.changes[c].decision \in DecisionsAt(state)
      BY <2>1, <2>6, <2>7, DecisionKept DEF ShowsChange, MovesTo
    <2>9. ASSUME NEW d \in DOMAIN proposals'
          PROVE  ShowsChange(j.changes[d], d)'
      <3>1. CASE d = c
        BY <2>1, <2>6, <2>7, <2>8, <3>1 DEF ShowsChange, MovesTo
      <3>2. CASE d # c
        <4>1. d \in DOMAIN proposals /\ proposals'[d] = proposals[d]
          BY <2>1, <3>2 DEF MovesTo
        <4>2. ShowsChange(i.changes[d], d) /\ j.changes[d] = i.changes[d]
          BY <2>7, <3>2, <4>1 DEF ShowsChanges
        <4> QED  BY <4>1, <4>2 DEF ShowsChange
      <3> QED  BY <3>1, <3>2
    <2>10. DOMAIN j.changes = DOMAIN proposals'
      BY <2>1, <2>7 DEF ShowsChanges, MovesTo
    <2>11. ShowsChanges(j)'
      BY <2>9, <2>10 DEF ShowsChanges
    <2> QED  BY <2>4, <2>5, <2>7, <2>11
  <1> QED  BY <1>1, <1>2, <1>3, ProposalSteps

\* All the logs of a transaction, in order.
LEMMA TellTransaction ==
    ASSUME TypeOK, TypeOK', Next, NEW final, NEW i, Shows(i, final)
    PROVE  /\ IsBlock(RoleLogs) /\ IsBlock(ProposalLogs)
           /\ \E j : /\ j = IndexLogs(IndexLogs(i, RoleLogs, final), ProposalLogs, final)
                     /\ Shows(j, final)'
  <1>1. PICK j : /\ IsBlock(RoleBlock) /\ j = IndexLogs(i, RoleBlock, final)
                 /\ IsIndex(j) /\ j.calls = i.calls /\ j.changes = i.changes
                 /\ ShowsRoles(j, final)'
    BY TellRoles DEF Shows
  <1>2. ShowsCalls(j) /\ ShowsChanges(j)
    BY <1>1 DEF Shows, ShowsCalls, ShowsChanges
  <1>3. PICK k : /\ IsBlock(CallLogs) /\ k = IndexLogs(j, CallLogs, final)
                 /\ IsIndex(k) /\ k.executor = j.executor /\ k.changes = j.changes
                 /\ ShowsCalls(k)'
    BY <1>1, <1>2, TellCalls
  <1>4. ShowsChanges(k)
    BY <1>2, <1>3 DEF ShowsChanges
  <1>5. PICK l : /\ IsBlock(ProposalLogs) /\ l = IndexLogs(k, ProposalLogs, final)
                 /\ IsIndex(l) /\ l.executor = k.executor /\ l.calls = k.calls
                 /\ ShowsChanges(l)'
    BY <1>3, <1>4, TellProposals
  <1>6. IsBlock(RoleLogs) /\ IndexLogs(i, RoleLogs, final) = k
    BY <1>1, <1>3, LogsInPieces, Blocks, IndexBoth
  <1>7. ShowsRoles(l, final)' /\ ShowsCalls(l)'
    BY <1>1, <1>3, <1>5 DEF ShowsRoles, ShowsCalls
  <1>8. Shows(l, final)'
    BY <1>5, <1>7 DEF Shows
  <1> QED  BY <1>5, <1>6, <1>8

-----------------------------------------------------------------------------
(* The index follows the gate                                              *)

\* The index once the first block ends with the roles final, or the one there is.
IndexIn(final) == IF Indexed THEN index ELSE IndexLogs(EmptyIndex, logs, final)

\* Whatever the roles at the end of the first block turn out to be.
IndexInv == TypeOK /\ IsBlock(logs) /\ \A final \in Roles : Shows(IndexIn(final), final)

LEMMA FirstIndex ==
    ASSUME IndexInit
    PROVE  IndexInv
  <1>1. TypeOK
    BY InitInv DEF IndexInit, IInv
  <1>2. PICK roles : roles = Contract
    OBVIOUS
  <1>3. /\ roles \in Roles /\ roles["admin"] = admin /\ roles["operator"] = operator
        /\ roles["decisionAuthority"] = decisionAuthority
    BY <1>1, <1>2, ContractTyped
  <1>4. PICK t \in Targets : allowedCalls = {<<t, "setLiquidationThresholdBps">>}
    BY DEF IndexInit, Init
  <1>5. PICK p : p = <<t, "setLiquidationThresholdBps">>
    OBVIOUS
  <1>6. PICK a : a = Field("admin", roles["admin"])
    OBVIOUS
  <1>7. PICK b : b = Field("operator", roles["operator"])
    OBVIOUS
  <1>8. PICK c : c = Field("decisionAuthority", roles["decisionAuthority"])
    OBVIOUS
  <1>0. PICK yes \in BOOLEAN : yes
    OBVIOUS
  <1>9. PICK d : d = AllowedCall(p, yes)
    OBVIOUS
  <1>10. logs = ((<<a>> \o <<b>>) \o <<c>>) \o <<d>>
    <2>1. {AllowedCall(q, TRUE) : q \in allowedCalls} = {d}
      <3>1. yes = TRUE
        BY <1>0
      <3> QED  BY <1>4, <1>5, <1>9, <3>1
    <2>2. SetToSeq({AllowedCall(q, TRUE) : q \in allowedCalls}) = <<d>>
      BY <2>1, ShortSequences
    <2>3. ConstructorLogs = <<a, b, c>> \o <<d>>
      BY <1>3, <1>6, <1>7, <1>8, <2>2 DEF ConstructorLogs
    <2>4. <<a, b, c>> = (<<a>> \o <<b>>) \o <<c>>
      OBVIOUS
    <2> QED  BY <2>3, <2>4 DEF IndexInit
  <1>11. IsBlock(logs)
    BY <1>10, Blocks
  <1>12. ~Indexed
    BY DEF IndexInit, Indexed
  <1>13. ASSUME NEW final \in Roles
         PROVE  Shows(IndexIn(final), final)
    <2>1. PICK e : e = [final EXCEPT !["admin"] = admin]
      OBVIOUS
    <2>2. /\ e \in Roles /\ e["admin"] = admin
          /\ \A f \in RoleNames \ {"admin"} : e[f] = final[f]
      BY <1>1, <2>1 DEF TypeOK, Roles, RoleNames
    <2>3. PICK i : i = [EmptyIndex EXCEPT !.executor = e]
      OBVIOUS
    <2>4. /\ DOMAIN i = IndexFields /\ i.halted = FALSE /\ i.executor = e
          /\ i.calls = << >> /\ i.changes = << >>
      BY <2>3 DEF EmptyIndex, IndexFields
    <2>5. IsIndex(i)
      BY <2>2, <2>4 DEF IsIndex
    <2>6. IndexLogs(EmptyIndex, <<a>>, final) = i
      <3>1. a.event = "Executor" /\ a.field = "admin" /\ a.value = admin
        BY <1>3, <1>6 DEF Field
      <3>2. ~EmptyIndex.halted /\ EmptyIndex.executor = NoExecutor
        BY DEF EmptyIndex
      <3>3. ExecutorFor(EmptyIndex, final) = final
        BY <3>2 DEF ExecutorFor
      <3>4. Handle(EmptyIndex, a, final) = i
        BY <2>1, <2>3, <3>1, <3>3 DEF Handle
      <3> QED  BY <3>2, <3>4, IndexOne DEF IndexLog
    <2>7. PICK j : /\ j = IndexLogs(i, <<b>>, final)
                   /\ IsIndex(j) /\ j.executor["operator"] = roles["operator"]
                   /\ \A f \in RoleNames \ {"operator"} : j.executor[f] = i.executor[f]
                   /\ j.calls = i.calls /\ j.changes = i.changes
      <3>1. "operator" \in RoleNames
        BY DEF RoleNames
      <3> QED  BY <1>3, <1>7, <2>5, <3>1, TellRole
    <2>8. PICK k : /\ k = IndexLogs(j, <<c>>, final)
                   /\ IsIndex(k) /\ k.executor["decisionAuthority"] = roles["decisionAuthority"]
                   /\ \A f \in RoleNames \ {"decisionAuthority"} : k.executor[f] = j.executor[f]
                   /\ k.calls = j.calls /\ k.changes = j.changes
      <3>1. "decisionAuthority" \in RoleNames
        BY DEF RoleNames
      <3> QED  BY <1>3, <1>8, <2>7, <3>1, TellRole
    <2>9. PICK l : /\ l = IndexLogs(k, <<AllowedCall(p, yes)>>, final)
                   /\ IsIndex(l) /\ l.executor = k.executor /\ l.changes = k.changes
                   /\ \A q : /\ q \in DOMAIN l.calls <=> q \in DOMAIN k.calls \/ q = p
                             /\ q \in DOMAIN l.calls =>
                                   l.calls[q] = IF q = p THEN yes ELSE k.calls[q]
      <3>1. yes \in BOOLEAN /\ IsIndex(k)
        BY <1>0, <2>8
      <3> QED  BY <3>1, TellCall
    <2>10. IndexIn(final) = l
      <3>1. PICK two : two = <<a>> \o <<b>>
        OBVIOUS
      <3>2. PICK three : three = two \o <<c>>
        OBVIOUS
      <3>3. IsBlock(two) /\ IndexLogs(EmptyIndex, two, final) = j
        BY <2>6, <2>7, <3>1, Blocks, IndexBoth
      <3>4. IsBlock(three) /\ IndexLogs(EmptyIndex, three, final) = k
        BY <2>8, <3>2, <3>3, Blocks, IndexBoth
      <3>5. logs = three \o <<d>>
        BY <1>10, <3>1, <3>2
      <3>6. IndexLogs(EmptyIndex, logs, final) = l
        BY <1>9, <2>9, <3>4, <3>5, Blocks, IndexBoth
      <3> QED  BY <1>12, <3>6 DEF IndexIn
    <2>11. ShowsRoles(l, final)
      <3>1. \A f \in {"admin", "operator", "decisionAuthority"} : l.executor[f] = roles[f]
        BY <1>3, <2>2, <2>4, <2>7, <2>8, <2>9 DEF RoleNames
      <3>2. l.executor["authorizationEpoch"] = final["authorizationEpoch"]
        BY <2>2, <2>4, <2>7, <2>8, <2>9 DEF RoleNames
      <3> QED  BY <1>2, <3>1, <3>2 DEF ShowsRoles, RoleNames
    <2>12. ShowsCalls(l)
      <3>1. DOMAIN k.calls = {}
        BY <2>4, <2>7, <2>8
      <3> QED  BY <1>0, <1>4, <1>5, <2>9, <3>1 DEF ShowsCalls
    <2>13. ShowsChanges(l)
      <3>1. DOMAIN l.changes = {}
        BY <2>4, <2>7, <2>8, <2>9
      <3>2. DOMAIN proposals = {}
        BY DEF IndexInit, Init
      <3> QED  BY <3>1, <3>2 DEF ShowsChanges
    <2>14. Shows(l, final)
      BY <2>9, <2>11, <2>12, <2>13 DEF Shows
    <2> QED  BY <2>10, <2>14
  <1> QED  BY <1>1, <1>11, <1>13 DEF IndexInv

\* An index that shows the gate is not the empty one, and no longer asks for final.
LEMMA Settled ==
    ASSUME TypeOK, NEW i, Shows(i, Contract)
    PROVE  i # EmptyIndex /\ \A other : Shows(i, other)
  <1>1. i # EmptyIndex
    BY DEF Shows, IsIndex, Roles, EmptyIndex, NoExecutor
  <1>2. \A f \in RoleNames : i.executor[f] = Contract[f]
    BY DEF Shows, ShowsRoles
  <1> QED  BY <1>1, <1>2 DEF Shows, ShowsRoles

LEMMA TransactionKeepsIndex ==
    ASSUME IndexInv, Transaction
    PROVE  IndexInv'
  <1>1. TypeOK /\ Next /\ TypeOK'
    BY TypeStep DEF IndexInv, Transaction
  <1>2. CASE Indexed
    <2>1. PICK final : final = Contract'
      OBVIOUS
    <2>2. final \in Roles
      BY <1>1, <2>1 DEF TypeOK, Contract, Roles
    <2>3. Shows(index, final)
      BY <1>2, <2>2 DEF IndexInv, IndexIn
    <2>4. PICK j : /\ IsBlock(RoleLogs) /\ IsBlock(ProposalLogs)
                   /\ j = IndexLogs(IndexLogs(index, RoleLogs, final), ProposalLogs, final)
                   /\ Shows(j, final)'
      BY <1>1, <2>3, TellTransaction
    <2>5. index' = j /\ logs' = logs
      <3>1. index' = IndexLogs(index, RoleLogs \o ProposalLogs, final) /\ logs' = logs
        BY <1>2, <2>1 DEF Transaction
      <3> QED  BY <2>4, <3>1, IndexBoth
    <2>6. j # EmptyIndex /\ \A other : Shows(j, other)'
      <3>1. \A f \in RoleNames : j.executor[f] = Contract'[f]
        BY <2>1, <2>4 DEF Shows, ShowsRoles
      <3>2. j # EmptyIndex
        BY <2>4 DEF Shows, IsIndex, Roles, EmptyIndex, NoExecutor
      <3> QED  BY <2>4, <3>1, <3>2 DEF Shows, ShowsRoles
    <2>7. ASSUME NEW other \in Roles
          PROVE  Shows(IndexIn(other), other)'
      <3>1. IndexIn(other)' = j
        BY <2>5, <2>6 DEF IndexIn, Indexed
      <3> QED  BY <2>6, <3>1
    <2> QED  BY <1>1, <2>5, <2>7 DEF IndexInv
  <1>3. CASE ~Indexed
    <2>1. logs' = (logs \o RoleLogs) \o ProposalLogs /\ index' = index
      BY <1>3 DEF Transaction
    <2>2. ~Indexed'
      BY <1>3, <2>1 DEF Indexed
    <2>3. ASSUME NEW final \in Roles
          PROVE  IsBlock(logs)' /\ Shows(IndexIn(final), final)'
      <3>1. PICK i : i = IndexLogs(EmptyIndex, logs, final)
        OBVIOUS
      <3>2. Shows(i, final) /\ IsBlock(logs)
        BY <1>3, <3>1 DEF IndexInv, IndexIn
      <3>3. PICK j : /\ IsBlock(RoleLogs) /\ IsBlock(ProposalLogs)
                     /\ j = IndexLogs(IndexLogs(i, RoleLogs, final), ProposalLogs, final)
                     /\ Shows(j, final)'
        BY <1>1, <3>2, TellTransaction
      <3>4. PICK first : first = logs \o RoleLogs
        OBVIOUS
      <3>5. PICK block : block = first \o ProposalLogs
        OBVIOUS
      <3>6. IsBlock(first) /\ IsBlock(block) /\ IndexLogs(EmptyIndex, block, final) = j
        BY <3>1, <3>2, <3>3, <3>4, <3>5, Blocks, IndexBoth
      <3>7. logs' = block
        BY <2>1, <3>4, <3>5
      <3>8. IndexIn(final)' = j
        BY <2>2, <3>6, <3>7 DEF IndexIn
      <3> QED  BY <3>3, <3>6, <3>7, <3>8
    <2>4. Contract \in Roles
      BY <1>1, ContractTyped
    <2> QED  BY <1>1, <2>3, <2>4 DEF IndexInv
  <1> QED  BY <1>2, <1>3

LEMMA FirstBlockKeepsIndex ==
    ASSUME IndexInv, FirstBlock
    PROVE  IndexInv'
  <1>1. UNCHANGED vars /\ TypeOK /\ TypeOK'
    BY TypeStep DEF IndexInv, FirstBlock
  <1>2. /\ UNCHANGED <<proposals, allowedCalls>>
        /\ Contract' = Contract /\ Contract \in Roles
    BY <1>1, ContractTyped DEF Contract, vars, authVars, authority
  <1>3. PICK j : j = IndexLogs(EmptyIndex, logs, Contract)
    OBVIOUS
  <1>4. index' = j /\ logs' = << >>
    BY <1>3 DEF FirstBlock, Indexed
  <1>5. Shows(j, Contract)
    BY <1>2, <1>3 DEF FirstBlock, IndexInv, IndexIn
  <1>6. j # EmptyIndex /\ \A other : Shows(j, other)
    BY <1>1, <1>5, Settled
  <1>7. ASSUME NEW other \in Roles
        PROVE  Shows(IndexIn(other), other)'
    <2>1. Shows(j, other)
      BY <1>6
    <2>2. Shows(j, other)'
      BY <1>2, <2>1 DEF Shows, ShowsRoles, ShowsCalls, ShowsChanges, ShowsChange
    <2>3. IndexIn(other)' = j
      BY <1>4, <1>6 DEF IndexIn, Indexed
    <2> QED  BY <2>2, <2>3
  <1>8. IsBlock(logs)'
    BY <1>4, Blocks
  <1> QED  BY <1>1, <1>7, <1>8 DEF IndexInv

LEMMA StutterKeepsIndex ==
    ASSUME IndexInv, UNCHANGED gateIndexVars
    PROVE  IndexInv'
  <1>1. UNCHANGED vars /\ UNCHANGED <<logs, index>> /\ TypeOK'
    BY TypeStep DEF IndexInv, gateIndexVars
  <1>2. UNCHANGED <<proposals, allowedCalls>> /\ Contract' = Contract
    BY <1>1 DEF Contract, vars, authVars, authority
  <1>3. ASSUME NEW final \in Roles
        PROVE  Shows(IndexIn(final), final)'
    <2>1. PICK i : i = IndexIn(final)
      OBVIOUS
    <2>2. IndexIn(final)' = i
      BY <1>1, <2>1 DEF IndexIn, Indexed
    <2>3. Shows(i, final)
      BY <2>1 DEF IndexInv
    <2>4. Shows(i, final)'
      BY <1>2, <2>3 DEF Shows, ShowsRoles, ShowsCalls, ShowsChanges, ShowsChange
    <2> QED  BY <2>2, <2>4
  <1>4. IsBlock(logs)'
    BY <1>1 DEF IndexInv, IsBlock
  <1> QED  BY <1>1, <1>3, <1>4 DEF IndexInv

LEMMA IndexInvariance == IndexSpec => []IndexInv
  <1>1. IndexInit => IndexInv
    BY FirstIndex
  <1>2. IndexInv /\ [Transaction \/ FirstBlock]_gateIndexVars => IndexInv'
    BY TransactionKeepsIndex, FirstBlockKeepsIndex, StutterKeepsIndex
  <1> QED  BY <1>1, <1>2, PTL DEF IndexSpec

\* The gate behind an index is the gate: what is proved of it holds here too.
THEOREM IndexedGateIsGate == IndexSpec => Spec
  <1>1. IndexInit => Init
    BY DEF IndexInit
  <1>2. [Transaction \/ FirstBlock]_gateIndexVars => [Next]_vars
    BY DEF Transaction, FirstBlock, gateIndexVars
  <1> QED  BY <1>1, <1>2, PTL DEF IndexSpec, Spec

\* Wherever the first block ends, and after every transaction from then on, the
\* index shows the roles, the allowed calls and the proposals of the gate, and no
\* assertion of its handlers has stopped it.
THEOREM IndexFollows == IndexSpec => []IndexFollowsGate
  <1>1. IndexInv => IndexFollowsGate
    <2> SUFFICES ASSUME IndexInv, Indexed
                 PROVE  /\ ~index.halted
                        /\ index.executor = Contract
                        /\ {p \in DOMAIN index.calls : index.calls[p]} = allowedCalls
                        /\ DOMAIN index.changes = DOMAIN proposals
                        /\ \A c \in DOMAIN proposals :
                              /\ index.changes[c].expects = Expects(c)
                              /\ index.changes[c].state = proposals[c].state
                              /\ index.changes[c].decision \in DecisionsAt(index.changes[c].state)
      BY Zenon DEF IndexFollowsGate, DecisionsAt
    <2>1. Contract \in Roles
      BY ContractTyped DEF IndexInv
    <2>2. Shows(index, Contract)
      BY <2>1 DEF IndexInv, IndexIn
    <2>3. index.executor = Contract
      <3>1. \A f \in RoleNames : index.executor[f] = Contract[f]
        BY <2>2 DEF Shows, ShowsRoles
      <3>2. index.executor \in Roles
        BY <2>2 DEF Shows, IsIndex
      <3> QED  BY <2>1, <3>1, <3>2 DEF Roles, RoleNames
    <2> QED  BY <2>2, <2>3 DEF Shows, IsIndex, ShowsCalls, ShowsChanges, ShowsChange
  <1> QED  BY <1>1, IndexInvariance, PTL
=============================================================================
