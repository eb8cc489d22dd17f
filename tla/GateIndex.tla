------------------------------ MODULE GateIndex ------------------------------
(***************************************************************************)
(* The subgraph of the gate (subgraph/v2/src/executor.ts) behind the gate  *)
(* it indexes; how a node indexes is described in MarketIndex.             *)
(*                                                                         *)
(* An entity is named by what its id is made of: a Change by the change    *)
(* its hash stands for, an AllowedCall by target and selector.             *)
(***************************************************************************)
EXTENDS ParamShieldExecutor, SequencesExt

CONSTANT MaxFirstBlock      \* bound on the events of the first block

VARIABLES
    logs,       \* events of the first block, until it is indexed
    index       \* the entities, and whether an assertion has stopped the index

gateIndexVars == <<vars, logs, index>>

NoExecutor == [authorizationEpoch |-> -1]
EmptyIndex == [executor |-> NoExecutor, preconditions |-> << >>, changes |-> << >>,
               calls |-> << >>, halted |-> FALSE]
Indexed == index # EmptyIndex

\* The contract calls of executorFor.
Contract == [admin |-> admin, operator |-> operator, decisionAuthority |-> decisionAuthority,
             authorizationEpoch |-> authorizationEpoch]

\* The map f with v stored under x.
Put(f, x, v) == [y \in DOMAIN f \cup {x} |-> IF y = x THEN v ELSE f[y]]

(***************************************************************************)
(* The handlers                                                            *)
(***************************************************************************)

\* Mutant: the epoch is counted from the events, which start after the constructor.
ExecutorForCounting(i, final) ==
    IF i.executor # NoExecutor THEN i.executor ELSE [final EXCEPT !.authorizationEpoch = 0]

\* The entity, created from the state at the end of the block if need be.
ExecutorFor(i, final) == IF i.executor # NoExecutor THEN i.executor ELSE final

HandleProposalCreated(i, c) ==
    IF c \notin DOMAIN i.preconditions THEN [i EXCEPT !.halted = TRUE]
    ELSE [i EXCEPT !.changes = Put(@, c, [expects |-> i.preconditions[c], decision |-> "NONE",
                                          state |-> "PENDING"])]

WithState(change, state) ==
    [change EXCEPT !.state = state, !.decision = IF state \in Decisions THEN state ELSE @]

\* handleDecisionRecorded, handleProposalExecuted, handleProposalExpired
HandleState(i, c, state) ==
    IF c \notin DOMAIN i.changes THEN [i EXCEPT !.halted = TRUE]
    ELSE [i EXCEPT !.changes = Put(@, c, WithState(i.changes[c], state))]

Handle(i, log, final) ==
    CASE log.event = "ProposalPreconditions" ->
             [i EXCEPT !.preconditions = Put(@, log.change, log.expects)]
      [] log.event = "ProposalCreated"       -> HandleProposalCreated(i, log.change)
      [] log.event = "State"                 -> HandleState(i, log.change, log.state)
      [] log.event = "AllowedCallUpdated"    ->
             [i EXCEPT !.executor = ExecutorFor(i, final), !.calls = Put(@, log.call, log.allowed)]
      [] log.event = "Executor"              ->
             [i EXCEPT !.executor = [ExecutorFor(i, final) EXCEPT ![log.field] = log.value]]

\* A handler that fails stops the index for good.
IndexLog(i, log, final) == IF i.halted THEN i ELSE Handle(i, log, final)

\* The logs of a block, in order.
IndexLogs(i, block, final) == FoldLeft(LAMBDA j, log : IndexLog(j, log, final), i, block)

(***************************************************************************)
(* What a transaction of the gate logs                                     *)
(***************************************************************************)

Field(field, value) == [event |-> "Executor", field |-> field, value |-> value]
AllowedCall(call, allowed) == [event |-> "AllowedCallUpdated", call |-> call, allowed |-> allowed]
Expects(c) == <<c.intent.expectedStateVersion, c.intent.expectedAuthorizationEpoch>>
ProposalPreconditions(c) ==
    [event |-> "ProposalPreconditions", change |-> c, expects |-> Expects(c)]
ProposalCreated(c) == [event |-> "ProposalCreated", change |-> c]
ProposalState(c, state) == [event |-> "State", change |-> c, state |-> state]

\* A setter that writes the value it finds logs it too, which changes nothing.
RoleLogs ==
    LET Logged(field, old, new) == IF old = new THEN << >> ELSE <<Field(field, new)>>
        changed == (allowedCalls' \ allowedCalls) \cup (allowedCalls \ allowedCalls')
    IN  Logged("authorizationEpoch", authorizationEpoch, authorizationEpoch')
        \o Logged("admin", admin, admin')
        \o Logged("operator", operator, operator')
        \o Logged("decisionAuthority", decisionAuthority, decisionAuthority')
        \o SetToSeq({AllowedCall(p, p \in allowedCalls') : p \in changed})

\* A transaction makes at most one proposal, or moves one.
ProposalLogs ==
    LET created == DOMAIN proposals' \ DOMAIN proposals
        moved   == {c \in DOMAIN proposals : State(c)' # State(c)}
    IN  SetToSeq({ProposalPreconditions(c) : c \in created})
        \o SetToSeq({ProposalCreated(c) : c \in created})
        \o SetToSeq({ProposalState(c, State(c)') : c \in moved})

ConstructorLogs ==
    <<Field("admin", admin), Field("operator", operator), Field("decisionAuthority", decisionAuthority)>>
    \o SetToSeq({AllowedCall(p, TRUE) : p \in allowedCalls})

(***************************************************************************)
(* The index behind the gate                                               *)
(***************************************************************************)

IndexInit == Init /\ logs = ConstructorLogs /\ index = EmptyIndex

\* A block has one timestamp.
Transaction ==
    /\ Next
    /\ IF Indexed
       THEN index' = IndexLogs(index, RoleLogs \o ProposalLogs, Contract') /\ UNCHANGED logs
       ELSE /\ now' = now
            /\ logs' = logs \o RoleLogs \o ProposalLogs /\ Len(logs') <= MaxFirstBlock
            /\ UNCHANGED index

FirstBlock ==
    /\ ~Indexed
    /\ index' = IndexLogs(index, logs, Contract)
    /\ logs' = << >>
    /\ UNCHANGED vars

IndexSpec == IndexInit /\ [][Transaction \/ FirstBlock]_gateIndexVars

(***************************************************************************)
(* Properties                                                              *)
(***************************************************************************)

\* At the end of every block the index shows the roles, the epoch and the allowed
\* calls of the gate, and each proposal with the version and epoch it expects, its
\* state and, of a decided one, the decision; and no assertion has stopped it.
\* graph-v2-state.ts holds every review against these entities.
IndexFollowsGate ==
    Indexed =>
        /\ ~index.halted
        /\ index.executor = Contract
        /\ {p \in DOMAIN index.calls : index.calls[p]} = allowedCalls
        /\ DOMAIN index.changes = DOMAIN proposals
        /\ \A c \in DOMAIN proposals :
              LET change == index.changes[c] IN
              /\ change.expects = Expects(c) /\ change.state = proposals[c].state
              /\ change.decision \in CASE change.state \in Decisions  -> {change.state}
                                       [] change.state = "PENDING"  -> {"NONE"}
                                       [] change.state = "EXECUTED" -> {"ALLOWED"}
                                       [] change.state = "EXPIRED"  -> {"NONE", "ALLOWED", "ESCALATED"}
=============================================================================
