------------------------ MODULE ConsoleServiceProofs ------------------------
(***************************************************************************)
(* Theorems about ConsoleService for every set of flows and every limit of *)
(* the index.                                                              *)
(*                                                                         *)
(* What the disk, the network and the chain say of a leg agree because a   *)
(* leg advances through the same places in the same order: an operation    *)
(* knows at each place what is already durable (Reached), it is the only   *)
(* one (the lock), and a leg is started only at a stage which its sent     *)
(* transaction excludes (SentStage).                                       *)
(***************************************************************************)
EXTENDS ConsoleService, TLAPS

Sent == {"sign", "save", "record", "send", "wait", "confirm"}   \* places of operatorSend
Mined == {"ok", "shared"}
Unsent == {"none", "ANALYZING", "FAILED", "BLOCKED", "ALLOW", "REVIEWED"}

Decided == {"DECIDED", "EXECUTING", "EXECUTED"}
Proposed == {"PROPOSED", "DECISION_READY", "DECISION_PENDING"} \cup Decided

\* What a mined transaction has made of its proposal.
ChainShows ==
    \A i \in Ids :
        /\ tx[<<i, "propose">>] \in Mined => proposal[i] # "NONE"
        /\ tx[<<i, "decision">>] \in Mined => proposal[i] \in {"ALLOWED", "EXECUTED", "EXPIRED"}
        /\ tx[<<i, "execute">>] \in Mined => proposal[i] = "EXECUTED"

\* The flow of the running operation is where that operation left it.
OperationStage ==
    op # Idle =>
        /\ op.at = "analyze" => Stage(op.id) = "ANALYZING"
        /\ op.at = "receipt" => Stage(op.id) = "DECISION_PENDING" /\ op.leg = "decision"
        /\ op.at \in Sent =>
              /\ op.leg \in OperatorLegs /\ Stage(op.id) = Sending(op.leg)
              /\ op.id \in live \cap reviewed /\ ~view[op.id].retired

\* What is durable of the leg at each await of operatorSend.
Reached ==
    op # Idle /\ op.at \in Sent =>
        LET k == <<op.id, op.leg>> IN
        /\ k \in plans
        /\ op.at # "sign" => signing[k] = "SIGNED" /\ k \in evidence
        /\ op.at \in {"record", "send", "wait", "confirm"} => hashes[k] = "own"
        /\ op.at \in {"send", "wait", "confirm"} => broadcast[k] # "none"
        /\ op.at \notin {"wait", "confirm"} => tx[k] = "absent"

\* Once a leg is sent, its flow is past the stage that starts it.
SentStage ==
    \A i \in Ids :
        /\ tx[<<i, "propose">>] # "absent" => Stage(i) \notin Unsent
        /\ tx[<<i, "execute">>] # "absent" => Stage(i) \in {"EXECUTING", "EXECUTED"}

RetiredIsExpired == \A i \in Ids : view[i].retired => i \in expired

IInv ==
    /\ TypeOK
    /\ ChainShows
    /\ OperationStage
    /\ Reached
    /\ SentStage
    /\ RetiredIsExpired
    /\ StageMatchesChain
    /\ SentIsRecoverable
-----------------------------------------------------------------------------
(* Lemmas about the definitions                                            *)

\* The leg tables, one leg at a time.
LEMMA Tables ==
    /\ Sending("propose") = "PROPOSING" /\ Sending("execute") = "EXECUTING"
    /\ Before("propose").stage = "REVIEWED" /\ Before("execute").stage = "DECIDED"
    /\ Confirmed("propose") = "PROPOSED" /\ Confirmed("decision") = "DECIDED"
    /\ Confirmed("execute") = "EXECUTED"
    /\ Effect("propose") = <<"NONE", "PENDING">> /\ Effect("decision") = <<"PENDING", "ALLOWED">>
    /\ Effect("execute") = <<"ALLOWED", "EXECUTED">>
    /\ Recoverable("propose") = {"PROPOSING", "PROPOSED"}
    /\ Recoverable("decision") = {"DECISION_READY", "DECISION_PENDING", "DECIDED"}
    /\ Recoverable("execute") = {"EXECUTING"}
  BY DEF Sending, Confirmed, Before, Effect, Recoverable

\* A save keeps the type of the index.
LEMMA SaveLemma ==
    ASSUME TypeOK, NEW i \in Ids, Save(i)
    PROVE  index' \in Seq(Ids) /\ Len(index') <= IndexLimit
  <1> DEFINE at    == IF \E n \in DOMAIN index : index[n] = i
                      THEN CHOOSE n \in DOMAIN index : index[n] = i ELSE Len(index) + 1
             moved == <<i>> \o SubSeq(index, 1, at - 1) \o SubSeq(index, at + 1, Len(index))
  <1>1. at \in 1 .. Len(index) + 1
    BY DEF TypeOK
  <1>2. SubSeq(index, 1, at - 1) \in Seq(Ids) /\ SubSeq(index, at + 1, Len(index)) \in Seq(Ids)
    BY <1>1 DEF TypeOK
  <1>3. moved \in Seq(Ids)
    BY <1>2
  <1>4. index' = SubSeq(moved, 1, IF Len(moved) > IndexLimit THEN IndexLimit ELSE Len(moved))
    BY DEF Save
  <1> HIDE DEF moved
  <1> QED BY <1>3, <1>4, IndexAssumption

\* A save that sets the stage of one flow.
LEMMA StageLemma ==
    ASSUME TypeOK, NEW i \in Ids, NEW s \in Stages, SaveStage(i, s)
    PROVE  /\ view' \in [Ids -> [stage: Stages, retired: BOOLEAN]]
           /\ \A j \in Ids : /\ Stage(j)' = IF j = i THEN s ELSE Stage(j)
                             /\ view'[j].retired = view[j].retired
           /\ index' \in Seq(Ids) /\ Len(index') <= IndexLimit
  BY SaveLemma DEF SaveStage, Stage, TypeOK

\* What the signing of a leg leaves behind concerns its own job only.
LEMMA SigningLemma ==
    ASSUME TypeOK, NEW i \in Ids, NEW leg \in OperatorLegs, SigningLeaves(i, leg)
    PROVE  /\ interrupted' \in BOOLEAN
           /\ signing' \in [Jobs -> {"none", "SIGNED", "UNUSABLE"}]
           /\ evidence' \subseteq Jobs /\ evidence \subseteq evidence'
           /\ \A k \in Jobs \ {<<i, leg>>} : signing'[k] = signing[k]
  <1>1. CASE UNCHANGED <<interrupted, signing, evidence>>
    BY <1>1 DEF TypeOK
  <1>2. CASE ~UNCHANGED <<interrupted, signing, evidence>>
    <2>1. <<i, leg>> \in Jobs
      BY DEF Jobs
    <2>2. PICK s \in {"none", "SIGNED", "UNUSABLE"} :
             signing' = [signing EXCEPT ![<<i, leg>>] = s]
      BY <1>2 DEF SigningLeaves
    <2>3. interrupted' \in BOOLEAN /\ evidence' \subseteq Jobs /\ evidence \subseteq evidence'
      BY <1>2, <2>1 DEF SigningLeaves, TypeOK
    <2>4. /\ signing' \in [Jobs -> {"none", "SIGNED", "UNUSABLE"}]
          /\ \A k \in Jobs \ {<<i, leg>>} : signing'[k] = signing[k]
      BY <2>1, <2>2 DEF TypeOK
    <2> QED BY <2>3, <2>4
  <1> QED BY <1>1, <1>2

\* A transaction that is mined succeeds and moves its proposal, or reverts.
LEMMA MineLemma ==
    ASSUME TypeOK, NEW i \in Ids, NEW leg \in Legs, Mine(i, leg)
    PROVE  \E result \in {"ok", "shared", "reverted"} :
              /\ tx' = [tx EXCEPT ![<<i, leg>>] = result]
              /\ result # "reverted" =>
                    /\ i \notin expired /\ proposal[i] = Effect(leg)[1]
                    /\ proposal' = [proposal EXCEPT ![i] = Effect(leg)[2]]
              /\ result = "reverted" => proposal' = proposal
              /\ current' \subseteq current
  <1>1. CASE i \in current \ expired /\ proposal[i] = Effect(leg)[1]
    BY <1>1 DEF Mine, TypeOK
  <1>2. CASE ~(i \in current \ expired /\ proposal[i] = Effect(leg)[1])
    BY <1>2 DEF Mine
  <1> QED BY <1>1, <1>2

\* StageMatchesChain, with the stages that claim so many steps spelt out.
LEMMA StageSets ==
    StageMatchesChain <=> \A i \in Ids :
        /\ Stage(i) \in Proposed => proposal[i] # "NONE"
        /\ Stage(i) \in Decided => proposal[i] \in {"ALLOWED", "EXECUTED", "EXPIRED"}
        /\ Stage(i) = "EXECUTED" => proposal[i] = "EXECUTED"
        /\ view[i].retired => proposal[i] # "EXECUTED"
  BY DEF StageMatchesChain, CompletedSteps, Proposed, Decided

-----------------------------------------------------------------------------
(* Types                                                                   *)

\* An interrupted signing is of an operator leg, which OperationStage tells.
LEMMA TypeStep == ASSUME TypeOK, OperationStage, [Next]_vars PROVE TypeOK'
  <1> USE DEF TypeOK, chainVars, flowVars, jobVars, opVars
  <1>1. ASSUME NEW i \in Ids, Analyze(i)
       PROVE  TypeOK'
    BY <1>1, StageLemma DEF Analyze, Stages, Begin, Idle, Operations, Legs
  <1>2. ASSUME NEW i \in Ids, AnalyzeEnds(i)
       PROVE  TypeOK'
    <2>1. PICK stage \in {"ALLOW", "BLOCKED", "FAILED"} : SaveStage(i, stage)
      BY <1>2 DEF AnalyzeEnds
    <2>2. stage \in Stages
      BY DEF Stages
    <2>3. live' \subseteq Ids /\ current' \subseteq Ids
      BY <1>2 DEF AnalyzeEnds
    <2> QED BY <1>2, <2>1, <2>2, <2>3, StageLemma DEF AnalyzeEnds, End, Idle
  <1>3. ASSUME NEW i \in Ids, ReviewPayload(i)
       PROVE  TypeOK'
    BY <1>3, SaveLemma DEF ReviewPayload, Free
  <1>4. ASSUME NEW i \in Ids, Approve(i)
       PROVE  TypeOK'
    BY <1>4, StageLemma DEF Approve, Stages, Free
  <1>5. ASSUME NEW i \in Ids, Touch(i)
       PROVE  TypeOK'
    BY <1>5, SaveLemma DEF Touch, Free
  <1>6. ASSUME NEW i \in Ids, NEW leg \in OperatorLegs, Start(i, leg)
       PROVE  TypeOK'
    BY <1>6, StageLemma, Tables DEF Start, Stages, Begin, Idle, Operations, Legs, OperatorLegs
  <1>7. ASSUME NEW i \in Ids, DecisionPayload(i)
       PROVE  TypeOK'
    BY <1>7, StageLemma DEF DecisionPayload, Stages, Free, Legs
  <1>8. ASSUME NEW i \in Ids, NEW hash \in {"own", "other"}, DecisionReceipt(i, hash)
       PROVE  TypeOK'
    BY <1>8, StageLemma DEF DecisionReceipt, Stages, Begin, Idle, Operations, Legs
  <1>9. ASSUME NEW i \in Ids, NEW leg \in Legs, Recover(i, leg)
       PROVE  TypeOK'
    BY <1>9, StageLemma, Tables DEF Recover, Stages, Free, Legs
  <1>10. ASSUME NEW i \in Ids, RetireExpired(i)
       PROVE  TypeOK'
    BY <1>10, SaveLemma DEF RetireExpired, Free
  <1>11. ASSUME NEW i \in Ids, DecisionConfirmed(i)
       PROVE  TypeOK'
    BY <1>11, StageLemma DEF DecisionConfirmed, Stages, End, Idle
  <1>12. ASSUME NEW i \in Ids, NEW leg \in Legs, OperationFails(i, leg)
       PROVE  TypeOK'
    BY <1>12, SaveLemma DEF OperationFails, End, Idle
  <1>13. ASSUME NEW i \in Ids, NEW leg \in OperatorLegs, SignReturns(i, leg)
       PROVE  TypeOK'
    BY <1>13, SigningLemma DEF SignReturns, In, Next2, Idle, Operations, OperatorLegs, Legs
  <1>14. ASSUME NEW i \in Ids, NEW leg \in OperatorLegs, SignThrows(i, leg)
       PROVE  TypeOK'
    BY <1>14, SigningLemma, SaveLemma DEF SignThrows, End, Idle
  <1>15. ASSUME NEW i \in Ids, NEW leg \in OperatorLegs, SaveHash(i, leg)
       PROVE  TypeOK'
    <2>1. index' \in Seq(Ids) /\ Len(index') <= IndexLimit
      BY <1>15, SaveLemma DEF SaveHash
    <2>2. CASE Next2("record")
      BY <1>15, <2>1, <2>2 DEF SaveHash, In, Next2, Idle, Operations, OperatorLegs, Legs
    <2>3. CASE End
      BY <1>15, <2>1, <2>3 DEF SaveHash, End, Idle, OperatorLegs, Legs
    <2> QED BY <1>15, <2>2, <2>3 DEF SaveHash
  <1>16. ASSUME NEW i \in Ids, NEW leg \in OperatorLegs, RecordBroadcast(i, leg)
       PROVE  TypeOK'
    <2>1. CASE Next2("send") /\ UNCHANGED index
      BY <1>16, <2>1 DEF RecordBroadcast, In, Next2, Idle, Operations, OperatorLegs, Legs, Jobs
    <2>2. CASE End /\ Save(i)
      BY <1>16, <2>2, SaveLemma DEF RecordBroadcast, End, Idle, OperatorLegs, Legs, Jobs
    <2> QED BY <1>16, <2>1, <2>2 DEF RecordBroadcast
  <1>17. ASSUME NEW i \in Ids, NEW leg \in OperatorLegs, Send(i, leg)
       PROVE  TypeOK'
    BY <1>17 DEF Send, In, Next2, Idle, Operations, OperatorLegs, Legs
  <1>18. ASSUME NEW i \in Ids, NEW leg \in OperatorLegs, Confirm(i, leg)
       PROVE  TypeOK'
    <2>1. Confirmed(leg) \in Stages /\ SaveStage(i, Confirmed(leg))
      BY <1>18, Tables DEF Confirm, OperatorLegs, Stages
    <2> QED BY <1>18, <2>1, StageLemma DEF Confirm, End, Idle
  <1>19. ASSUME NEW i \in Ids, NEW leg \in Legs, Mine(i, leg)
       PROVE  TypeOK'
    <2>1. PICK result \in {"ok", "shared", "reverted"} :
             /\ tx' = [tx EXCEPT ![<<i, leg>>] = result]
             /\ result # "reverted" =>
                   /\ i \notin expired /\ proposal[i] = Effect(leg)[1]
                   /\ proposal' = [proposal EXCEPT ![i] = Effect(leg)[2]]
             /\ result = "reverted" => proposal' = proposal
             /\ current' \subseteq current
      BY <1>19, MineLemma, Zenon
    <2>2. Effect(leg)[2] \in {"PENDING", "ALLOWED", "EXECUTED"}
      BY Tables DEF Legs
    <2>3. proposal' \in [Ids -> {"NONE", "PENDING", "ALLOWED", "BLOCKED", "EXECUTED", "EXPIRED"}]
      BY <2>1, <2>2
    <2>4. tx' \in [Ids \X Legs -> {"absent", "sent", "ok", "shared", "reverted"}]
      BY <2>1
    <2> QED BY <1>19, <2>1, <2>3, <2>4 DEF Mine
  <1>20. ASSUME NEW i \in Ids, AuthorityActs(i)
       PROVE  TypeOK'
    <2>1. CASE UNCHANGED proposal
      <3>1. tx' = [tx EXCEPT ![<<i, "decision">>] = "sent"] \/ UNCHANGED tx
        BY <1>20 DEF AuthorityActs
      <3> QED BY <1>20, <2>1, <3>1 DEF AuthorityActs
    <2>2. CASE ~UNCHANGED proposal
      <3>1. proposal' = [proposal EXCEPT ![i] = "BLOCKED"] /\ UNCHANGED tx
        BY <1>20, <2>2 DEF AuthorityActs
      <3> QED BY <1>20, <3>1 DEF AuthorityActs
    <2> QED BY <2>1, <2>2
  <1>21. ASSUME NEW i \in Ids, Expire(i) \/ MarkExpired(i)
       PROVE  TypeOK'
    BY <1>21 DEF Expire, MarkExpired
  <1>22. ASSUME Crash
       PROVE  TypeOK'
    <2>1. CASE op # Idle /\ op.at = "sign"
      <3>1. op.id \in Ids /\ op.leg \in OperatorLegs /\ SigningLeaves(op.id, op.leg)
        BY <1>22, <2>1 DEF Crash, OperationStage, Sent, Operations
      <3> QED BY <1>22, <3>1, SigningLemma DEF Crash
    <2>2. CASE ~(op # Idle /\ op.at = "sign")
      BY <1>22, <2>2 DEF Crash
    <2> QED BY <2>1, <2>2
  <1>23. ASSUME RemoveAbandonedLock \/ RecoverPolicy \/ Drift \/ UNCHANGED vars
       PROVE  TypeOK'
    BY <1>23 DEF RemoveAbandonedLock, RecoverPolicy, Drift, vars
  <1>24. ASSUME NEW i \in Ids, NEW leg \in OperatorLegs, SendReturns(i, leg)
       PROVE  TypeOK'
    <2>1. CASE Next2("confirm") /\ UNCHANGED index
      BY <1>24, <2>1 DEF SendReturns, In, Next2, Idle, Operations, OperatorLegs, Legs, Jobs
    <2>2. CASE End /\ Save(i)
      BY <1>24, <2>2, SaveLemma DEF SendReturns, End, Idle, OperatorLegs, Legs, Jobs
    <2> QED BY <1>24, <2>1, <2>2 DEF SendReturns
  <1> QED
    BY <1>1, <1>2, <1>3, <1>4, <1>5, <1>6, <1>7, <1>8, <1>9, <1>10, <1>11, <1>12,
       <1>13, <1>14, <1>15, <1>16, <1>17, <1>18, <1>19, <1>20, <1>21, <1>22, <1>23, <1>24
    DEF Next, Request, Running, World, Legs, OperatorLegs

-----------------------------------------------------------------------------
(* What a step does to a flow, to the chain and to the records of a job    *)

\* The order of the stages.
LifeCycle ==
    ({"none"} \X {"ANALYZING"}) \cup ({"ANALYZING"} \X {"ALLOW", "BLOCKED", "FAILED"})
    \cup {<<"ALLOW", "REVIEWED">>, <<"REVIEWED", "PROPOSING">>, <<"PROPOSING", "PROPOSED">>,
          <<"PROPOSED", "DECISION_READY">>, <<"DECISION_READY", "DECISION_PENDING">>,
          <<"DECISION_READY", "DECIDED">>, <<"DECISION_PENDING", "DECIDED">>,
          <<"DECIDED", "EXECUTING">>, <<"EXECUTING", "EXECUTED">>}

\* A flow is saved at a stage that follows its own, the first one by analyze(); at a
\* confirmed one only when the transaction of its leg succeeded.
SavesNext(i, s) ==
    /\ SaveStage(i, s) /\ UNCHANGED <<tx, proposal, expired>>
    /\ Stage(i) = s \/ <<Stage(i), s>> \in LifeCycle
    /\ Stage(i) = "none" => Analyze(i)
    /\ s = "PROPOSED" => tx[<<i, "propose">>] = "ok"
    /\ s = "DECIDED" => tx[<<i, "decision">>] = "ok"
    /\ s = "EXECUTED" => tx[<<i, "execute">>] = "ok"

\* A step leaves the flows, saves one at its next stage, or retires one.
LEMMA FlowStep ==
    ASSUME TypeOK, OperationStage, [Next]_vars
    PROVE  \/ UNCHANGED view
           \/ \E i \in Ids, s \in Stages : SavesNext(i, s)
           \/ \E i \in Ids : RetireExpired(i)
  <1> DEFINE Goal == \/ UNCHANGED view
                     \/ \E i \in Ids, s \in Stages : SavesNext(i, s)
                     \/ \E i \in Ids : RetireExpired(i)
  <1> USE DEF chainVars, flowVars, jobVars, opVars
  <1>1. ASSUME NEW i \in Ids, Analyze(i)
       PROVE  Goal
    <2>1. SavesNext(i, "ANALYZING")
      BY <1>1 DEF SavesNext, LifeCycle, Analyze, Exists
    <2> QED BY <2>1 DEF Stages
  <1>2. ASSUME NEW i \in Ids, AnalyzeEnds(i)
       PROVE  Goal
    <2>1. PICK stage \in {"ALLOW", "BLOCKED", "FAILED"} : SaveStage(i, stage)
      BY <1>2 DEF AnalyzeEnds
    <2>2. Stage(i) = "ANALYZING"
      BY <1>2 DEF AnalyzeEnds, In, OperationStage, Idle
    <2>3. SavesNext(i, stage)
      BY <1>2, <2>1, <2>2 DEF SavesNext, LifeCycle, AnalyzeEnds
    <2> QED BY <2>3 DEF Stages
  <1>3. ASSUME NEW i \in Ids, Approve(i)
       PROVE  Goal
    <2>1. PICK stage \in {"ALLOW", "REVIEWED"} : SaveStage(i, stage)
      BY <1>3 DEF Approve
    <2>2. SavesNext(i, stage)
      BY <1>3, <2>1 DEF SavesNext, LifeCycle, Approve
    <2> QED BY <2>2 DEF Stages
  <1>4. ASSUME NEW i \in Ids, NEW leg \in OperatorLegs, Start(i, leg)
       PROVE  Goal
    <2>1. SavesNext(i, Sending(leg))
      BY <1>4, Tables DEF SavesNext, LifeCycle, Start, OperatorLegs
    <2> QED BY <2>1, Tables DEF Stages, OperatorLegs
  <1>5. ASSUME NEW i \in Ids, DecisionPayload(i)
       PROVE  Goal
    <2>1. SavesNext(i, "DECISION_READY")
      BY <1>5 DEF SavesNext, LifeCycle, DecisionPayload
    <2> QED BY <2>1 DEF Stages
  <1>6. ASSUME NEW i \in Ids, NEW hash \in {"own", "other"}, DecisionReceipt(i, hash)
       PROVE  Goal
    <2>1. SavesNext(i, "DECISION_PENDING")
      BY <1>6 DEF SavesNext, LifeCycle, DecisionReceipt
    <2> QED BY <2>1 DEF Stages
  <1>7. ASSUME NEW i \in Ids, NEW leg \in Legs, Recover(i, leg)
       PROVE  Goal
    <2>1. SavesNext(i, Confirmed(leg))
      BY <1>7, Tables DEF SavesNext, LifeCycle, Recover, Verified, Legs
    <2> QED BY <2>1, Tables DEF Stages, Legs
  <1>8. ASSUME NEW i \in Ids, DecisionConfirmed(i)
       PROVE  Goal
    <2>1. Stage(i) = "DECISION_PENDING"
      BY <1>8 DEF DecisionConfirmed, In, OperationStage, Idle
    <2>2. SavesNext(i, "DECIDED")
      BY <1>8, <2>1 DEF SavesNext, LifeCycle, DecisionConfirmed, Verified
    <2> QED BY <2>2 DEF Stages
  <1>9. ASSUME NEW i \in Ids, NEW leg \in OperatorLegs, Confirm(i, leg)
       PROVE  Goal
    <2>1. Stage(i) = Sending(leg)
      BY <1>9 DEF Confirm, In, OperationStage, Idle, Sent
    <2>2. SavesNext(i, Confirmed(leg))
      BY <1>9, <2>1, Tables DEF SavesNext, LifeCycle, Confirm, Verified, OperatorLegs
    <2> QED BY <2>2, Tables DEF Stages, OperatorLegs
  <1>10. ASSUME NEW i \in Ids, ReviewPayload(i) \/ Touch(i) \/ World(i)
       PROVE  Goal
    BY <1>10 DEF ReviewPayload, Touch, World, Mine, AuthorityActs, Expire, MarkExpired
  <1>11. ASSUME NEW i \in Ids, NEW leg \in OperatorLegs,
                \/ SignReturns(i, leg) \/ SignThrows(i, leg) \/ SaveHash(i, leg)
                \/ RecordBroadcast(i, leg) \/ Send(i, leg) \/ SendReturns(i, leg)
       PROVE  Goal
    BY <1>11 DEF SignReturns, SignThrows, SaveHash, RecordBroadcast, Send, SendReturns
  <1>12. ASSUME NEW i \in Ids, NEW leg \in Legs, OperationFails(i, leg)
       PROVE  Goal
    BY <1>12 DEF OperationFails
  <1>13. ASSUME Crash \/ RemoveAbandonedLock \/ RecoverPolicy \/ Drift \/ UNCHANGED vars
       PROVE  Goal
    BY <1>13 DEF Crash, RemoveAbandonedLock, RecoverPolicy, Drift, vars
  <1> HIDE DEF Goal
  <1>q. Goal
    BY <1>1, <1>2, <1>3, <1>4, <1>5, <1>6, <1>7, <1>8, <1>9, <1>10, <1>11, <1>12, <1>13
    DEF Next, Request, Running, Legs, OperatorLegs, Goal
  <1> QED BY <1>q DEF Goal

\* The same for one flow.
LEMMA OneFlowStep ==
    ASSUME TypeOK, OperationStage, [Next]_vars, NEW i \in Ids
    PROVE  /\ Stage(i)' # Stage(i) =>
                 /\ <<Stage(i), Stage(i)'>> \in LifeCycle /\ UNCHANGED <<tx, proposal>>
                 /\ Stage(i)' = "PROPOSED" => tx[<<i, "propose">>] = "ok"
                 /\ Stage(i)' = "DECIDED" => tx[<<i, "decision">>] = "ok"
                 /\ Stage(i)' = "EXECUTED" => tx[<<i, "execute">>] = "ok"
           /\ view'[i].retired # view[i].retired =>
                 /\ i \in expired /\ proposal[i] # "EXECUTED" /\ UNCHANGED <<proposal, expired>>
  <1>1. CASE UNCHANGED view
    BY <1>1 DEF Stage
  <1>2. ASSUME NEW j \in Ids, NEW s \in Stages, SavesNext(j, s)
        PROVE  /\ Stage(i)' # Stage(i) => i = j /\ Stage(i)' = s
               /\ view'[i].retired = view[i].retired
    BY <1>2, StageLemma DEF SavesNext
  <1>3. CASE \E j \in Ids, s \in Stages : SavesNext(j, s)
    BY <1>2, <1>3 DEF SavesNext
  <1>4. ASSUME NEW j \in Ids, RetireExpired(j)
        PROVE  /\ Stage(i)' = Stage(i)
               /\ view'[i].retired # view[i].retired =>
                     /\ i \in expired /\ proposal[i] # "EXECUTED" /\ UNCHANGED <<proposal, expired>>
    BY <1>4 DEF RetireExpired, Stage, TypeOK, chainVars
  <1> QED BY <1>1, <1>3, <1>4, FlowStep

\* A proposal ends executed, blocked or expired, and only a live one executes.
ProposalMoves ==
    {<<"NONE", "PENDING">>, <<"PENDING", "ALLOWED">>, <<"PENDING", "BLOCKED">>,
     <<"PENDING", "EXPIRED">>, <<"ALLOWED", "EXPIRED">>, <<"ALLOWED", "EXECUTED">>}

\* What a step that is neither of the chain nor of broadcast.send leaves alone.
LEMMA ChainFrame ==
    ASSUME [Next]_vars
    PROVE  \/ UNCHANGED <<tx, proposal, expired>>
           \/ \E i \in Ids : World(i) \/ \E leg \in OperatorLegs : Send(i, leg)
  <1> USE DEF chainVars, flowVars, jobVars, opVars
  <1>1. ASSUME NEW i \in Ids, Request(i)
        PROVE  UNCHANGED <<tx, proposal, expired>>
    BY <1>1 DEF Request, Analyze, ReviewPayload, Approve, Touch, Start, DecisionPayload,
                DecisionReceipt, Recover, RetireExpired
  <1>2. ASSUME NEW i \in Ids, Running(i), \A leg \in OperatorLegs : ~Send(i, leg)
        PROVE  UNCHANGED <<tx, proposal, expired>>
    BY <1>2 DEF Running, AnalyzeEnds, DecisionConfirmed, OperationFails, SignReturns,
                SignThrows, SaveHash, RecordBroadcast, SendReturns, Confirm
  <1>3. CASE Crash \/ RemoveAbandonedLock \/ RecoverPolicy \/ Drift \/ UNCHANGED vars
    BY <1>3 DEF Crash, RemoveAbandonedLock, RecoverPolicy, Drift, vars
  <1> QED BY <1>1, <1>2, <1>3 DEF Next

\* What a step may do to the proposal and the transactions of one change.
LEMMA ChainStep ==
    ASSUME TypeOK, [Next]_vars, NEW i \in Ids
    PROVE  /\ expired \subseteq expired'
           /\ proposal'[i] # proposal[i] =>
                 /\ <<proposal[i], proposal'[i]>> \in ProposalMoves
                 /\ proposal'[i] = "EXECUTED" => i \notin expired
           /\ \A leg \in Legs :
                 /\ tx'[<<i, leg>>] \in Mined /\ tx[<<i, leg>>] \notin Mined =>
                       proposal'[i] = Effect(leg)[2]
                 /\ tx[<<i, leg>>] # "absent" => tx'[<<i, leg>>] # "absent"
           /\ \A leg \in OperatorLegs : tx[<<i, leg>>] = "absent" =>
                 \/ tx'[<<i, leg>>] = "absent"
                 \/ Send(i, leg)
  <1> USE DEF Mined
  <1>1. CASE UNCHANGED <<tx, proposal, expired>>
    BY <1>1
  <1>2. ASSUME NEW j \in Ids, NEW leg \in OperatorLegs, Send(j, leg)
        PROVE  /\ UNCHANGED <<proposal, expired>> /\ In("send", j, leg)
               /\ \A k \in Ids \X Legs : tx'[k] = IF k = <<j, leg>> THEN "sent" ELSE tx[k]
    BY <1>2 DEF Send, TypeOK
  <1>3. CASE \E j \in Ids, leg \in OperatorLegs : Send(j, leg)
    BY <1>2, <1>3 DEF OperatorLegs, Legs
  <1>4. CASE \E j \in Ids, leg \in Legs : Mine(j, leg)
    <2>1. PICK j \in Ids, leg \in Legs : Mine(j, leg)
      BY <1>4
    <2>2. PICK result \in {"ok", "shared", "reverted"} :
              /\ tx' = [tx EXCEPT ![<<j, leg>>] = result]
              /\ result # "reverted" =>
                    /\ j \notin expired /\ proposal[j] = Effect(leg)[1]
                    /\ proposal' = [proposal EXCEPT ![j] = Effect(leg)[2]]
              /\ result = "reverted" => proposal' = proposal
              /\ current' \subseteq current
      BY <2>1, MineLemma, Zenon
    <2>3. \A l \in Legs : tx'[<<i, l>>] = IF i = j /\ l = leg THEN result ELSE tx[<<i, l>>]
      BY <2>2 DEF TypeOK
    <2>4. /\ result # "reverted" => proposal'[i] = IF i = j THEN Effect(leg)[2] ELSE proposal[i]
          /\ result = "reverted" => proposal'[i] = proposal[i]
      BY <2>2 DEF TypeOK
    <2>5. UNCHANGED expired /\ tx[<<j, leg>>] = "sent"
      BY <2>1 DEF Mine
    <2>6. <<Effect(leg)[1], Effect(leg)[2]>> \in ProposalMoves
      BY Tables DEF ProposalMoves, Legs
    <2>7. /\ proposal'[i] # proposal[i] =>
                /\ <<proposal[i], proposal'[i]>> \in ProposalMoves
                /\ proposal'[i] = "EXECUTED" => i \notin expired
      BY <2>2, <2>4, <2>6
    <2>8. \A l \in Legs : tx'[<<i, l>>] # tx[<<i, l>>] =>
             /\ tx'[<<i, l>>] # "absent" /\ tx[<<i, l>>] = "sent"
             /\ tx'[<<i, l>>] \in Mined => proposal'[i] = Effect(l)[2]
      BY <2>2, <2>3, <2>4, <2>5
    <2> QED BY <2>5, <2>7, <2>8 DEF Legs, OperatorLegs
  <1>5. ASSUME NEW j \in Ids, AuthorityActs(j)
        PROVE  /\ UNCHANGED expired
               /\ \A k \in Ids \X Legs : tx'[k] # tx[k] =>
                     tx'[k] = "sent" /\ k[2] = "decision" /\ tx[k] = "absent"
               /\ \A h \in Ids : proposal'[h] # proposal[h] =>
                     proposal[h] = "PENDING" /\ proposal'[h] = "BLOCKED"
    BY <1>5 DEF AuthorityActs, TypeOK, Legs
  <1>6. CASE \E j \in Ids : AuthorityActs(j)
    BY <1>5, <1>6 DEF ProposalMoves, Legs, OperatorLegs
  <1>7. CASE \E j \in Ids : Expire(j) \/ MarkExpired(j)
    BY <1>7 DEF Expire, MarkExpired, ProposalMoves, TypeOK
  <1> QED BY <1>1, <1>3, <1>4, <1>6, <1>7, ChainFrame DEF World

\* The records of a job only grow, except that its signing may end otherwise.
LEMMA RecordStep ==
    ASSUME TypeOK, OperationStage, [Next]_vars
    PROVE  /\ plans \subseteq plans' /\ evidence \subseteq evidence' /\ reviewed \subseteq reviewed'
           /\ \A k \in Jobs :
                 /\ hashes[k] = "own" => hashes'[k] = "own"
                 /\ broadcast[k] # "none" => broadcast'[k] # "none"
                 /\ signing'[k] # signing[k] => In("sign", k[1], k[2])
  <1> USE DEF chainVars, flowVars, jobVars, opVars
  <1> DEFINE Goal ==
        /\ plans \subseteq plans' /\ evidence \subseteq evidence' /\ reviewed \subseteq reviewed'
        /\ \A k \in Jobs :
              /\ hashes[k] = "own" => hashes'[k] = "own"
              /\ broadcast[k] # "none" => broadcast'[k] # "none"
              /\ signing'[k] # signing[k] => In("sign", k[1], k[2])
  <1>1. ASSUME NEW i \in Ids,
               \/ Analyze(i) \/ AnalyzeEnds(i) \/ ReviewPayload(i) \/ Approve(i)
               \/ Touch(i) \/ DecisionPayload(i)
       PROVE  Goal
    BY <1>1 DEF Analyze, AnalyzeEnds, ReviewPayload, Approve, Touch, DecisionPayload
  <1>2. ASSUME NEW i \in Ids, NEW leg \in OperatorLegs, Start(i, leg)
       PROVE  Goal
    BY <1>2 DEF Start
  <1>3. ASSUME NEW i \in Ids, NEW hash \in {"own", "other"}, DecisionReceipt(i, hash)
       PROVE  Goal
    BY <1>3 DEF DecisionReceipt, TypeOK, Jobs, OperatorLegs
  <1>4. ASSUME NEW i \in Ids, NEW leg \in Legs, Recover(i, leg)
       PROVE  Goal
    BY <1>4 DEF Recover, TypeOK, Jobs, OperatorLegs, Legs
  <1>5. ASSUME NEW i \in Ids, RetireExpired(i) \/ DecisionConfirmed(i)
       PROVE  Goal
    BY <1>5 DEF RetireExpired, DecisionConfirmed
  <1>6. ASSUME NEW i \in Ids, NEW leg \in Legs, OperationFails(i, leg)
       PROVE  Goal
    BY <1>6 DEF OperationFails
  <1>7. ASSUME NEW i \in Ids, NEW leg \in OperatorLegs, SignReturns(i, leg) \/ SignThrows(i, leg)
       PROVE  Goal
    <2>1. In("sign", i, leg) /\ SigningLeaves(i, leg)
      BY <1>7 DEF SignReturns, SignThrows
    <2>2. /\ evidence \subseteq evidence'
          /\ \A k \in Jobs \ {<<i, leg>>} : signing'[k] = signing[k]
      BY <2>1, SigningLemma, Zenon
    <2> QED BY <1>7, <2>1, <2>2 DEF SignReturns, SignThrows, Jobs
  <1>8. ASSUME NEW i \in Ids, NEW leg \in OperatorLegs, SaveHash(i, leg)
       PROVE  Goal
    BY <1>8 DEF SaveHash, TypeOK, Jobs, OperatorLegs, Legs
  <1>9. ASSUME NEW i \in Ids, NEW leg \in OperatorLegs,
               RecordBroadcast(i, leg) \/ SendReturns(i, leg) \/ Confirm(i, leg)
       PROVE  Goal
    BY <1>9 DEF RecordBroadcast, SendReturns, Confirm, TypeOK, Jobs, OperatorLegs, Legs
  <1>10. ASSUME NEW i \in Ids, NEW leg \in OperatorLegs, Send(i, leg)
       PROVE  Goal
    BY <1>10 DEF Send
  <1>11. ASSUME NEW i \in Ids, World(i)
       PROVE  Goal
    BY <1>11 DEF World, Mine, AuthorityActs, Expire, MarkExpired
  <1>12. ASSUME Crash
       PROVE  Goal
    <2>1. CASE op # Idle /\ op.at = "sign"
      <3>1. op.id \in Ids /\ op.leg \in OperatorLegs /\ SigningLeaves(op.id, op.leg)
        BY <1>12, <2>1 DEF Crash, OperationStage, Sent, TypeOK, Operations
      <3>2. In("sign", op.id, op.leg)
        BY <2>1 DEF In, TypeOK, Operations
      <3>3. /\ evidence \subseteq evidence'
            /\ \A k \in Jobs \ {<<op.id, op.leg>>} : signing'[k] = signing[k]
        BY <3>1, SigningLemma, Zenon
      <3> QED BY <1>12, <3>2, <3>3 DEF Crash, Jobs
    <2>2. CASE ~(op # Idle /\ op.at = "sign")
      BY <1>12, <2>2 DEF Crash
    <2> QED BY <2>1, <2>2
  <1>13. ASSUME RemoveAbandonedLock \/ RecoverPolicy \/ Drift \/ UNCHANGED vars
       PROVE  Goal
    BY <1>13 DEF RemoveAbandonedLock, RecoverPolicy, Drift, vars
  <1> HIDE DEF Goal
  <1>q. Goal
    BY <1>1, <1>2, <1>3, <1>4, <1>5, <1>6, <1>7, <1>8, <1>9, <1>10, <1>11, <1>12, <1>13
    DEF Next, Request, Running, Legs, OperatorLegs
  <1> QED BY <1>q DEF Goal

-----------------------------------------------------------------------------
(* The inductive invariant                                                 *)

\* The steps after which an operation is running.
LEMMA OperationFrame ==
    ASSUME TypeOK, [Next]_vars
    PROVE  \/ op' = Idle
           \/ \E i \in Ids :
                 \/ Analyze(i) \/ \E hash \in {"own", "other"} : DecisionReceipt(i, hash)
                 \/ \E leg \in OperatorLegs :
                       \/ Start(i, leg) \/ SignReturns(i, leg) \/ SaveHash(i, leg)
                       \/ RecordBroadcast(i, leg) \/ Send(i, leg) \/ SendReturns(i, leg)
           \/ UNCHANGED <<op, flowVars, live, jobVars>>
  <1>1. op = Idle \/ locked
    BY DEF TypeOK
  <1>2. ASSUME NEW i \in Ids,
               \/ ReviewPayload(i) \/ Approve(i) \/ Touch(i) \/ DecisionPayload(i)
               \/ RetireExpired(i) \/ \E leg \in Legs : Recover(i, leg)
        PROVE  op' = Idle
    BY <1>1, <1>2 DEF ReviewPayload, Approve, Touch, DecisionPayload, RetireExpired, Recover,
                      Free, opVars
  <1>3. ASSUME NEW i \in Ids,
               \/ AnalyzeEnds(i) \/ DecisionConfirmed(i)
               \/ \E leg \in Legs : OperationFails(i, leg) \/ SignThrows(i, leg) \/ Confirm(i, leg)
        PROVE  op' = Idle
    BY <1>3 DEF AnalyzeEnds, DecisionConfirmed, OperationFails, SignThrows, Confirm, End
  <1>4. ASSUME NEW i \in Ids, World(i)
        PROVE  UNCHANGED <<op, flowVars, live, jobVars>>
    BY <1>4 DEF World, Mine, AuthorityActs, Expire, MarkExpired, opVars
  <1>5. CASE Crash \/ RemoveAbandonedLock \/ RecoverPolicy \/ Drift \/ UNCHANGED vars
    BY <1>5 DEF Crash, RemoveAbandonedLock, RecoverPolicy, Drift, vars, opVars
  <1> QED BY <1>2, <1>3, <1>4, <1>5 DEF Next, Request, Running, Legs, OperatorLegs

\* Only the running operation moves its own flow.
LEMMA OperationStageStep ==
    ASSUME TypeOK, OperationStage, [Next]_vars
    PROVE  OperationStage'
  <1> USE DEF flowVars, jobVars
  <1>1. CASE op' = Idle
    BY <1>1 DEF OperationStage, Idle
  <1>2. ASSUME NEW i \in Ids, Analyze(i)
        PROVE  OperationStage'
    BY <1>2, StageLemma DEF Analyze, Begin, OperationStage, Sent, Idle, Stages
  <1>3. ASSUME NEW i \in Ids, NEW hash \in {"own", "other"}, DecisionReceipt(i, hash)
        PROVE  OperationStage'
    BY <1>3, StageLemma DEF DecisionReceipt, Begin, OperationStage, Sent, Idle, Stages
  <1>4. ASSUME NEW i \in Ids, NEW leg \in OperatorLegs, Start(i, leg)
        PROVE  OperationStage'
    <2>1. Sending(leg) \in Stages
      BY Tables DEF OperatorLegs, Stages
    <2>2. op' = [at |-> "sign", id |-> i, leg |-> leg] /\ UNCHANGED <<live, reviewed>>
      BY <1>4 DEF Start, Begin
    <2>3. i \in live \cap reviewed /\ ~view[i].retired
      BY <1>4 DEF Start, Check, Owned
    <2>4. Stage(i)' = Sending(leg) /\ view'[i].retired = view[i].retired
      BY <1>4, <2>1, StageLemma DEF Start
    <2> QED BY <2>2, <2>3, <2>4 DEF OperationStage, Sent, Stage
  <1>5. ASSUME NEW i \in Ids, NEW leg \in OperatorLegs, op' # Idle,
               \/ SignReturns(i, leg) \/ SaveHash(i, leg)
               \/ RecordBroadcast(i, leg) \/ Send(i, leg) \/ SendReturns(i, leg)
        PROVE  OperationStage'
    <2>1. \E at \in Sent : In(at, i, leg)
      BY <1>5 DEF SignReturns, SaveHash, RecordBroadcast, Send, SendReturns, Sent
    <2>2. \E at \in Sent : op' = [op EXCEPT !.at = at]
      BY <1>5 DEF SignReturns, SaveHash, RecordBroadcast, Send, SendReturns, Sent, Next2, End
    <2>3. UNCHANGED <<view, live, reviewed>>
      BY <1>5 DEF SignReturns, SaveHash, RecordBroadcast, Send, SendReturns
    <2> QED BY <2>1, <2>2, <2>3 DEF OperationStage, Sent, In, Idle, Stage
  <1>6. CASE UNCHANGED <<op, flowVars, live, jobVars>>
    BY <1>6 DEF OperationStage, Stage
  <1> QED BY <1>1, <1>2, <1>3, <1>4, <1>5, <1>6, OperationFrame

\* An operation goes to its next await only with what that needs on disk.
LEMMA ReachedStep ==
    ASSUME TypeOK, OperationStage, Reached, SentStage, [Next]_vars
    PROVE  Reached'
  <1> USE DEF flowVars, jobVars
  <1>1. CASE op' = Idle
    BY <1>1 DEF Reached, Idle
  <1>2. CASE \E i \in Ids : Analyze(i) \/ \E hash \in {"own", "other"} : DecisionReceipt(i, hash)
    BY <1>2 DEF Analyze, DecisionReceipt, Begin, Reached, Sent
  <1>3. ASSUME NEW i \in Ids, NEW leg \in OperatorLegs, Start(i, leg)
        PROVE  Reached'
    <2>1. op' = [at |-> "sign", id |-> i, leg |-> leg] /\ UNCHANGED tx /\ <<i, leg>> \in plans'
      BY <1>3 DEF Start, Begin, chainVars
    <2>2. tx[<<i, leg>>] = "absent"
      BY <1>3, Tables DEF Start, SentStage, Unsent, OperatorLegs
    <2> QED BY <2>1, <2>2 DEF Reached
  <1>4. ASSUME NEW i \in Ids, NEW leg \in OperatorLegs, op' # Idle,
               \/ SignReturns(i, leg) \/ SaveHash(i, leg)
               \/ RecordBroadcast(i, leg) \/ Send(i, leg) \/ SendReturns(i, leg)
        PROVE  Reached'
    <2> DEFINE k == <<i, leg>>
    <2>1. k \in Jobs /\ k \in Ids \X Legs
      BY DEF Jobs, OperatorLegs, Legs
    <2>2. CASE SignReturns(i, leg)
      BY <2>1, <2>2 DEF SignReturns, Next2, In, Reached, Sent, Idle, chainVars
    <2>3. CASE SaveHash(i, leg)
      <3>1. Next2("record")
        BY <1>4, <2>3 DEF SaveHash, End
      <3> QED BY <2>1, <2>3, <3>1 DEF SaveHash, Next2, In, Reached, Sent, Idle, chainVars, TypeOK
    <2>4. CASE RecordBroadcast(i, leg)
      <3>1. Next2("send")
        BY <1>4, <2>4 DEF RecordBroadcast, End
      <3> QED BY <2>1, <2>4, <3>1
          DEF RecordBroadcast, Next2, In, Reached, Sent, Idle, chainVars, TypeOK
    <2>5. CASE Send(i, leg)
      BY <2>1, <2>5 DEF Send, Next2, In, Reached, Sent, Idle, TypeOK
    <2>6. CASE SendReturns(i, leg)
      <3>1. Next2("confirm")
        BY <1>4, <2>6 DEF SendReturns, End
      <3> QED BY <2>1, <2>6, <3>1
          DEF SendReturns, Next2, In, Reached, Sent, Idle, chainVars, TypeOK
    <2> QED BY <1>4, <2>2, <2>3, <2>4, <2>5, <2>6
  <1>5. CASE UNCHANGED <<op, flowVars, live, jobVars>>
    <2>1. ASSUME op # Idle, op.at \in Sent, op.at \notin {"wait", "confirm"}
          PROVE  tx'[<<op.id, op.leg>>] = "absent"
      <3>1. op.id \in Ids /\ op.leg \in OperatorLegs /\ tx[<<op.id, op.leg>>] = "absent"
        BY <2>1 DEF Reached, OperationStage, TypeOK, Operations
      <3>2. ~Send(op.id, op.leg)
        BY <1>5, <2>1 DEF Send, In, Next2
      <3> QED BY <3>1, <3>2, ChainStep
    <2> QED BY <1>5, <2>1 DEF Reached
  <1> QED BY <1>1, <1>2, <1>3, <1>4, <1>5, OperationFrame

\* A proposal never goes back behind what a mined transaction made of it.
LEMMA ChainShowsStep ==
    ASSUME TypeOK, ChainShows, [Next]_vars
    PROVE  ChainShows'
  <1> SUFFICES ASSUME NEW i \in Ids
               PROVE  /\ tx'[<<i, "propose">>] \in Mined => proposal'[i] # "NONE"
                      /\ tx'[<<i, "decision">>] \in Mined =>
                            proposal'[i] \in {"ALLOWED", "EXECUTED", "EXPIRED"}
                      /\ tx'[<<i, "execute">>] \in Mined => proposal'[i] = "EXECUTED"
    BY DEF ChainShows
  <1>1. proposal'[i] # proposal[i] => <<proposal[i], proposal'[i]>> \in ProposalMoves
    BY ChainStep
  <1>2. \A leg \in Legs : tx'[<<i, leg>>] \in Mined /\ tx[<<i, leg>>] \notin Mined =>
           proposal'[i] = Effect(leg)[2]
    BY ChainStep
  <1> QED BY <1>1, <1>2, Tables DEF ChainShows, ProposalMoves, Legs

\* A leg is sent at the stage it set, and stages only go forward.
LEMMA SentStageStep ==
    ASSUME TypeOK, OperationStage, SentStage, [Next]_vars
    PROVE  SentStage'
  <1> SUFFICES ASSUME NEW i \in Ids
               PROVE  /\ tx'[<<i, "propose">>] # "absent" => Stage(i)' \notin Unsent
                      /\ tx'[<<i, "execute">>] # "absent" => Stage(i)' \in {"EXECUTING", "EXECUTED"}
    BY DEF SentStage
  <1>1. Stage(i)' # Stage(i) => <<Stage(i), Stage(i)'>> \in LifeCycle /\ UNCHANGED tx
    BY OneFlowStep
  <1>2. ASSUME NEW leg \in OperatorLegs, tx[<<i, leg>>] = "absent", tx'[<<i, leg>>] # "absent"
        PROVE  Stage(i)' = Sending(leg)
    <2>1. Send(i, leg)
      BY <1>2, ChainStep
    <2>2. Stage(i) = Sending(leg)
      BY <2>1 DEF Send, In, OperationStage, Sent, Idle
    <2> QED BY <1>1, <1>2, <2>2
  <1> QED BY <1>1, <1>2, Tables DEF SentStage, LifeCycle, Unsent, OperatorLegs

\* A change is retired only past its deadline.
LEMMA RetiredStep ==
    ASSUME TypeOK, OperationStage, RetiredIsExpired, [Next]_vars
    PROVE  RetiredIsExpired'
  <1> SUFFICES ASSUME NEW i \in Ids, view'[i].retired
               PROVE  i \in expired'
    BY DEF RetiredIsExpired
  <1>1. view'[i].retired # view[i].retired => i \in expired
    BY OneFlowStep
  <1>2. expired \subseteq expired'
    BY ChainStep
  <1> QED BY <1>1, <1>2 DEF RetiredIsExpired

\* A confirmed stage is saved only when the leg's transaction succeeded.
LEMMA StageMatchesChainStep ==
    ASSUME TypeOK, OperationStage, ChainShows, RetiredIsExpired, StageMatchesChain, [Next]_vars
    PROVE  StageMatchesChain'
  <1> SUFFICES ASSUME NEW i \in Ids
               PROVE  /\ Stage(i)' \in Proposed => proposal'[i] # "NONE"
                      /\ Stage(i)' \in Decided => proposal'[i] \in {"ALLOWED", "EXECUTED", "EXPIRED"}
                      /\ Stage(i)' = "EXECUTED" => proposal'[i] = "EXECUTED"
                      /\ view'[i].retired => proposal'[i] # "EXECUTED"
    BY DEF StageMatchesChain, CompletedSteps, Proposed, Decided, Stage
  <1>1. /\ Stage(i) \in Proposed => proposal[i] # "NONE"
        /\ Stage(i) \in Decided => proposal[i] \in {"ALLOWED", "EXECUTED", "EXPIRED"}
        /\ Stage(i) = "EXECUTED" => proposal[i] = "EXECUTED"
        /\ view[i].retired => proposal[i] # "EXECUTED"
    BY StageSets
  <1>2. /\ proposal'[i] # proposal[i] =>
              /\ <<proposal[i], proposal'[i]>> \in ProposalMoves
              /\ proposal'[i] = "EXECUTED" => i \notin expired
    BY ChainStep
  <1>3. Stage(i)' # Stage(i) =>
           /\ <<Stage(i), Stage(i)'>> \in LifeCycle /\ UNCHANGED <<tx, proposal>>
           /\ Stage(i)' = "PROPOSED" => tx[<<i, "propose">>] = "ok"
           /\ Stage(i)' = "DECIDED" => tx[<<i, "decision">>] = "ok"
           /\ Stage(i)' = "EXECUTED" => tx[<<i, "execute">>] = "ok"
    BY OneFlowStep
  <1>4. view'[i].retired => proposal'[i] # "EXECUTED"
    <2>1. view'[i].retired # view[i].retired => proposal[i] # "EXECUTED" /\ UNCHANGED proposal
      BY OneFlowStep
    <2> QED BY <1>1, <1>2, <2>1 DEF RetiredIsExpired
  <1>5. CASE Stage(i)' = Stage(i)
    BY <1>1, <1>2, <1>4, <1>5 DEF ProposalMoves, Proposed, Decided
  <1>6. CASE Stage(i)' # Stage(i)
    BY <1>1, <1>6, <1>3, <1>4 DEF ChainShows, Mined, LifeCycle, Proposed, Decided
  <1> QED BY <1>6, <1>5

\* The records of a sent leg were durable before the send and stay so.
LEMMA SentIsRecoverableStep ==
    ASSUME TypeOK, OperationStage, Reached, SentIsRecoverable, [Next]_vars
    PROVE  SentIsRecoverable'
  <1> SUFFICES ASSUME NEW k \in Jobs, tx'[k] # "absent"
               PROVE  /\ k \in plans' /\ hashes'[k] = "own" /\ broadcast'[k] # "none"
                      /\ signing'[k] = "SIGNED" /\ k \in evidence'
    BY DEF SentIsRecoverable
  <1>1. PICK i \in Ids, leg \in OperatorLegs : k = <<i, leg>>
    BY DEF Jobs
  <1>2. /\ k \in plans /\ hashes[k] = "own" /\ broadcast[k] # "none"
        /\ signing[k] = "SIGNED" /\ k \in evidence /\ ~In("sign", i, leg)
    <2>1. CASE tx[k] # "absent"
      BY <1>1, <2>1 DEF SentIsRecoverable, Reached, In, Idle, Sent
    <2>2. CASE tx[k] = "absent"
      <3>1. In("send", i, leg)
        BY <1>1, <2>2, ChainStep DEF Send
      <3> QED BY <1>1, <3>1 DEF Reached, In, Idle, Sent
    <2> QED BY <2>1, <2>2
  <1> QED BY <1>1, <1>2, RecordStep

\* Every place of an operation and every flow starts empty.
LEMMA InitIInv == ASSUME Init PROVE IInv
  <1> USE DEF Init
  <1>1. TypeOK
    <2>1. view \in [Ids -> [stage: Stages, retired: BOOLEAN]]
      BY DEF Stages
    <2>2. index \in Seq(Ids) /\ Len(index) <= IndexLimit
      BY IndexAssumption
    <2>3. op \in Operations \cup {Idle} /\ (op # Idle => locked)
      OBVIOUS
    <2> QED BY <2>1, <2>2, <2>3 DEF TypeOK
  <1>2. ChainShows /\ SentStage /\ RetiredIsExpired
    BY DEF ChainShows, Mined, SentStage, RetiredIsExpired, Legs
  <1>3. OperationStage /\ Reached
    BY DEF OperationStage, Reached
  <1>4. StageMatchesChain
    BY StageSets DEF Stage, Proposed, Decided
  <1>5. SentIsRecoverable
    BY DEF SentIsRecoverable, Jobs, OperatorLegs, Legs
  <1> QED BY <1>1, <1>2, <1>3, <1>4, <1>5 DEF IInv

\* Every step keeps the invariant.
LEMMA NextIInv == ASSUME IInv, [Next]_vars PROVE IInv'
  BY TypeStep, OperationStageStep, ReachedStep, ChainShowsStep, SentStageStep, RetiredStep,
     StageMatchesChainStep, SentIsRecoverableStep
  DEF IInv

\* The inductive invariant of console-service.ts holds in every run.
THEOREM Invariance == Spec => []IInv
  BY InitIInv, NextIInv, PTL DEF Spec
-----------------------------------------------------------------------------
(* Theorems                                                                *)

\* The stores, the index and the operation lock of console-service.ts hold only
\* what their schemas say, and an operation runs only under the lock.
THEOREM TypeCorrect == Spec => []TypeOK
  BY Invariance, PTL DEF IInv

\* The stage the console shows never claims more than the chain shows.
THEOREM StagesMatchTheChain == Spec => []StageMatchesChain
  BY Invariance, PTL DEF IInv

\* recover() finds on disk everything it needs for a transaction that the
\* network may know.
THEOREM SentCanBeRecovered == Spec => []SentIsRecoverable
  BY Invariance, PTL DEF IInv

\* No operation, error, recovery or restart takes a confirmed step back.
THEOREM StepsAreKept == Spec => NeverDowngraded
  <1>1. ASSUME IInv, [Next]_vars, NEW i \in Ids
        PROVE  CompletedSteps(Stage(i)') >= CompletedSteps(Stage(i))
    <2>1. Stage(i)' = Stage(i) \/ <<Stage(i), Stage(i)'>> \in LifeCycle
      BY <1>1, OneFlowStep DEF IInv
    <2> QED BY <2>1 DEF LifeCycle, CompletedSteps
  <1>2. IInv /\ [Next]_vars =>
          [\A i \in Ids : CompletedSteps(Stage(i)') >= CompletedSteps(Stage(i))]_vars
    BY <1>1
  <1> QED BY <1>2, Invariance, PTL DEF Spec, NeverDowngraded

\* A transaction leaves only for a reviewed change that this process analysed and
\* nobody retired.
THEOREM OnlyOwnedRunsAreSent == Spec => OnlyOwnedRunsSend
  <1>1. ASSUME IInv, [Next]_vars, NEW k \in Jobs, tx[k] = "absent", tx'[k] = "sent"
        PROVE  k[1] \in live \cap reviewed /\ ~view[k[1]].retired
    <2>1. PICK i \in Ids, leg \in OperatorLegs : k = <<i, leg>>
      BY DEF Jobs
    <2>2. In("send", i, leg)
      BY <1>1, <2>1, ChainStep DEF Send, IInv
    <2> QED BY <1>1, <2>1, <2>2 DEF IInv, OperationStage, In, Idle, Sent
  <1>2. IInv /\ [Next]_vars =>
          [\A k \in Jobs : tx[k] = "absent" /\ tx'[k] = "sent" =>
              k[1] \in live \cap reviewed /\ ~view[k[1]].retired]_vars
    BY <1>1
  <1> QED BY <1>2, Invariance, PTL DEF Spec, OnlyOwnedRunsSend

-----------------------------------------------------------------------------
(* The index lists no flow twice, and a flow is missing only from a full   *)
(* one: the look at the index overlooks no other.                          *)

Indexed(i) == \E n \in 1 .. Len(index) : index[n] = i

IndexHolds ==
    /\ \A i \in Ids : Exists(i) => Indexed(i) \/ Len(index) = IndexLimit
    /\ \A m, n \in 1 .. Len(index) : index[m] = index[n] => m = n

\* A save lists its flow, keeps a full index full and drops a flow from no other.
LEMMA IndexLemma ==
    ASSUME TypeOK, IndexHolds, NEW i \in Ids, Save(i)
    PROVE  /\ Indexed(i)'
           /\ Len(index) = IndexLimit => Len(index') = IndexLimit
           /\ \A j \in Ids : Indexed(j) => Indexed(j)' \/ Len(index') = IndexLimit
           /\ \A m, n \in 1 .. Len(index') : index'[m] = index'[n] => m = n
  <1> DEFINE at    == IF \E n \in DOMAIN index : index[n] = i
                      THEN CHOOSE n \in DOMAIN index : index[n] = i ELSE Len(index) + 1
             moved == <<i>> \o SubSeq(index, 1, at - 1) \o SubSeq(index, at + 1, Len(index))
  <1>1. /\ index \in Seq(Ids) /\ Len(index) \in Nat
        /\ \A n \in 1 .. Len(index) : index[n] \in Ids
    BY DEF TypeOK
  <1>2. at \in 1 .. Len(index) + 1
    BY <1>1
  <1>3. /\ at <= Len(index) => index[at] = i
        /\ at = Len(index) + 1 => \A n \in 1 .. Len(index) : index[n] # i
    BY <1>1
  <1> HIDE DEF at, moved
  <1> DEFINE left   == SubSeq(index, 1, at - 1)
             right  == SubSeq(index, at + 1, Len(index))
             was(n) == IF n <= at THEN n - 1 ELSE n
  <1>4. /\ moved \in Seq(Ids)
        /\ Len(moved) = IF at <= Len(index) THEN Len(index) ELSE Len(index) + 1
        /\ moved[1] = i
        /\ \A n \in 2 .. Len(moved) : moved[n] = index[was(n)]
    <2>1. left \in Seq(Ids) /\ Len(left) = at - 1 /\ \A n \in 1 .. at - 1 : left[n] = index[n]
      BY <1>1, <1>2
    <2>2. /\ right \in Seq(Ids)
          /\ Len(right) = IF at <= Len(index) THEN Len(index) - at ELSE 0
          /\ \A n \in 1 .. Len(right) : right[n] = index[at + n]
      BY <1>1, <1>2
    <2> HIDE DEF left, right
    <2>3. /\ <<i>> \o left \in Seq(Ids) /\ Len(<<i>> \o left) = at
          /\ (<<i>> \o left)[1] = i
          /\ \A n \in 2 .. at : (<<i>> \o left)[n] = index[n - 1]
      BY <1>2, <2>1
    <2> DEFINE first == <<i>> \o left
    <2> HIDE DEF first
    <2>4. /\ first \o right \in Seq(Ids) /\ Len(first \o right) = at + Len(right)
          /\ \A n \in 1 .. at : (first \o right)[n] = first[n]
          /\ \A n \in at + 1 .. at + Len(right) : (first \o right)[n] = right[n - at]
      <3>1. first \in Seq(Ids) /\ right \in Seq(Ids) /\ Len(first) = at
        BY <2>2, <2>3 DEF first
      <3> HIDE DEF first
      <3> QED BY <1>2, <3>1
    <2>5. moved = first \o right
      BY DEF first, left, right, moved
    <2>6. (first \o right)[1] = i /\ \A n \in 2 .. at : (first \o right)[n] = index[n - 1]
      BY <1>2, <2>3, <2>4 DEF first
    <2>7. ASSUME NEW n \in at + 1 .. at + Len(right)
          PROVE  (first \o right)[n] = index[n]
      <3>1. n - at \in 1 .. Len(right) /\ at + (n - at) = n
        BY <1>1, <1>2, <2>2
      <3> QED BY <2>2, <2>4, <3>1
    <2>8. Len(moved) = IF at <= Len(index) THEN Len(index) ELSE Len(index) + 1
      BY <1>1, <1>2, <2>2, <2>4, <2>5
    <2>9. ASSUME NEW n \in 2 .. Len(moved)
          PROVE  moved[n] = index[was(n)]
      <3>1. n \in 2 .. at \/ n \in at + 1 .. at + Len(right)
        BY <1>1, <1>2, <2>2, <2>4, <2>5
      <3> QED BY <1>2, <2>5, <2>6, <2>7, <3>1
    <2> QED BY <2>4, <2>5, <2>6, <2>8, <2>9
  <1>5. \A n \in 2 .. Len(moved) : was(n) \in 1 .. Len(index) /\ was(n) # at
    BY <1>1, <1>2, <1>4
  <1>6. index' = SubSeq(moved, 1, IF Len(moved) > IndexLimit THEN IndexLimit ELSE Len(moved))
    BY DEF Save, at, moved
  <1>7. \A m, n \in 1 .. Len(moved) : moved[m] = moved[n] => m = n
    <2> SUFFICES ASSUME NEW m \in 1 .. Len(moved), NEW n \in 1 .. Len(moved),
                        moved[m] = moved[n], m < n
                 PROVE  FALSE
      BY <1>4
    <2>1. n \in 2 .. Len(moved) /\ moved[n] = index[was(n)] /\ index[was(n)] # i
      BY <1>1, <1>2, <1>3, <1>4, <1>5 DEF IndexHolds
    <2>2. CASE m = 1
      BY <1>4, <2>1, <2>2
    <2>3. CASE m # 1
      <3>1. m \in 2 .. Len(moved) /\ was(m) # was(n)
        BY <1>2, <1>4, <2>1, <2>3
      <3>2. index[was(m)] = index[was(n)]
        BY <1>4, <2>1, <3>1
      <3> QED BY <1>5, <2>1, <3>1, <3>2 DEF IndexHolds
    <2> QED BY <2>2, <2>3
  <1>8. /\ Len(moved) >= 1 /\ Len(moved) >= Len(index) /\ Len(index) <= IndexLimit
    BY <1>1, <1>2, <1>4 DEF TypeOK
  <1>9. /\ Len(index') = IF Len(moved) > IndexLimit THEN IndexLimit ELSE Len(moved)
        /\ \A n \in 1 .. Len(index') : n \in 1 .. Len(moved) /\ index'[n] = moved[n]
    BY <1>4, <1>6, <1>8, IndexAssumption
  <1>10. ASSUME NEW n \in 1 .. Len(index)
         PROVE  \E m \in 1 .. Len(moved) : moved[m] = index[n]
    <2>1. CASE n < at
      <3>1. n + 1 \in 2 .. Len(moved) /\ was(n + 1) = n
        BY <1>1, <1>2, <1>4, <2>1
      <3> QED BY <1>4, <3>1
    <2>2. CASE n = at
      BY <1>3, <1>4, <2>2
    <2>3. CASE n > at
      <3>1. n \in 2 .. Len(moved) /\ was(n) = n
        BY <1>1, <1>2, <1>4, <2>3
      <3> QED BY <1>4, <3>1
    <2> QED BY <1>1, <1>2, <2>1, <2>2, <2>3
  <1>11. Indexed(i)'
    <2>1. 1 \in 1 .. Len(index') /\ index'[1] = i
      BY <1>4, <1>8, <1>9, IndexAssumption
    <2> QED BY <2>1 DEF Indexed
  <1>12. Len(index) = IndexLimit => Len(index') = IndexLimit
    BY <1>8, <1>9, <1>4, IndexAssumption
  <1>13. ASSUME NEW j \in Ids, Indexed(j), Len(index') # IndexLimit
         PROVE  Indexed(j)'
    <2>1. Len(index') = Len(moved)
      BY <1>4, <1>9, <1>13, IndexAssumption
    <2>2. PICK n \in 1 .. Len(index) : index[n] = j
      BY <1>13 DEF Indexed
    <2>3. PICK m \in 1 .. Len(moved) : moved[m] = j
      BY <1>10, <2>2
    <2> QED BY <1>9, <2>1, <2>3 DEF Indexed
  <1>14. ASSUME NEW m \in 1 .. Len(index'), NEW n \in 1 .. Len(index'), index'[m] = index'[n]
         PROVE  m = n
    BY <1>7, <1>9, <1>14
  <1> QED BY <1>11, <1>12, <1>13, <1>14

\* Only a save of some flow changes the index.
LEMMA SaveFrame ==
    ASSUME [Next]_vars
    PROVE  \/ UNCHANGED index
           \/ \E i \in Ids : Save(i)
  <1> USE DEF flowVars
  <1>1. ASSUME NEW i \in Ids, Request(i)
        PROVE  Save(i)
    BY <1>1 DEF Request, Analyze, ReviewPayload, Approve, Touch, Start, DecisionPayload,
                DecisionReceipt, Recover, RetireExpired, SaveStage
  <1>2. ASSUME NEW i \in Ids, Running(i)
        PROVE  Save(i) \/ UNCHANGED index
    BY <1>2 DEF Running, AnalyzeEnds, DecisionConfirmed, OperationFails, SignReturns,
                SignThrows, SaveHash, RecordBroadcast, Send, SendReturns, Confirm, SaveStage
  <1>3. ASSUME NEW i \in Ids, World(i)
        PROVE  UNCHANGED index
    BY <1>3 DEF World, Mine, AuthorityActs, Expire, MarkExpired
  <1>4. CASE Crash \/ RemoveAbandonedLock \/ RecoverPolicy \/ Drift \/ UNCHANGED vars
    BY <1>4 DEF Crash, RemoveAbandonedLock, RecoverPolicy, Drift, vars
  <1> QED BY <1>1, <1>2, <1>3, <1>4 DEF Next

\* Every step keeps the index so.
LEMMA IndexStep ==
    ASSUME TypeOK, OperationStage, IndexHolds, [Next]_vars
    PROVE  IndexHolds'
  <1>1. \/ UNCHANGED index
        \/ /\ Len(index) = IndexLimit => Len(index') = IndexLimit
           /\ \A j \in Ids : Indexed(j) => Indexed(j)' \/ Len(index') = IndexLimit
           /\ \A m, n \in 1 .. Len(index') : index'[m] = index'[n] => m = n
    BY SaveFrame, IndexLemma
  <1>2. \A m, n \in 1 .. Len(index') : index'[m] = index'[n] => m = n
    BY <1>1 DEF IndexHolds
  <1>3. /\ Len(index) = IndexLimit => Len(index') = IndexLimit
        /\ \A j \in Ids : Indexed(j) => Indexed(j)' \/ Len(index') = IndexLimit
    BY <1>1 DEF Indexed
  <1>4. ASSUME NEW i \in Ids, Stage(i)' # "none"
        PROVE  Indexed(i)' \/ Len(index') = IndexLimit
    <2>1. CASE Stage(i) # "none"
      BY <1>3, <2>1 DEF IndexHolds, Exists
    <2>2. CASE Stage(i) = "none"
      <3>1. ~UNCHANGED view
        BY <1>4, <2>2 DEF Stage
      <3>2. ASSUME NEW j \in Ids, RetireExpired(j)
            PROVE  Stage(i)' = Stage(i)
        BY <3>2 DEF RetireExpired, Stage, TypeOK
      <3>3. PICK j \in Ids, s \in Stages : SavesNext(j, s)
        BY <1>4, <2>2, <3>1, <3>2, FlowStep
      <3>4. i = j
        BY <1>4, <2>2, <3>3, StageLemma DEF SavesNext
      <3>5. Save(i)
        BY <3>3, <3>4 DEF SavesNext, SaveStage
      <3> QED BY <3>5, IndexLemma
    <2> QED BY <2>1, <2>2
  <1> QED BY <1>2, <1>4 DEF IndexHolds, Exists

\* analyze() refuses a new change beside an unfinished one, unless as many other
\* flows as the index keeps were saved since.
THEOREM MissesOnlyCrowdedOut == Spec => OnlyCrowdedOutIsMissed
  <1>1. Init => IndexHolds
    BY DEF Init, IndexHolds, Exists, Stage
  <1>2. IInv /\ IndexHolds /\ [Next]_vars => IndexHolds'
    BY IndexStep DEF IInv
  <1>3. ASSUME IInv, IndexHolds, [Next]_vars, NEW i \in Ids, ~Exists(i), Exists(i)',
               NEW j \in Ids, UnfinishedTransaction(j)
        PROVE  CrowdedOut(j)
    <2>1. ~UNCHANGED view
      BY <1>3 DEF Exists, Stage
    <2>2. ASSUME NEW k \in Ids, RetireExpired(k)
          PROVE  Stage(i)' = Stage(i)
      BY <1>3, <2>2 DEF RetireExpired, Stage, TypeOK, IInv
    <2>3. PICK k \in Ids, s \in Stages : SavesNext(k, s)
      BY <1>3, <2>1, <2>2, FlowStep DEF IInv, Exists
    <2>4. Analyze(i)
      BY <1>3, <2>3, StageLemma DEF SavesNext, Exists, IInv
    <2>5. \A n \in 1 .. Len(index) : index[n] # j
      BY <1>3, <2>4 DEF Analyze, IInv, TypeOK
    <2>6. Exists(j)
      BY <1>3 DEF UnfinishedTransaction, Exists
    <2>7. Len(index) = IndexLimit
      BY <1>3, <2>5, <2>6 DEF IndexHolds, Indexed
    <2>8. DOMAIN index = 1 .. Len(index)
      BY <1>3 DEF IInv, TypeOK
    <2> QED BY <1>3, <2>5, <2>7, <2>8 DEF IndexHolds, CrowdedOut
  <1>4. IInv /\ IndexHolds /\ [Next]_vars =>
          [\A i \in Ids : ~Exists(i) /\ Exists(i)' =>
              \A j \in Ids : UnfinishedTransaction(j) => CrowdedOut(j)]_vars
    BY <1>3
  <1> QED BY <1>1, <1>2, <1>4, Invariance, PTL DEF Spec, OnlyCrowdedOutIsMissed
=============================================================================
