--------------------------- MODULE ConsoleService ---------------------------
(***************************************************************************)
(* The change flows of apps/web/src/lib/server/console-service.ts: what is *)
(* on disk for each flow, the index of recent flows, the operations under  *)
(* the one "operation" lock, and what they leave in the stores of          *)
(* OperatorControl, DurableSigningService and DurableBroadcastService and  *)
(* on the chain.  The process can die between any two awaits.              *)
(*                                                                         *)
(* A save writes the whole flow, then the index, and follows the mutation  *)
(* it saves without another await: it is one step and there is one copy of *)
(* a flow.  Memory holds besides it only the owned CRE runs.  Any check    *)
(* may also fail on its own (RPC, Graph, provider).  Two confirmations are *)
(* taken as final here; TransactionBroadcast has the reorganisations.      *)
(***************************************************************************)
EXTENDS Naturals, Sequences

CONSTANTS
    Ids,            \* flow ids; a flow stands for its change
    IndexLimit      \* entries the index keeps (30 in save())

ASSUME IndexAssumption == IndexLimit \in Nat \ {0}

VARIABLES
    view,           \* id -> [stage, retired]
    index,          \* the index record, latest save first
    plans,          \* <<id, leg>> whose exact plan is in the flow
    hashes,         \* <<id, leg>> -> hash in the flow: none, own, other
    live,           \* ids whose CRE run this process owns
    issued, reviewed,   \* review content issued; review record in the store
    locked, op,     \* the "operation" lock directory, and who runs under it
    interrupted,    \* an operator policy window was left open
    signing, evidence, broadcast,   \* records of the leg's job
    tx,             \* <<id, leg>> -> its transaction; "shared": it succeeded,
                    \* but its block ends with another market version
    proposal,       \* id -> state of the proposal on chain
    current,        \* ids whose market version and epoch still match
    expired         \* ids past their deadline

chainVars == <<tx, proposal, current, expired>>
flowVars == <<view, index, plans, hashes, issued, reviewed>>
jobVars == <<interrupted, signing, evidence, broadcast>>
opVars == <<locked, op>>
vars == <<flowVars, live, opVars, jobVars, chainVars>>

Legs == {"propose", "decision", "execute"}
OperatorLegs == {"propose", "execute"}
Jobs == Ids \X OperatorLegs
Stages == {"none", "ANALYZING", "FAILED", "BLOCKED", "ALLOW", "REVIEWED", "PROPOSING",
           "PROPOSED", "DECISION_READY", "DECISION_PENDING", "DECIDED", "EXECUTING", "EXECUTED"}
Idle == [at |-> "idle"]
Operations == [at: {"analyze", "sign", "save", "record", "send", "wait", "confirm", "receipt"},
               id: Ids, leg: Legs]

\* The last conjunct: only the holder of the lock is inside an operation.
TypeOK ==
    /\ view \in [Ids -> [stage: Stages, retired: BOOLEAN]]
    /\ index \in Seq(Ids) /\ Len(index) <= IndexLimit
    /\ plans \subseteq Ids \X Legs
    /\ hashes \in [Ids \X Legs -> {"none", "own", "other"}]
    /\ live \subseteq Ids /\ issued \subseteq Ids /\ reviewed \subseteq Ids
    /\ locked \in BOOLEAN /\ op \in Operations \cup {Idle} /\ interrupted \in BOOLEAN
    /\ signing \in [Jobs -> {"none", "SIGNED", "UNUSABLE"}] /\ evidence \subseteq Jobs
    /\ broadcast \in [Jobs -> {"none", "PENDING", "CONFIRMED"}]
    /\ tx \in [Ids \X Legs -> {"absent", "sent", "ok", "shared", "reverted"}]
    /\ proposal \in [Ids -> {"NONE", "PENDING", "ALLOWED", "BLOCKED", "EXECUTED", "EXPIRED"}]
    /\ current \subseteq Ids /\ expired \subseteq Ids
    /\ op # Idle => locked

Init ==
    /\ view = [i \in Ids |-> [stage |-> "none", retired |-> FALSE]]
    /\ index = << >> /\ plans = {} /\ hashes = [k \in Ids \X Legs |-> "none"]
    /\ live = {} /\ issued = {} /\ reviewed = {}
    /\ locked = FALSE /\ op = Idle /\ interrupted = FALSE
    /\ signing = [k \in Jobs |-> "none"] /\ evidence = {}
    /\ broadcast = [k \in Jobs |-> "none"]
    /\ tx = [k \in Ids \X Legs |-> "absent"] /\ proposal = [i \in Ids |-> "NONE"]
    /\ current = {} /\ expired = {}

(***************************************************************************)
(* Flows                                                                   *)
(***************************************************************************)

Stage(i) == view[i].stage
Exists(i) == Stage(i) # "none"

\* unfinishedTransaction
UnfinishedTransaction(i) ==
    /\ ~view[i].retired
    /\ Stage(i) \in {"PROPOSING", "PROPOSED", "DECISION_READY", "DECISION_PENDING",
                     "DECIDED", "EXECUTING"}

\* completedSteps
CompletedSteps(stage) ==
    CASE stage = "EXECUTED" -> 4
      [] stage \in {"DECIDED", "EXECUTING"} -> 3
      [] stage \in {"PROPOSED", "DECISION_READY", "DECISION_PENDING"} -> 2
      [] stage \in {"REVIEWED", "PROPOSING"} -> 1
      [] OTHER -> 0

\* save(): the flow, in the index once at most, goes to the front of it; IndexLimit
\* ids are kept.
Save(i) ==
    LET at    == IF \E n \in DOMAIN index : index[n] = i
                 THEN CHOOSE n \in DOMAIN index : index[n] = i ELSE Len(index) + 1
        moved == <<i>> \o SubSeq(index, 1, at - 1) \o SubSeq(index, at + 1, Len(index))
    IN  index' = SubSeq(moved, 1, IF Len(moved) > IndexLimit THEN IndexLimit ELSE Len(moved))
SaveStage(i, stage) == view' = [view EXCEPT ![i].stage = stage] /\ Save(i)

\* Mutant: a flow read back from disk may go on.
OwnedFromDisk(i) == ~view[i].retired

\* run(): the flow was analysed by this process and is not retired.
Owned(i) == i \in live /\ ~view[i].retired

\* check(f, expectedState): the owned run, the live version, epoch, deadline and
\* proposal state, and the review record where one is required.
Check(i, expectedState) ==
    Owned(i) /\ i \in current \ expired /\ proposal[i] = expectedState

Free == ~locked /\ UNCHANGED opVars     \* an operation that is one step
Begin(at, i, leg) == ~locked /\ locked' = TRUE /\ op' = [at |-> at, id |-> i, leg |-> leg]
In(at, i, leg) == op = [at |-> at, id |-> i, leg |-> leg]
Next2(at) == op' = [op EXCEPT !.at = at] /\ UNCHANGED locked
End == locked' = FALSE /\ op' = Idle

(***************************************************************************)
(* Analysis and review                                                     *)
(***************************************************************************)

\* Mutant: the unfinished flows are left to the browser to notice.
AnalyzeRegardless(i) ==
    /\ ~Exists(i)
    /\ Begin("analyze", i, "propose")
    /\ SaveStage(i, "ANALYZING")
    /\ UNCHANGED <<plans, hashes, live, issued, reviewed, jobVars, chainVars>>

\* analyze() looks for unfinished flows in the journal, that is in the index.
Analyze(i) ==
    /\ ~Exists(i)
    /\ \A k \in DOMAIN index : ~UnfinishedTransaction(index[k])
    /\ Begin("analyze", i, "propose")
    /\ SaveStage(i, "ANALYZING")
    /\ UNCHANGED <<plans, hashes, live, issued, reviewed, jobVars, chainVars>>

\* The runner ends: a verdict on the current state, or FAILED without a run.
AnalyzeEnds(i) ==
    /\ In("analyze", i, "propose") /\ End
    /\ \/ \E stage \in {"ALLOW", "BLOCKED"} :
             /\ SaveStage(i, stage)
             /\ live' = live \cup {i} /\ current' \in {current, current \cup {i}}
       \/ SaveStage(i, "FAILED") /\ UNCHANGED <<live, current>>
    /\ UNCHANGED <<plans, hashes, issued, reviewed, jobVars, tx, proposal, expired>>

ReviewPayload(i) ==
    /\ Free /\ Stage(i) = "ALLOW" /\ Check(i, "NONE")
    /\ issued' = issued \cup {i}
    /\ Save(i)
    /\ UNCHANGED <<view, plans, hashes, live, reviewed, jobVars, chainVars>>

\* The verified signature is stored first; the second check may then fail.
Approve(i) ==
    /\ Free /\ Stage(i) = "ALLOW" /\ i \in issued /\ Check(i, "NONE")
    /\ reviewed' = reviewed \cup {i}
    /\ \E stage \in {"ALLOW", "REVIEWED"} : SaveStage(i, stage)
    /\ UNCHANGED <<plans, hashes, live, issued, jobVars, chainVars>>

\* Anything that only adds to the timeline: a failed operation, an explanation,
\* the Graph comparison after execution.
Touch(i) ==
    /\ Free /\ Exists(i)
    /\ Save(i)
    /\ UNCHANGED <<view, plans, hashes, live, issued, reviewed, jobVars, chainVars>>

(***************************************************************************)
(* propose() and execute(): operatorSend, await by await                   *)
(***************************************************************************)

Before(leg) == IF leg = "propose" THEN [stage |-> "REVIEWED", state |-> "NONE"]
                                  ELSE [stage |-> "DECIDED", state |-> "ALLOWED"]
Sending(leg) == IF leg = "propose" THEN "PROPOSING" ELSE "EXECUTING"
Confirmed(leg) == CASE leg = "propose" -> "PROPOSED"
                    [] leg = "decision" -> "DECIDED"
                    [] leg = "execute" -> "EXECUTED"

Start(i, leg) ==
    /\ Stage(i) = Before(leg).stage /\ i \in reviewed
    /\ Check(i, Before(leg).state)
    /\ Begin("sign", i, leg)
    /\ plans' = plans \cup {<<i, leg>>}
    /\ SaveStage(i, Sending(leg))
    /\ UNCHANGED <<hashes, live, issued, reviewed, jobVars, chainVars>>

\* What control.sign leaves behind (see OperatorControl, TransactionSigning):
\* nothing, or a job that is SIGNED only if the change was still valid, and the
\* window left open, or DENY restored, with the evidence of it or without.
SigningLeaves(i, leg) ==
    \/ UNCHANGED <<interrupted, signing, evidence>>
    \/ /\ ~interrupted
       /\ \E s \in {"none", "SIGNED", "UNUSABLE"} :
             /\ s = "SIGNED" => i \in current \ expired
             /\ signing' = [signing EXCEPT ![<<i, leg>>] = s]
       /\ \/ interrupted' = TRUE /\ UNCHANGED evidence
          \/ interrupted' = FALSE /\ evidence' \in {evidence, evidence \cup {<<i, leg>>}}

\* Mutant: control.sign returns the signature without awaiting its finally.
SignReturnsEarly(i, leg) ==
    /\ In("sign", i, leg)
    /\ SigningLeaves(i, leg)
    /\ signing'[<<i, leg>>] = "SIGNED"
    /\ Next2("save")
    /\ UNCHANGED <<flowVars, live, broadcast, chainVars>>

\* It returns only with a signature and DENY restored.
SignReturns(i, leg) ==
    /\ In("sign", i, leg)
    /\ SigningLeaves(i, leg)
    /\ signing'[<<i, leg>>] = "SIGNED" /\ <<i, leg>> \in evidence'
    /\ Next2("save")
    /\ UNCHANGED <<flowVars, live, broadcast, chainVars>>

SignThrows(i, leg) ==
    /\ In("sign", i, leg) /\ End
    /\ SigningLeaves(i, leg)
    /\ Save(i)
    /\ UNCHANGED <<view, plans, hashes, live, issued, reviewed, broadcast, chainVars>>

\* Here and below: the operation goes on, or the write throws all the same.
SaveHash(i, leg) ==
    /\ In("save", i, leg) /\ (Next2("record") \/ End)
    /\ hashes' = [hashes EXCEPT ![<<i, leg>>] = "own"]
    /\ Save(i)
    /\ UNCHANGED <<view, plans, live, issued, reviewed, jobVars, chainVars>>

\* broadcast.send revalidates and writes its record before it sends.
RecordBroadcast(i, leg) ==
    /\ In("record", i, leg)
    /\ Check(i, Before(leg).state)
    /\ broadcast' = [broadcast EXCEPT ![<<i, leg>>] = "PENDING"]
    /\ (Next2("send") /\ UNCHANGED index) \/ (End /\ Save(i))
    /\ UNCHANGED <<view, plans, hashes, issued, reviewed, live, interrupted, signing, evidence, chainVars>>

Send(i, leg) ==
    /\ In("send", i, leg) /\ Next2("wait")
    /\ tx' = [tx EXCEPT ![<<i, leg>>] = "sent"]
    /\ UNCHANGED <<flowVars, live, jobVars, proposal, current, expired>>

\* Two confirmations of a transaction that succeeded; then send() returns.
SendReturns(i, leg) ==
    /\ In("wait", i, leg)
    /\ tx[<<i, leg>>] \in {"ok", "shared"}
    /\ broadcast' = [broadcast EXCEPT ![<<i, leg>>] = "CONFIRMED"]
    /\ (Next2("confirm") /\ UNCHANGED index) \/ (End /\ Save(i))
    /\ UNCHANGED <<view, plans, hashes, issued, reviewed, live, interrupted, signing, evidence, chainVars>>

\* The wait or a check fails; the flow keeps its stage and records the error.
OperationFails(i, leg) ==
    /\ \E at \in {"save", "record", "send", "wait", "confirm", "receipt"} : In(at, i, leg)
    /\ End /\ Save(i)
    /\ UNCHANGED <<view, plans, hashes, live, issued, reviewed, jobVars, chainVars>>

\* Mutant: a recorded hash counts as a receipt.
VerifiedByRecord(i, leg) ==
    /\ <<i, leg>> \in plans
    /\ leg # "decision" => signing[<<i, leg>>] = "SIGNED" /\ <<i, leg>> \in evidence

\* confirm(): plan, hash, durable signing and policy evidence, and a receipt that
\* proves the leg: the reads at the end of its block must show exactly the expected
\* proposal and market version.  (assertPolicy may fail as any check.)
Verified(i, leg) ==
    /\ <<i, leg>> \in plans /\ tx[<<i, leg>>] = "ok"
    /\ leg # "decision" => signing[<<i, leg>>] = "SIGNED" /\ <<i, leg>> \in evidence

Confirm(i, leg) ==
    /\ In("confirm", i, leg) /\ End
    /\ Verified(i, leg)
    /\ SaveStage(i, Confirmed(leg))
    /\ UNCHANGED <<plans, hashes, live, issued, reviewed, jobVars, chainVars>>

(***************************************************************************)
(* The authority's wallet transaction                                      *)
(***************************************************************************)

\* A plan that differs from the one already issued is refused.
DecisionPayload(i) ==
    /\ Free /\ Stage(i) \in {"PROPOSED", "DECISION_READY"}
    /\ Check(i, "PENDING")
    /\ plans' = plans \cup {<<i, "decision">>}
    /\ SaveStage(i, "DECISION_READY")
    /\ UNCHANGED <<hashes, live, issued, reviewed, jobVars, chainVars>>

\* The browser reports a hash, possibly not that of the authority's transaction.
DecisionReceipt(i, hash) ==
    /\ Stage(i) \in {"DECISION_READY", "DECISION_PENDING"}
    /\ <<i, "decision">> \in plans
    /\ hashes[<<i, "decision">>] \in {"none", hash}
    /\ Begin("receipt", i, "decision")
    /\ hashes' = [hashes EXCEPT ![<<i, "decision">>] = hash]
    /\ SaveStage(i, "DECISION_PENDING")
    /\ UNCHANGED <<plans, live, issued, reviewed, jobVars, chainVars>>

DecisionConfirmed(i) ==
    /\ In("receipt", i, "decision") /\ End
    /\ hashes[<<i, "decision">>] = "own" /\ Verified(i, "decision")
    /\ SaveStage(i, "DECIDED")
    /\ UNCHANGED <<plans, hashes, live, issued, reviewed, jobVars, chainVars>>

(***************************************************************************)
(* Recovery and retirement                                                 *)
(***************************************************************************)

\* Mutant: a leg can be rechecked at any later stage.
RecoverableAlways(leg) == Stages \ {"none"}

\* Mutant: an execution that was interrupted is not rechecked.
RecoverableWithoutExecute(leg) ==
    CASE leg = "propose"  -> {"PROPOSING", "PROPOSED"}
      [] leg = "decision" -> {"DECISION_READY", "DECISION_PENDING", "DECIDED"}
      [] leg = "execute"  -> {}

Recoverable(leg) ==
    CASE leg = "propose"  -> {"PROPOSING", "PROPOSED"}
      [] leg = "decision" -> {"DECISION_READY", "DECISION_PENDING", "DECIDED"}
      [] leg = "execute"  -> {"EXECUTING"}

\* Read-only: the recorded hash, of the flow or of the broadcast record.
Recover(i, leg) ==
    /\ Free /\ Stage(i) \in Recoverable(leg)
    /\ hashes[<<i, leg>>] # "other"
    /\ \/ hashes[<<i, leg>>] = "own"
       \/ leg # "decision" /\ broadcast[<<i, leg>>] # "none"
    /\ Verified(i, leg)
    /\ hashes' = [hashes EXCEPT ![<<i, leg>>] = "own"]
    /\ SaveStage(i, Confirmed(leg))
    /\ UNCHANGED <<plans, live, issued, reviewed, jobVars, chainVars>>

\* retireExpired: a confirmed proposal or decision, nothing issued after it, and
\* the deadline passed on the chain.
RetireExpired(i) ==
    /\ Free /\ ~view[i].retired
    /\ \/ /\ Stage(i) = "PROPOSED" /\ <<i, "decision">> \notin plans
          /\ Verified(i, "propose") /\ proposal[i] \in {"PENDING", "EXPIRED"}
       \/ /\ Stage(i) = "DECIDED"
          /\ Verified(i, "decision") /\ proposal[i] \in {"ALLOWED", "EXPIRED"}
    /\ <<i, "execute">> \notin plans
    /\ i \in expired
    /\ view' = [view EXCEPT ![i].retired = TRUE] /\ Save(i)
    /\ live' = live \ {i}
    /\ UNCHANGED <<plans, hashes, issued, reviewed, jobVars, chainVars>>

(***************************************************************************)
(* The process, the operator and the chain                                 *)
(***************************************************************************)

\* A crash loses every owned run and leaves the lock of a running operation; a
\* window that was open may leave any of its traces.
Crash ==
    /\ op' = Idle /\ live' = {} /\ UNCHANGED locked
    /\ IF op # Idle /\ op.at = "sign"
       THEN SigningLeaves(op.id, op.leg)
       ELSE UNCHANGED <<interrupted, signing, evidence>>
    /\ UNCHANGED <<flowVars, broadcast, chainVars>>

RemoveAbandonedLock ==
    /\ locked /\ op = Idle /\ locked' = FALSE
    /\ UNCHANGED <<op, flowVars, live, jobVars, chainVars>>

\* DENY is put back and the interrupted record removed, by hand.
RecoverPolicy ==
    /\ interrupted /\ op = Idle /\ interrupted' = FALSE
    /\ UNCHANGED <<signing, evidence, broadcast, opVars, flowVars, live, chainVars>>

\* ParamShieldExecutor: what each leg needs on chain and makes of the proposal.
Effect(leg) == CASE leg = "propose"  -> <<"NONE", "PENDING">>
                 [] leg = "decision" -> <<"PENDING", "ALLOWED">>
                 [] leg = "execute"  -> <<"ALLOWED", "EXECUTED">>

\* An execution advances the market version, and so does a user of the market in
\* the same block: no other change is current then.
Mine(i, leg) ==
    /\ tx[<<i, leg>>] = "sent"
    /\ IF i \in current \ expired /\ proposal[i] = Effect(leg)[1]
       THEN /\ proposal' = [proposal EXCEPT ![i] = Effect(leg)[2]]
            /\ \E result \in {"ok", "shared"} :
                  /\ tx' = [tx EXCEPT ![<<i, leg>>] = result]
                  /\ current' = IF leg = "execute" \/ result = "shared" THEN {} ELSE current
       ELSE /\ tx' = [tx EXCEPT ![<<i, leg>>] = "reverted"]
            /\ UNCHANGED <<proposal, current>>
    /\ UNCHANGED <<expired, flowVars, live, opVars, jobVars>>

\* The authority sends what it was shown, at any later time, or refuses.
AuthorityActs(i) ==
    /\ \/ /\ <<i, "decision">> \in plans /\ tx[<<i, "decision">>] = "absent"
          /\ tx' = [tx EXCEPT ![<<i, "decision">>] = "sent"]
          /\ UNCHANGED proposal
       \/ /\ proposal[i] = "PENDING" /\ i \in current \ expired
          /\ proposal' = [proposal EXCEPT ![i] = "BLOCKED"]
          /\ UNCHANGED tx
    /\ UNCHANGED <<current, expired, flowVars, live, opVars, jobVars>>

\* The market or an authorization changes; a deadline passes; an expired
\* proposal is marked by anyone.
Drift == current' = {} /\ UNCHANGED <<tx, proposal, expired, flowVars, live, opVars, jobVars>>
Expire(i) ==
    /\ Stage(i) \notin {"none", "ANALYZING"} /\ expired' = expired \cup {i}
    /\ UNCHANGED <<tx, proposal, current, flowVars, live, opVars, jobVars>>
MarkExpired(i) ==
    /\ i \in expired /\ proposal[i] \in {"PENDING", "ALLOWED"}
    /\ proposal' = [proposal EXCEPT ![i] = "EXPIRED"]
    /\ UNCHANGED <<tx, current, expired, flowVars, live, opVars, jobVars>>

(***************************************************************************)
(* The specification                                                       *)
(***************************************************************************)

Request(i) ==
    \/ Analyze(i) \/ ReviewPayload(i) \/ Approve(i) \/ Touch(i)
    \/ \E leg \in OperatorLegs : Start(i, leg)
    \/ DecisionPayload(i)
    \/ \E hash \in {"own", "other"} : DecisionReceipt(i, hash)
    \/ \E leg \in Legs : Recover(i, leg)
    \/ RetireExpired(i)

Running(i) ==
    \/ AnalyzeEnds(i) \/ DecisionConfirmed(i) \/ OperationFails(i, "decision")
    \/ \E leg \in OperatorLegs :
          \/ SignReturns(i, leg) \/ SignThrows(i, leg) \/ SaveHash(i, leg)
          \/ RecordBroadcast(i, leg) \/ Send(i, leg) \/ SendReturns(i, leg)
          \/ Confirm(i, leg) \/ OperationFails(i, leg)

World(i) ==
    \/ \E leg \in Legs : Mine(i, leg)
    \/ AuthorityActs(i) \/ Expire(i) \/ MarkExpired(i)

Next ==
    \/ \E i \in Ids : Request(i) \/ Running(i) \/ World(i)
    \/ Crash \/ RemoveAbandonedLock \/ RecoverPolicy \/ Drift

\* A running operation goes on; the operator clears abandoned locks, closes
\* interrupted windows and keeps asking for the recovery of what is outstanding,
\* and the RPC answers at last.
Fairness ==
    /\ \A i \in Ids : WF_vars(Running(i))
    /\ WF_vars(RemoveAbandonedLock)
    /\ SF_vars(RecoverPolicy)
    /\ \A i \in Ids, leg \in OperatorLegs : SF_vars(~interrupted /\ Recover(i, leg))

Spec == Init /\ [][Next]_vars /\ Fairness

(***************************************************************************)
(* Properties                                                              *)
(***************************************************************************)

\* As many other flows as the index keeps were saved since j was.
CrowdedOut(j) ==
    /\ Len(index) = IndexLimit
    /\ \A m, n \in DOMAIN index : index[m] # j /\ (index[m] = index[n] => m = n)

\* No flow is started while another has a transaction outstanding, except one that
\* the saves of IndexLimit other flows have pushed out of the index since: analyze()
\* looks at the index only.
OnlyCrowdedOutIsMissed ==
    [][\A i \in Ids : ~Exists(i) /\ Exists(i)' =>
          \A j \in Ids : UnfinishedTransaction(j) => CrowdedOut(j)]_vars

\* A stage never claims more than the chain shows, whatever hash the browser
\* reported and wherever an operation was cut off; and a retired change cannot execute
\* any more: nothing signed, sent or shown to a wallet before can complete it.
StageMatchesChain ==
    \A i \in Ids :
        /\ CompletedSteps(Stage(i)) >= 2 => proposal[i] # "NONE"
        /\ CompletedSteps(Stage(i)) >= 3 => proposal[i] \in {"ALLOWED", "EXECUTED", "EXPIRED"}
        /\ CompletedSteps(Stage(i)) >= 4 => proposal[i] = "EXECUTED"
        /\ view[i].retired => proposal[i] # "EXECUTED"

\* Recovery, errors and restarts never take a confirmed step back.
NeverDowngraded ==
    [][\A i \in Ids : CompletedSteps(Stage(i)') >= CompletedSteps(Stage(i))]_vars

\* Every operator transaction the network may know can be confirmed by recover()
\* after a crash: its plan and hash, the signing record and the evidence of the
\* restored policy are all on disk.
SentIsRecoverable ==
    \A k \in Jobs : tx[k] # "absent" =>
        /\ k \in plans /\ hashes[k] = "own" /\ broadcast[k] # "none"
        /\ signing[k] = "SIGNED" /\ k \in evidence

\* Nothing is sent for a flow that another process analysed, that is retired or
\* that nobody reviewed.
OnlyOwnedRunsSend ==
    [][\A k \in Jobs : tx[k] = "absent" /\ tx'[k] = "sent" =>
          k[1] \in live \cap reviewed /\ ~view[k[1]].retired]_vars

\* An operator transaction that succeeded, with nothing else moving the market in
\* its block, is confirmed in its flow at last, after any number of crashes, if the
\* operator keeps recovering.
MinedIsConfirmed ==
    \A i \in Ids :
        /\ tx[<<i, "propose">>] = "ok" ~> CompletedSteps(Stage(i)) >= 2
        /\ tx[<<i, "execute">>] = "ok" ~> Stage(i) = "EXECUTED"
=============================================================================
