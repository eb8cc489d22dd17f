----------------------------- MODULE OperatorLeg -----------------------------
(***************************************************************************)
(* operatorSend of the console service (apps/web/src/lib/server/           *)
(* console-service.ts): one leg of a change, signed by the operator's      *)
(* wallet inside the window of OperatorControl and handed to the network   *)
(* by TransactionBroadcast.  Both components run here over one wallet      *)
(* policy and one store of signed jobs, with calls that race, crash between*)
(* any two awaits and are repeated.  What DurableSigningService does       *)
(* inside the window is TransactionSigning.                                *)
(***************************************************************************)
EXTENDS Naturals

CONSTANTS Callers, Jobs, Deny, Foreign, NoJob, LateUpdates

VARIABLES
    policy, updates, asking, issued,            \* the provider
    locked, interrupted, evidence,              \* the store of OperatorControl
    controlPc, controlJob, controlOutcome,
    records, locks, signed, valid,              \* the stores of jobs and broadcasts
    chain, sent, buried,                        \* the network
    broadcastPc, broadcastJob, broadcastOutcome, stale,
    leg,            \* caller -> which of its awaits operatorSend is in
    saved,          \* jobs whose transaction hash is in the record of their flow
    calm            \* history: callers whose broadcast has lived under DENY

Control == INSTANCE OperatorControl
    WITH pc <- controlPc, job <- controlJob, outcome <- controlOutcome
Broadcast == INSTANCE TransactionBroadcast
    WITH pc <- broadcastPc, job <- broadcastJob, outcome <- broadcastOutcome

ASSUME ConstantsAssumption == Control!ConstantsApart

controlVars == <<policy, updates, asking, issued, locked, interrupted, evidence,
                 controlPc, controlJob, controlOutcome>>
sendVars == <<records, locks, chain, sent, buried,
              broadcastPc, broadcastJob, broadcastOutcome, stale>>
broadcastVars == <<sendVars, signed, valid>>
legVars == <<leg, saved>>
vars == <<controlVars, broadcastVars, legVars, calm>>

Init ==
    /\ Control!Init /\ Broadcast!Init
    /\ broadcastJob = controlJob
    /\ leg = [c \in Callers |-> "idle"]
    /\ saved = {} /\ calm = {}

In(c, here) == leg[c] = here
Goto(c, there) == leg' = [leg EXCEPT ![c] = there]

\* DENY has been in place at some moment since the caller's send() began.
NoteCalm ==
    calm' = {c \in Callers : leg'[c] = "sending" /\ (policy' = Deny \/ c \in calm)}

(***************************************************************************)
(* operatorSend(), await by await                                          *)
(***************************************************************************)

Start(c, j) ==
    /\ In(c, "idle") /\ Goto(c, "signing")
    /\ Control!Call(c, j)
    /\ UNCHANGED <<broadcastVars, saved>>

\* What sign() of the signing service leaves in the record of the job: SIGNED
\* with the signature it returns, QUARANTINED if it does not reuse one.  It also
\* fails over a SIGNED record that landed although its write threw.
StoreSigned(c) ==
    LET j == controlJob[c]
        answers == Control!At(c, "sign") \/ Control!At(c, "awaitSignature")
        returns == answers /\ controlOutcome'[c] = "signed" IN
    /\ Control!At(c, "sign") /\ returns => signed[j] = "SIGNED"
    /\ controlPc'[c] = "awaitSignature" => signed[j] = "none"
    /\ \/ signed' = IF returns THEN [signed EXCEPT ![j] = "SIGNED"] ELSE signed
       \/ /\ Control!At(c, "sign") /\ ~returns /\ signed[j] = "SIGNED"
          /\ signed' = [signed EXCEPT ![j] = "QUARANTINED"]
       \/ /\ Control!At(c, "awaitSignature") /\ j \in issued
          /\ signed' = [signed EXCEPT ![j] = "SIGNED"]

\* A passing revalidation found the job still valid.
Revalidated(c) ==
    /\ Control!At(c, "revalidate") /\ controlPc'[c] = "record" => controlJob[c] \in valid
    /\ Control!At(c, "assertExact") /\ controlPc'[c] = "sign" => controlJob[c] \in valid

Signing(c) ==
    /\ In(c, "signing")
    /\ Control!CallerStep(c) /\ StoreSigned(c) /\ Revalidated(c)
    /\ \/ controlPc'[c] # "idle" /\ UNCHANGED leg
       \/ controlPc'[c] = "idle" /\ Goto(c, IF controlOutcome'[c] = "signed"
                                          THEN "saving" ELSE "idle")
    /\ UNCHANGED <<sendVars, valid, saved>>

\* The hash goes into the record of the flow before anything is sent.
Save(c) ==
    /\ In(c, "saving")
    /\ \/ saved' = saved \cup {controlJob[c]} /\ Goto(c, "saved")
       \/ saved' \in {saved, saved \cup {controlJob[c]}} /\ Goto(c, "idle")
    /\ UNCHANGED <<controlVars, broadcastVars>>

\* send() throws if the job is locked.
Send(c) ==
    /\ In(c, "saved")
    /\ IF controlJob[c] \in locks
       THEN Goto(c, "idle") /\ UNCHANGED broadcastVars
       ELSE Goto(c, "sending") /\ Broadcast!Call(c, controlJob[c])
    /\ UNCHANGED <<controlVars, saved>>

\* Mutant: the broadcast revalidates, but not under DENY.
DenySeenAny(c) == TRUE

\* The revalidation of the broadcast asserts DENY first.
DenySeen(c) ==
    Broadcast!At(c, "revalidate") /\ broadcastPc'[c] = "record" => policy = Deny

Sending(c) ==
    /\ In(c, "sending")
    /\ Broadcast!CallerStep(c) /\ DenySeen(c)
    /\ Goto(c, IF broadcastPc'[c] = "idle" THEN "idle" ELSE "sending")
    /\ UNCHANGED <<controlVars, saved>>

CallerStep(c) == Signing(c) \/ Save(c) \/ Send(c) \/ Sending(c)

(***************************************************************************)
(* The provider, the chain, crashes and the operator                       *)
(***************************************************************************)

Crash(c) ==
    /\ ~In(c, "idle") /\ Goto(c, "idle")
    /\ IF In(c, "signing") THEN Control!Crash(c) ELSE UNCHANGED controlVars
    /\ IF In(c, "sending") THEN Broadcast!Crash(c) ELSE UNCHANGED broadcastVars
    /\ UNCHANGED saved

Provider ==
    /\ \/ \E u \in updates : Control!ApplyUpdate(u)
       \/ \E j \in Jobs : Control!ProviderSigns(j)
       \/ Control!ExternalEdit \/ Control!RemoveAbandonedLock \/ Control!Recover
    /\ UNCHANGED <<broadcastVars, legVars>>

Network ==
    /\ \E j \in Jobs : \/ Broadcast!Invalidate(j) \/ Broadcast!ChainMoves(j)
                       \/ Broadcast!RemoveAbandonedLock(j)
    /\ UNCHANGED <<controlVars, legVars>>

Next ==
    /\ \/ \E c \in Callers : (\E j \in Jobs : Start(c, j)) \/ CallerStep(c) \/ Crash(c)
       \/ Provider \/ Network
    /\ NoteCalm

Spec == Init /\ [][Next]_vars

(***************************************************************************)
(* Properties                                                              *)
(***************************************************************************)

\* The properties of the two components, in the system they make up together:
\* OperatorControl.sign() leaves the wallet able to sign only under a durable record,
\* and DurableBroadcastService.send() sends once and confirms what is buried.
RestoresDeny == Control!RestoresDeny
InterruptionIsKept == Control!InterruptionIsKept
OneSendPerJob == Broadcast!OneSendPerJob
ConfirmedIsBuried == Broadcast!ConfirmedIsBuried

\* What operatorSend hands to the network was signed in a window whose evidence is on
\* disk and under a hash that its flow can recover, was valid when the broadcast began,
\* and is sent only after the wallet was seen under DENY: whatever other calls for the
\* same job sign, quarantine or repeat between any two of its awaits.
SentSafely ==
    [][\A c \in Callers :
          Broadcast!At(c, "send") /\ Broadcast!At(c, "await")' =>
             LET j == broadcastJob[c] IN
             /\ j \in evidence \cap saved /\ signed[j] # "none"
             /\ c \notin stale /\ c \in calm]_vars

\* No call of operatorSend waits for another call, a lock or a provider that never
\* answers: in every state a running call can take its next step.
NeverStuck == \A c \in Callers : ~In(c, "idle") => ENABLED CallerStep(c)
=============================================================================
