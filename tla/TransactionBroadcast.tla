------------------------ MODULE TransactionBroadcast ------------------------
(***************************************************************************)
(* DurableBroadcastService.send (apps/web/src/lib/server/                  *)
(* transaction-broadcast.ts): the one transaction of a signed job is sent  *)
(* at most once, and followed by its hash from then on.  One step per      *)
(* await; calls race, crash and are repeated, the node's answer may be     *)
(* lost, a transaction may be dropped, revert or be reorganised away.  A   *)
(* job has one plan, and its signed transaction is named by the job.       *)
(***************************************************************************)
EXTENDS Naturals

CONSTANTS Callers, Jobs

VARIABLES
    records,    \* job -> state of its record broadcast-<job>, or "none"
    locks,      \* lock directories that exist
    signed,     \* job -> state of the signing job, or "none"
    valid,      \* jobs for which revalidate() and the expiry check can pass
    chain,      \* job -> where its transaction is
    sent,       \* history: job -> how often sendRawTransaction was called
    buried,     \* history: jobs whose transaction has had two confirmations
    pc, job, outcome,
    stale       \* history: callers whose job was invalid when they called

callVars == <<pc, job, outcome, stale>>
netVars == <<chain, sent, buried>>
world == <<signed, valid, netVars>>
vars == <<records, locks, world, callVars>>

RecordStates == {"none", "BROADCASTING", "SUBMITTED", "UNKNOWN", "CONFIRMED"}
\* Mined or reverted, and with two confirmations deepMined or deepReverted.
Places == {"absent", "pool", "mined", "deepMined", "reverted", "deepReverted"}
Deep == {"deepMined", "deepReverted"}
Moves == {<<"absent", "pool">>, <<"pool", "absent">>, <<"pool", "mined">>,
          <<"pool", "reverted">>, <<"mined", "deepMined">>, <<"reverted", "deepReverted">>}
            \cup (Places \ {"absent", "pool"}) \X {"pool"}
Steps == {"idle", "readPrior", "verifyPrior", "readSigned", "revalidate", "record",
          "send", "await", "wait", "verify", "confirm", "unlock"}

\* The last conjunct: a running call holds the lock of its job.
TypeOK ==
    /\ records \in [Jobs -> RecordStates]
    /\ locks \subseteq Jobs
    /\ signed \in [Jobs -> {"none", "SIGNED", "QUARANTINED"}]
    /\ valid \subseteq Jobs
    /\ chain \in [Jobs -> Places]
    /\ sent \in [Jobs -> Nat] /\ buried \subseteq Jobs
    /\ pc \in [Callers -> Steps] /\ job \in [Callers -> Jobs]
    /\ outcome \in [Callers -> {"none", "receipt", "error"}] /\ stale \subseteq Callers
    /\ \A c \in Callers : pc[c] # "idle" => job[c] \in locks

Init ==
    /\ records = [j \in Jobs |-> "none"] /\ locks = {}
    /\ signed = [j \in Jobs |-> "none"] /\ valid = Jobs
    /\ chain = [j \in Jobs |-> "absent"] /\ sent = [j \in Jobs |-> 0] /\ buried = {}
    /\ pc = [c \in Callers |-> "idle"] /\ job \in [Callers -> Jobs]
    /\ outcome = [c \in Callers |-> "none"] /\ stale = {}

At(c, here) == pc[c] = here
Goto(c, there) == pc' = [pc EXCEPT ![c] = there] /\ UNCHANGED <<job, outcome, stale>>
Leave(c, result) ==
    /\ pc' = [pc EXCEPT ![c] = "unlock"]
    /\ outcome' = [outcome EXCEPT ![c] = result]
    /\ UNCHANGED <<job, stale>>
Throw(c) == Leave(c, "error")
Store(c, state) == records' = [records EXCEPT ![job[c]] = state]
\* A write that throws has replaced the record or not (DurableStore).
StoreThrows(c, state) == Throw(c) /\ (Store(c, state) \/ UNCHANGED records)

(***************************************************************************)
(* send(), await by await                                                  *)
(***************************************************************************)

Call(c, j) ==
    /\ At(c, "idle")
    /\ j \notin locks /\ locks' = locks \cup {j}
    /\ job' = [job EXCEPT ![c] = j]
    /\ pc' = [pc EXCEPT ![c] = "readPrior"]
    /\ outcome' = [outcome EXCEPT ![c] = "none"]
    /\ stale' = IF j \in valid THEN stale \ {c} ELSE stale \cup {c}
    /\ UNCHANGED <<records, world>>

\* Only a confirmed record is followed up; any other needs receipt recovery.
ReadPrior(c) ==
    /\ At(c, "readPrior")
    /\ CASE records[job[c]] = "none"      -> Goto(c, "readSigned")
         [] records[job[c]] = "CONFIRMED" -> Goto(c, "verifyPrior")
         [] OTHER                         -> Throw(c)
    /\ UNCHANGED <<records, locks, world>>

\* verifyMinedTransaction: a canonical block holds it and its receipt succeeded.
\* RPC failures throw like a mismatch.
Mined(j) == chain[j] \in {"mined", "deepMined"}

VerifyPrior(c) ==
    /\ At(c, "verifyPrior")
    /\ \/ Mined(job[c]) /\ Leave(c, "receipt")
       \/ Throw(c)
    /\ UNCHANGED <<records, locks, world>>

ReadSigned(c) ==
    /\ At(c, "readSigned")
    /\ IF signed[job[c]] = "SIGNED" THEN Goto(c, "revalidate") ELSE Throw(c)
    /\ UNCHANGED <<records, locks, world>>

Revalidate(c) ==
    /\ At(c, "revalidate")
    /\ \/ job[c] \in valid /\ Goto(c, "record")
       \/ Throw(c)
    /\ UNCHANGED <<records, locks, world>>

Record(c) ==
    /\ At(c, "record")
    /\ \/ Store(c, "BROADCASTING") /\ Goto(c, "send")
       \/ StoreThrows(c, "BROADCASTING")
    /\ UNCHANGED <<locks, world>>

SendRaw(c) ==
    /\ At(c, "send")
    /\ sent' = [sent EXCEPT ![job[c]] = @ + 1]
    /\ Goto(c, "await")
    /\ UNCHANGED <<records, locks, signed, valid, chain, buried>>

\* Mutant: a failed request is sent again.
AwaitSendRetrying(c) ==
    /\ At(c, "await")
    /\ \/ chain[job[c]] # "absent" /\ Store(c, "SUBMITTED") /\ Goto(c, "wait")
       \/ Goto(c, "send") /\ UNCHANGED records
    /\ UNCHANGED <<locks, world>>

\* The node's answer carries the expected hash and SUBMITTED is written; an
\* error, a lost answer or a failed write is UNKNOWN, if that can be written,
\* else what is there stays.
AwaitSend(c) ==
    /\ At(c, "await")
    /\ \/ chain[job[c]] # "absent" /\ Store(c, "SUBMITTED") /\ Goto(c, "wait")
       \/ StoreThrows(c, "UNKNOWN")
       \/ chain[job[c]] # "absent" /\ Store(c, "SUBMITTED") /\ Throw(c)
    /\ UNCHANGED <<locks, world>>

\* Mutant: one confirmation will do.
WaitReceiptOnce(c) ==
    /\ At(c, "wait")
    /\ \/ Mined(job[c]) /\ Goto(c, "verify")
       \/ Throw(c)
    /\ UNCHANGED <<records, locks, world>>

\* Two confirmations, whatever the status of the receipt, or 60 seconds.
WaitReceipt(c) ==
    /\ At(c, "wait")
    /\ \/ chain[job[c]] \in Deep /\ Goto(c, "verify")
       \/ Throw(c)
    /\ UNCHANGED <<records, locks, world>>

VerifyMined(c) ==
    /\ At(c, "verify")
    /\ \/ Mined(job[c]) /\ Goto(c, "confirm")
       \/ Throw(c)
    /\ UNCHANGED <<records, locks, world>>

Confirm(c) ==
    /\ At(c, "confirm")
    /\ \/ Store(c, "CONFIRMED") /\ Leave(c, "receipt")
       \/ StoreThrows(c, "CONFIRMED")
    /\ UNCHANGED <<locks, world>>

Unlock(c) ==
    /\ At(c, "unlock")
    /\ locks' = locks \ {job[c]}
    /\ Goto(c, "idle")
    /\ UNCHANGED <<records, world>>

CallerStep(c) ==
    \/ ReadPrior(c) \/ VerifyPrior(c) \/ ReadSigned(c) \/ Revalidate(c) \/ Record(c)
    \/ SendRaw(c) \/ AwaitSend(c) \/ WaitReceipt(c) \/ VerifyMined(c) \/ Confirm(c) \/ Unlock(c)

(***************************************************************************)
(* The signing store, the chain, crashes                                   *)
(***************************************************************************)

\* TransactionSigning: a job becomes SIGNED, and may be quarantined by a call
\* that wanted to reuse it.
SigningStore(j) ==
    /\ \/ signed[j] = "none" /\ signed' = [signed EXCEPT ![j] = "SIGNED"]
       \/ signed[j] = "SIGNED" /\ signed' = [signed EXCEPT ![j] = "QUARANTINED"]
    /\ UNCHANGED <<records, locks, valid, netVars, callVars>>

Invalidate(j) ==
    /\ j \in valid /\ valid' = valid \ {j}
    /\ UNCHANGED <<records, locks, signed, netVars, callVars>>

\* A transaction that was sent reaches the pool, late or never, leaves it, is
\* mined with either outcome, confirmed, or reorganised back into the pool.
ChainMoves(j) ==
    /\ \E move \in Moves :
          /\ chain[j] = move[1] /\ chain' = [chain EXCEPT ![j] = move[2]]
          /\ buried' = IF move[2] \in Deep THEN buried \cup {j} ELSE buried
    /\ sent[j] > 0
    /\ UNCHANGED <<records, locks, signed, valid, sent, callVars>>

Crash(c) ==
    /\ ~At(c, "idle")
    /\ pc' = [pc EXCEPT ![c] = "idle"]
    /\ outcome' = [outcome EXCEPT ![c] = "none"]
    /\ UNCHANGED <<job, stale, records, locks, world>>

RemoveAbandonedLock(j) ==
    /\ j \in locks /\ \A c \in Callers : job[c] = j => At(c, "idle")
    /\ locks' = locks \ {j}
    /\ UNCHANGED <<records, callVars, world>>

Next ==
    \/ \E c \in Callers : (\E j \in Jobs : Call(c, j)) \/ CallerStep(c) \/ Crash(c)
    \/ \E j \in Jobs : \/ SigningStore(j) \/ Invalidate(j) \/ ChainMoves(j)
                       \/ RemoveAbandonedLock(j)

Spec == Init /\ [][Next]_vars

(***************************************************************************)
(* Properties                                                              *)
(***************************************************************************)

\* A transaction is handed to the network at most once, through crashes, lost
\* answers, drops, reorganisations and repeated calls, and never before the record
\* with its hash, which receipt recovery reads, is on disk.
OneSendPerJob == \A j \in Jobs : sent[j] <= 1 /\ (sent[j] > 0 => records[j] # "none")

\* What is sent was signed and, when the call began, still valid: a state change
\* or an expiry between signing and broadcasting stops the transaction.
SendIsFresh ==
    [][\A c \in Callers :
          At(c, "send") /\ At(c, "await")' => c \notin stale /\ signed[job[c]] # "none"]_vars

\* A record says CONFIRMED only of a transaction that had two confirmations, and
\* says so for ever; every other state of a record only moves forward.
ConfirmedIsBuried ==
    [][\A j \in Jobs :
          /\ records[j] # "none" => records'[j] # "none"
          /\ records[j] \in {"UNKNOWN", "CONFIRMED"} => records'[j] = records[j]
          /\ records'[j] = "CONFIRMED" => j \in buried]_vars

=============================================================================
