------------------------- MODULE TransactionSigning -------------------------
(***************************************************************************)
(* DurableSigningService.sign (apps/web/src/lib/server/                    *)
(* transaction-signing.ts): sign-only jobs over the durable store, called  *)
(* concurrently, killed at any step, racing a remote signer whose answer   *)
(* can be late.  One step per await; DurableStore shows why a write can be *)
(* one step.  All plans are for one wallet on one chain, so a plan's nonce *)
(* is the key of its reservation.                                          *)
(***************************************************************************)
EXTENDS Naturals

CONSTANTS
    Callers,    \* concurrent calls of sign()
    Jobs,       \* job ids
    Nonces,
    Bodies      \* the rest of a plan; its hash is injective

Plans == [nonce: Nonces, body: Bodies]

VARIABLES
    jobs,       \* job -> [plan, state], the records job-<id>
    reserved,   \* nonce -> [job, plan], the records nonce-<chain>-<from>-<nonce>
    jobLocks, nonceLocks,   \* lock directories that exist
    pc, call,   \* caller -> where it is, and its arguments
    valid,      \* plans for which revalidate() and fresh() can still pass
    asked,      \* history: plan -> how often the signer was asked for it
    issued,     \* plans the signer has signed
    issuedStale,\* history: of those, the ones no longer valid when signed
    staleCalls, \* history: callers whose plan was invalid when they called
    outcome     \* caller -> what its last call of sign() returned

storeVars == <<jobs, reserved, jobLocks, nonceLocks>>
callVars  == <<pc, call, staleCalls, outcome>>
signerVars == <<asked, issued, issuedStale>>
vars == <<storeVars, callVars, signerVars, valid>>

JobStates == {"SIGNING", "SIGNED", "UNKNOWN", "QUARANTINED"}
Steps == {"idle", "readJob", "reuse", "check", "lockNonce", "readNonce", "reserve",
          "unlockNonce", "record", "ask", "await", "revalidate", "accept", "doubt", "unlock"}
InNonceLock == {"readNonce", "reserve", "unlockNonce"}

\* The last conjunct: a running call holds its locks.
TypeOK ==
    /\ DOMAIN jobs \subseteq Jobs
    /\ jobs \in [DOMAIN jobs -> [plan: Plans, state: JobStates]]
    /\ DOMAIN reserved \subseteq Nonces
    /\ reserved \in [DOMAIN reserved -> [job: Jobs, plan: Plans]]
    /\ jobLocks \subseteq Jobs /\ nonceLocks \subseteq Nonces
    /\ pc \in [Callers -> Steps]
    /\ call \in [Callers -> [job: Jobs, plan: Plans]]
    /\ valid \subseteq Plans
    /\ asked \in [Plans -> Nat]
    /\ issued \subseteq Plans /\ issuedStale \subseteq issued
    /\ staleCalls \subseteq Callers
    /\ outcome \in [Callers -> {"none", "signed", "error"}]
    /\ \A c \in Callers :
          /\ pc[c] # "idle" => call[c].job \in jobLocks
          /\ pc[c] \in InNonceLock => call[c].plan.nonce \in nonceLocks

Init ==
    /\ jobs = << >> /\ reserved = << >>
    /\ jobLocks = {} /\ nonceLocks = {}
    /\ pc = [c \in Callers |-> "idle"]
    /\ call \in [Callers -> [job: Jobs, plan: Plans]]
    /\ valid = Plans
    /\ asked = [p \in Plans |-> 0] /\ issued = {} /\ issuedStale = {}
    /\ staleCalls = {} /\ outcome = [c \in Callers |-> "none"]

Plan(c)  == call[c].plan
Job(c)   == call[c].job
Nonce(c) == call[c].plan.nonce
Put(f, key, value) == [k \in DOMAIN f \cup {key} |-> IF k = key THEN value ELSE f[k]]

At(c, here) == pc[c] = here
Goto(c, there) == pc' = [pc EXCEPT ![c] = there] /\ UNCHANGED <<call, staleCalls, outcome>>
Leave(c, result) ==
    /\ pc' = [pc EXCEPT ![c] = "unlock"]
    /\ outcome' = [outcome EXCEPT ![c] = result]
    /\ UNCHANGED <<call, staleCalls>>
Store(c, state) == jobs' = Put(jobs, Job(c), [plan |-> Plan(c), state |-> state])

(***************************************************************************)
(* sign(), await by await                                                  *)
(***************************************************************************)

\* A call on a locked job throws at once and changes nothing.
Call(c, j, p) ==
    /\ At(c, "idle")
    /\ j \notin jobLocks
    /\ jobLocks' = jobLocks \cup {j}
    /\ call' = [call EXCEPT ![c] = [job |-> j, plan |-> p]]
    /\ pc' = [pc EXCEPT ![c] = "readJob"]
    /\ staleCalls' = IF p \in valid THEN staleCalls \ {c} ELSE staleCalls \cup {c}
    /\ outcome' = [outcome EXCEPT ![c] = "none"]
    /\ UNCHANGED <<jobs, reserved, nonceLocks, signerVars, valid>>

\* Only a SIGNED record of the same plan is usable.
ReadJob(c) ==
    /\ At(c, "readJob")
    /\ \/ Job(c) \notin DOMAIN jobs /\ Goto(c, "check")
       \/ /\ Job(c) \in DOMAIN jobs
          /\ IF jobs[Job(c)] = [plan |-> Plan(c), state |-> "SIGNED"]
             THEN Goto(c, "reuse") ELSE Leave(c, "error")
    /\ UNCHANGED <<storeVars, signerVars, valid>>

\* Mutant: a stored signature is returned without revalidation.
ReuseUnchecked(c) ==
    /\ At(c, "reuse")
    /\ Leave(c, "signed")
    /\ UNCHANGED <<storeVars, signerVars, valid>>

\* fresh, revalidate, fresh on a stored signature: anything that throws, an RPC
\* failure included, quarantines it.
Reuse(c) ==
    /\ At(c, "reuse")
    /\ \/ Plan(c) \in valid /\ Leave(c, "signed") /\ UNCHANGED jobs
       \/ Store(c, "QUARANTINED") /\ Leave(c, "error")
    /\ UNCHANGED <<reserved, jobLocks, nonceLocks, signerVars, valid>>

Check(c) ==
    /\ At(c, "check")
    /\ \/ Plan(c) \in valid /\ Goto(c, "lockNonce")
       \/ Leave(c, "error")
    /\ UNCHANGED <<storeVars, signerVars, valid>>

LockNonce(c) ==
    /\ At(c, "lockNonce")
    /\ IF Nonce(c) \in nonceLocks
       THEN Leave(c, "error") /\ UNCHANGED nonceLocks
       ELSE nonceLocks' = nonceLocks \cup {Nonce(c)} /\ Goto(c, "readNonce")
    /\ UNCHANGED <<jobs, reserved, jobLocks, signerVars, valid>>

ReadNonce(c) ==
    /\ At(c, "readNonce")
    /\ IF Nonce(c) \in DOMAIN reserved
       THEN nonceLocks' = nonceLocks \ {Nonce(c)} /\ Leave(c, "error")
       ELSE Goto(c, "reserve") /\ UNCHANGED nonceLocks
    /\ UNCHANGED <<jobs, reserved, jobLocks, signerVars, valid>>

\* Mutant: the reservation is not written down.
ReserveInMemory(c) ==
    /\ At(c, "reserve")
    /\ Goto(c, "unlockNonce")
    /\ UNCHANGED <<storeVars, signerVars, valid>>

Reserve(c) ==
    /\ At(c, "reserve")
    /\ reserved' = Put(reserved, Nonce(c), call[c])
    /\ Goto(c, "unlockNonce")
    /\ UNCHANGED <<jobs, jobLocks, nonceLocks, signerVars, valid>>

UnlockNonce(c) ==
    /\ At(c, "unlockNonce")
    /\ nonceLocks' = nonceLocks \ {Nonce(c)}
    /\ Goto(c, "record")
    /\ UNCHANGED <<jobs, reserved, jobLocks, signerVars, valid>>

Record(c) ==
    /\ At(c, "record")
    /\ Store(c, "SIGNING")
    /\ Goto(c, "ask")
    /\ UNCHANGED <<reserved, jobLocks, nonceLocks, signerVars, valid>>

\* A record cannot be written: the call fails with whatever it had stored, and
\* its locks are released on the way out.
WriteFails(c) ==
    /\ pc[c] \in {"reuse", "reserve", "record", "await", "revalidate", "accept", "doubt"}
    /\ nonceLocks' = IF At(c, "reserve") THEN nonceLocks \ {Nonce(c)} ELSE nonceLocks
    /\ Leave(c, "error")
    /\ UNCHANGED <<jobs, reserved, jobLocks, signerVars, valid>>

\* The directory cannot be flushed: the record is there, and write() throws all
\* the same.  (In the other steps that write, the call ends as if it had not.)
WriteLands(c) ==
    /\ \/ /\ At(c, "reserve") /\ Leave(c, "error")
          /\ reserved' = Put(reserved, Nonce(c), call[c])
          /\ nonceLocks' = nonceLocks \ {Nonce(c)} /\ UNCHANGED jobs
       \/ /\ \/ At(c, "record") /\ Store(c, "SIGNING") /\ Leave(c, "error")
             \/ At(c, "accept") /\ Store(c, "SIGNED") /\ Goto(c, "doubt")
          /\ UNCHANGED <<reserved, nonceLocks>>
    /\ UNCHANGED <<jobLocks, signerVars, valid>>

Ask(c) ==
    /\ At(c, "ask")
    /\ asked' = [asked EXCEPT ![Plan(c)] = @ + 1]
    /\ Goto(c, "await")
    /\ UNCHANGED <<storeVars, issued, issuedStale, valid>>

\* The signer's answer wins the race and verifies against the plan.
Answer(c) ==
    /\ At(c, "await")
    /\ Plan(c) \in issued
    /\ Goto(c, "revalidate")
    /\ UNCHANGED <<storeVars, signerVars, valid>>

\* Mutant: a failed or timed-out job is marked as if never requested.
GiveUpForgetting(c) ==
    /\ pc[c] \in {"await", "accept"}
    /\ jobs' = [j \in DOMAIN jobs \ {Job(c)} |-> jobs[j]]
    /\ reserved' = [n \in DOMAIN reserved \ {Nonce(c)} |-> reserved[n]]
    /\ Leave(c, "error")
    /\ UNCHANGED <<jobLocks, nonceLocks, signerVars, valid>>

\* Timeout, a provider error, an answer that does not verify, or a SIGNED record
\* that may not have been written: UNKNOWN, and a late signature is discarded.
GiveUp(c) ==
    /\ pc[c] \in {"await", "accept", "doubt"}
    /\ Store(c, "UNKNOWN")
    /\ Leave(c, "error")
    /\ UNCHANGED <<reserved, jobLocks, nonceLocks, signerVars, valid>>

\* Mutant: the preconditions are not checked again after signing.
RevalidateNever(c) ==
    /\ At(c, "revalidate")
    /\ Goto(c, "accept") /\ UNCHANGED jobs
    /\ UNCHANGED <<reserved, jobLocks, nonceLocks, signerVars, valid>>

Revalidate(c) ==
    /\ At(c, "revalidate")
    /\ \/ Plan(c) \in valid /\ Goto(c, "accept") /\ UNCHANGED jobs
       \/ Store(c, "QUARANTINED") /\ Leave(c, "error")
    /\ UNCHANGED <<reserved, jobLocks, nonceLocks, signerVars, valid>>

Accept(c) ==
    /\ At(c, "accept")
    /\ Store(c, "SIGNED")
    /\ Leave(c, "signed")
    /\ UNCHANGED <<reserved, jobLocks, nonceLocks, signerVars, valid>>

Unlock(c) ==
    /\ At(c, "unlock")
    /\ jobLocks' = jobLocks \ {Job(c)}
    /\ Goto(c, "idle")
    /\ UNCHANGED <<jobs, reserved, nonceLocks, signerVars, valid>>

CallerStep(c) ==
    \/ ReadJob(c) \/ Reuse(c) \/ Check(c) \/ LockNonce(c) \/ ReadNonce(c) \/ Reserve(c)
    \/ UnlockNonce(c) \/ Record(c) \/ WriteFails(c) \/ WriteLands(c) \/ Ask(c) \/ Answer(c)
    \/ GiveUp(c) \/ Revalidate(c) \/ Accept(c) \/ Unlock(c)

(***************************************************************************)
(* The world around the calls                                              *)
(***************************************************************************)

\* The process dies; its lock directories stay.
Crash(c) ==
    /\ ~At(c, "idle")
    /\ pc' = [pc EXCEPT ![c] = "idle"]
    /\ outcome' = [outcome EXCEPT ![c] = "none"]
    /\ UNCHANGED <<call, staleCalls, storeVars, signerVars, valid>>

\* The operator inspects a lock no live call holds, and removes it.
RemoveAbandonedLock ==
    /\ \/ \E j \in jobLocks :
             /\ \A c \in Callers : Job(c) = j => At(c, "idle")
             /\ jobLocks' = jobLocks \ {j} /\ UNCHANGED nonceLocks
       \/ \E n \in nonceLocks :
             /\ \A c \in Callers : Nonce(c) = n => pc[c] \notin InNonceLock
             /\ nonceLocks' = nonceLocks \ {n} /\ UNCHANGED jobLocks
    /\ UNCHANGED <<jobs, reserved, callVars, signerVars, valid>>

\* The remote signer signs what it was asked for, at any later time, also when
\* the caller has timed out or died; the idempotency key makes it one signature.
SignerSigns(p) ==
    /\ asked[p] > 0 /\ p \notin issued
    /\ issued' = issued \cup {p}
    /\ issuedStale' = IF p \in valid THEN issuedStale ELSE issuedStale \cup {p}
    /\ UNCHANGED <<asked, storeVars, callVars, valid>>

\* The plan expires, or the state, role or nonce it was reviewed against moves:
\* each of these is for ever.
Invalidate(p) ==
    /\ p \in valid
    /\ valid' = valid \ {p}
    /\ UNCHANGED <<storeVars, callVars, signerVars>>

Next ==
    \/ \E c \in Callers : \/ \E j \in Jobs, p \in Plans : Call(c, j, p)
                          \/ CallerStep(c)
                          \/ Crash(c)
    \/ RemoveAbandonedLock
    \/ \E p \in Plans : SignerSigns(p) \/ Invalidate(p)

Spec == Init /\ [][Next]_vars

(***************************************************************************)
(* Properties                                                              *)
(***************************************************************************)

\* The remote signer is asked at most once for each nonce of the wallet, and so
\* never for two transactions that would replace each other, whatever calls
\* race, crash, time out or are repeated with another job id or plan.
OneRequestPerNonce ==
    \A p, q \in Plans :
        p.nonce = q.nonce /\ asked[p] > 0 /\ asked[q] > 0 => p = q /\ asked[p] = 1

\* A job is SIGNED only if its plan was still valid when the signature was made:
\* a change between review and signature is caught by the second revalidation.
SignedWhileValid ==
    \A j \in DOMAIN jobs :
        jobs[j].state = "SIGNED" => jobs[j].plan \in issued \ issuedStale

\* sign() never succeeds for a plan that was already invalid when it was called,
\* a signature found in the store included.
SuccessIsFresh == \A c \in Callers : outcome[c] = "signed" => c \notin staleCalls

\* UNKNOWN and QUARANTINED are final, a job never changes its plan and is never
\* signed anew, and a reserved nonce stays with its job.
NoAutomaticRetry ==
    [][/\ \A j \in DOMAIN jobs :
            /\ j \in DOMAIN jobs' /\ jobs'[j].plan = jobs[j].plan
            /\ jobs[j].state \in {"UNKNOWN", "QUARANTINED"} => jobs'[j] = jobs[j]
            /\ jobs[j].state = "SIGNED" => jobs'[j].state # "SIGNING"
       /\ \A n \in DOMAIN reserved : n \in DOMAIN reserved' /\ reserved'[n] = reserved[n]]_vars

\* Seen without its callers, sign() does one of the steps of SignOnce at a time:
\* the nonce is bound before the record is opened, the record is opened before
\* the signer is asked, and no crash, timeout or second caller leads back.
Promise == INSTANCE SignOnce WITH bound <- reserved, stale <- issuedStale
ImplementsSignOnce == Promise!Spec

=============================================================================
