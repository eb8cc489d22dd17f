--------------------------- MODULE OperatorControl ---------------------------
(***************************************************************************)
(* OperatorControl.sign (apps/web/src/lib/server/operator-control.ts): the *)
(* window in which the remote wallet policy allows one exact intent.  The  *)
(* policy is DENY at rest; a call installs the exact policy of its plan,   *)
(* has it signed, and restores DENY in its finally.  Policy updates are    *)
(* remote requests with a client timeout and no retry; a call may be       *)
(* killed at any await, and somebody else may edit the policy.  A job has  *)
(* one plan, so a job stands for its exact policy too.  What               *)
(* DurableSigningService does in the window is TransactionSigning.         *)
(***************************************************************************)
CONSTANTS
    Callers, Jobs,
    Deny, Foreign,  \* the lock policy, and any policy nobody here installs
    NoJob,          \* no "interrupted" record
    LateUpdates     \* may an update land after its client gave up on it?

\* Assumed by every theorem.
ConstantsApart == {Deny, Foreign, NoJob} \cap Jobs = {} /\ Deny # Foreign

VARIABLES
    policy,         \* the policy the provider applies
    updates,        \* <<caller, policy>> requests the provider has yet to apply
    asking,         \* jobs with a live request for a signature
    issued,         \* jobs whose plan the provider has signed
    locked,         \* the lock directory of "policy" exists
    interrupted,    \* the job of the "interrupted" record
    evidence,       \* jobs with a signed-<job> record: restoredDeny
    pc, job, outcome

storeVars == <<locked, interrupted, evidence>>
remoteVars == <<policy, updates, asking, issued>>
callVars == <<pc, job, outcome>>
vars == <<storeVars, remoteVars, callVars>>

Policies == Jobs \cup {Deny, Foreign}
Steps == {"idle", "readInterrupted", "assertDeny", "revalidate", "record", "install",
          "awaitInstall", "assertExact", "sign", "awaitSignature", "observe", "restore",
          "awaitRestore", "assertRestored", "clear", "writeEvidence", "unlock"}

\* The last conjunct: a running call holds the lock, alone.
TypeOK ==
    /\ policy \in Policies
    /\ updates \subseteq Callers \X (Jobs \cup {Deny})
    /\ asking \subseteq Jobs /\ issued \subseteq Jobs /\ evidence \subseteq Jobs
    /\ locked \in BOOLEAN
    /\ interrupted \in Jobs \cup {NoJob}
    /\ pc \in [Callers -> Steps] /\ job \in [Callers -> Jobs]
    /\ outcome \in [Callers -> {"signed", "error"}]
    /\ \A c, d \in Callers : pc[c] # "idle" => locked /\ (pc[d] # "idle" => c = d)

Init ==
    /\ policy = Deny /\ updates = {} /\ asking = {} /\ issued = {}
    /\ locked = FALSE /\ interrupted = NoJob /\ evidence = {}
    /\ pc = [c \in Callers |-> "idle"]
    /\ job \in [Callers -> Jobs]
    /\ outcome = [c \in Callers |-> "error"]

At(c, here) == pc[c] = here
Goto(c, there) == pc' = [pc EXCEPT ![c] = there] /\ UNCHANGED <<job, outcome>>
\* On to `there` with the result the call will have once its finally is through.
Resolve(c, result, there) ==
    /\ outcome' = [outcome EXCEPT ![c] = result]
    /\ pc' = [pc EXCEPT ![c] = there]
    /\ UNCHANGED job
Throw(c, there) == Resolve(c, "error", there)

(***************************************************************************)
(* sign(), await by await                                                  *)
(***************************************************************************)

Call(c, j) ==
    /\ At(c, "idle") /\ ~locked /\ locked' = TRUE
    /\ job' = [job EXCEPT ![c] = j]
    /\ pc' = [pc EXCEPT ![c] = "readInterrupted"]
    /\ outcome' = [outcome EXCEPT ![c] = "error"]
    /\ UNCHANGED <<interrupted, evidence, remoteVars>>

\* Mutant: what an earlier call left interrupted is ignored.
ReadNothing(c) ==
    /\ At(c, "readInterrupted") /\ Goto(c, "assertDeny")
    /\ UNCHANGED <<storeVars, remoteVars>>

ReadInterrupted(c) ==
    /\ At(c, "readInterrupted")
    /\ IF interrupted = NoJob THEN Goto(c, "assertDeny") ELSE Throw(c, "unlock")
    /\ UNCHANGED <<storeVars, remoteVars>>

\* assertPolicy() and revalidate(); each may also fail on its own.
AssertDeny(c) ==
    /\ At(c, "assertDeny")
    /\ \/ policy = Deny /\ Goto(c, "revalidate")
       \/ Throw(c, "unlock")
    /\ UNCHANGED <<storeVars, remoteVars>>

RevalidateFirst(c) ==
    /\ At(c, "revalidate")
    /\ Goto(c, "record") \/ Throw(c, "unlock")
    /\ UNCHANGED <<storeVars, remoteVars>>

\* Mutant: the record is written once the policy has been installed.
RecordLater(c) ==
    /\ At(c, "record") /\ Goto(c, "install")
    /\ UNCHANGED <<storeVars, remoteVars>>

\* The record goes to disk before anything can be installed.  Here and below, a
\* write that throws has replaced the record or not (DurableStore).
RecordInterrupted(c) ==
    /\ At(c, "record")
    /\ \/ interrupted' = job[c] /\ Goto(c, "install")
       \/ interrupted' \in {interrupted, job[c]} /\ Throw(c, "unlock")
    /\ UNCHANGED <<locked, evidence, remoteVars>>

Install(c) ==
    /\ At(c, "install")
    /\ updates' = updates \cup {<<c, job[c]>>}
    /\ Goto(c, "awaitInstall")
    /\ UNCHANGED <<storeVars, policy, asking, issued>>

\* An update is answered once applied; otherwise the client times out, and only
\* with LateUpdates can the provider still apply it.
Applied(c, p) == <<c, p>> \notin updates
TimesOut(c, p) ==
    IF LateUpdates THEN UNCHANGED updates ELSE updates' = updates \ {<<c, p>>}

\* Mutant: the client has no timeout.
AwaitInstallForever(c) ==
    /\ At(c, "awaitInstall")
    /\ Applied(c, job[c]) /\ Goto(c, "assertExact")
    /\ UNCHANGED <<storeVars, remoteVars>>

AwaitInstall(c) ==
    /\ At(c, "awaitInstall")
    /\ \/ Applied(c, job[c]) /\ Goto(c, "assertExact") /\ UNCHANGED updates
       \/ TimesOut(c, job[c]) /\ Throw(c, "observe")
    /\ UNCHANGED <<storeVars, policy, asking, issued>>

\* assertPolicy(policy) and revalidate()
AssertExact(c) ==
    /\ At(c, "assertExact")
    /\ \/ policy = job[c] /\ Goto(c, "sign")
       \/ Throw(c, "observe")
    /\ UNCHANGED <<storeVars, remoteVars>>

\* signs.sign: a stored signature, a refusal, or a request to the provider.
Sign(c) ==
    /\ At(c, "sign")
    /\ \/ job[c] \in issued /\ Resolve(c, "signed", "observe") /\ UNCHANGED asking
       \/ Throw(c, "observe") /\ UNCHANGED asking
       \/ job[c] \notin issued /\ asking' = asking \cup {job[c]} /\ Goto(c, "awaitSignature")
    /\ UNCHANGED <<storeVars, policy, updates, issued>>

\* A timeout does not cancel the request.
AwaitSignature(c) ==
    /\ At(c, "awaitSignature")
    /\ \/ job[c] \in issued /\ Resolve(c, "signed", "observe")
       \/ Throw(c, "observe")
    /\ UNCHANGED <<storeVars, remoteVars>>

\* The finally: the policy as the provider reports it now decides.  A failed
\* read, or a policy that is neither, leaves the record for the operator.
Observe(c) ==
    /\ At(c, "observe")
    /\ \/ policy = job[c] /\ Goto(c, "restore")
       \/ policy = Deny /\ Goto(c, "assertRestored")
       \/ Throw(c, "unlock")
    /\ UNCHANGED <<storeVars, remoteVars>>

Restore(c) ==
    /\ At(c, "restore")
    /\ updates' = updates \cup {<<c, Deny>>}
    /\ Goto(c, "awaitRestore")
    /\ UNCHANGED <<storeVars, policy, asking, issued>>

AwaitRestore(c) ==
    /\ At(c, "awaitRestore")
    /\ \/ Applied(c, Deny) /\ Goto(c, "assertRestored") /\ UNCHANGED updates
       \/ TimesOut(c, Deny) /\ Throw(c, "unlock")
    /\ UNCHANGED <<storeVars, policy, asking, issued>>

AssertRestored(c) ==
    /\ At(c, "assertRestored")
    /\ \/ policy = Deny /\ Goto(c, "clear")
       \/ Throw(c, "unlock")
    /\ UNCHANGED <<storeVars, remoteVars>>

ClearInterrupted(c) ==
    /\ At(c, "clear")
    /\ \/ interrupted' = NoJob /\ Goto(c, "writeEvidence")
       \/ interrupted' \in {interrupted, NoJob} /\ Throw(c, "unlock")
    /\ UNCHANGED <<locked, evidence, remoteVars>>

WriteEvidence(c) ==
    /\ At(c, "writeEvidence")
    /\ \/ evidence' = evidence \cup {job[c]} /\ Goto(c, "unlock")
       \/ evidence' \in {evidence, evidence \cup {job[c]}} /\ Throw(c, "unlock")
    /\ UNCHANGED <<locked, interrupted, remoteVars>>

Unlock(c) ==
    /\ At(c, "unlock")
    /\ locked' = FALSE
    /\ Goto(c, "idle")
    /\ UNCHANGED <<interrupted, evidence, remoteVars>>

CallerStep(c) ==
    \/ ReadInterrupted(c) \/ AssertDeny(c) \/ RevalidateFirst(c) \/ RecordInterrupted(c)
    \/ Install(c) \/ AwaitInstall(c) \/ AssertExact(c) \/ Sign(c) \/ AwaitSignature(c)
    \/ Observe(c) \/ Restore(c) \/ AwaitRestore(c) \/ AssertRestored(c)
    \/ ClearInterrupted(c) \/ WriteEvidence(c) \/ Unlock(c)

(***************************************************************************)
(* The provider, crashes and the operator                                  *)
(***************************************************************************)

\* With LateUpdates a request whose client is gone may be applied again.
ApplyUpdate(u) ==
    /\ u \in updates
    /\ policy' = u[2]
    /\ updates' = updates \ {u}
    /\ UNCHANGED <<asking, issued, storeVars, callVars>>

\* privySigner reads the policy before it asks and the provider applies it when
\* it signs: both see the exact policy of the job.
ProviderSigns(j) ==
    /\ j \in asking /\ policy = j
    /\ issued' = issued \cup {j}
    /\ asking' = asking \ {j}
    /\ UNCHANGED <<policy, updates, storeVars, callVars>>

ExternalEdit ==
    /\ policy' = Foreign
    /\ UNCHANGED <<updates, asking, issued, storeVars, callVars>>

\* The process dies with its connections; an update already sent may still land,
\* and so may the signature.
Crash(c) ==
    /\ ~At(c, "idle")
    /\ Throw(c, "idle")
    /\ updates' \in {updates, {u \in updates : u[1] # c}}
    /\ UNCHANGED <<policy, asking, issued, storeVars>>

\* With no call running, the operator removes the abandoned lock.
RemoveAbandonedLock ==
    /\ locked /\ \A c \in Callers : At(c, "idle")
    /\ locked' = FALSE
    /\ UNCHANGED <<interrupted, evidence, remoteVars, callVars>>

\* Manual recovery, in the provider's console and on the disk: no request is
\* left, the policy is DENY again, then the record is removed.
Recover ==
    /\ \A c \in Callers : At(c, "idle")
    /\ policy' = Deny /\ updates' = {} /\ asking' = {}
    /\ interrupted' = NoJob
    /\ UNCHANGED <<issued, locked, evidence, callVars>>

Next ==
    \/ \E c \in Callers : (\E j \in Jobs : Call(c, j)) \/ CallerStep(c) \/ Crash(c)
    \/ \E u \in updates : ApplyUpdate(u)
    \/ \E j \in Jobs : ProviderSigns(j)
    \/ ExternalEdit \/ RemoveAbandonedLock \/ Recover

Spec == Init /\ [][Next]_vars

(***************************************************************************)
(* Properties                                                              *)
(***************************************************************************)

\* Whenever the wallet can sign something, a durable record says so: through
\* crashes, timeouts and failed restorations, the exact policy is never in
\* place without the "interrupted" record of its own job, which stops every
\* other call.  Once a call returns without leaving the record, DENY is back.
RestoresDeny == policy \in Jobs => interrupted = policy

\* Between the write of the record and its removal.
Window == Steps \ {"idle", "readInterrupted", "assertDeny", "revalidate", "record",
                   "writeEvidence", "unlock"}

\* What a step may do while a record stands.
RecordStands ==
    interrupted \in Jobs =>
       /\ \A c \in Callers : pc'[c] \in Window => pc[c] \in Window
       /\ interrupted' # interrupted =>
             /\ interrupted' = NoJob
             /\ \/ \E c \in Callers : At(c, "clear") /\ job[c] = interrupted
                \/ \A c \in Callers : At(c, "idle")
             /\ LateUpdates = FALSE => policy' \notin Jobs

\* While a record stands, no other call opens a window: what a call left open that died
\* or failed stays on record, for calls of its own job too, until the operator closes it
\* while no call runs.  A call removes the record of its own window only; no exact policy
\* is in place then, unless the provider applies updates late.
InterruptionIsKept == [][RecordStands]_vars
=============================================================================
