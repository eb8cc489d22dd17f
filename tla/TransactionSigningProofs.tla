---------------------- MODULE TransactionSigningProofs ----------------------
(***************************************************************************)
(* Theorems about TransactionSigning for every set of callers, jobs,       *)
(* nonces and plans.                                                       *)
(*                                                                         *)
(* A call acts on what it read some awaits ago.  Knows(c) says what is     *)
(* still true of it, step by step: the job's record and the reservation of *)
(* the nonce are as this call left them, because the locks keep every      *)
(* other call away from them.  Requested ties each request to the signer   *)
(* to the reservation made for it, which nothing ever removes.             *)
(***************************************************************************)
EXTENDS TransactionSigning, TLAPS

\* Two running calls have different jobs, two in the nonce section different nonces.
Apart ==
    \A c, d \in Callers : c # d =>
        /\ pc[c] # "idle" /\ pc[d] # "idle" => Job(c) # Job(d)
        /\ pc[c] \in InNonceLock /\ pc[d] \in InNonceLock => Nonce(c) # Nonce(d)

Unrecorded == {"check", "lockNonce", "readNonce", "reserve", "unlockNonce", "record"}
Recorded   == {"ask", "await", "revalidate", "accept"}
Holding    == {"unlockNonce", "record"} \cup Recorded

Knows(c) ==
    /\ pc[c] \in {"reuse", "doubt"} => Job(c) \in DOMAIN jobs /\ jobs[Job(c)] = [plan |-> Plan(c), state |-> "SIGNED"]
    /\ pc[c] \in Unrecorded => Job(c) \notin DOMAIN jobs
    /\ pc[c] \in Recorded => Job(c) \in DOMAIN jobs /\ jobs[Job(c)] = [plan |-> Plan(c), state |-> "SIGNING"]
    /\ pc[c] = "reserve" => Nonce(c) \notin DOMAIN reserved
    /\ pc[c] \in Holding => Nonce(c) \in DOMAIN reserved /\ reserved[Nonce(c)] = call[c]
    /\ pc[c] = "ask" => asked[Plan(c)] = 0
    /\ pc[c] \in {"revalidate", "accept"} => Plan(c) \in issued
    /\ pc[c] = "accept" => Plan(c) \notin issuedStale /\ c \notin staleCalls
    /\ pc[c] # "idle" /\ c \in staleCalls => Plan(c) \notin valid

Knowledge == \A c \in Callers : Knows(c)

\* What the signer was asked for holds its nonce, for a job that is on record.
Requested ==
    \A p \in Plans : asked[p] > 0 =>
        /\ asked[p] = 1
        /\ p.nonce \in DOMAIN reserved /\ reserved[p.nonce].plan = p
        /\ reserved[p.nonce].job \in DOMAIN jobs

StaleIsInvalid == issuedStale \cap valid = {}

IInv ==
    /\ TypeOK
    /\ Apart
    /\ Knowledge
    /\ Requested
    /\ StaleIsInvalid
    /\ SignedWhileValid
    /\ SuccessIsFresh

-----------------------------------------------------------------------------
(* What one step of a call does                                            *)

\* Storing one record keeps the table's type.
LEMMA PutKeepsType ==
    ASSUME NEW S, NEW f, f \in [DOMAIN f -> S], NEW k, NEW v \in S
    PROVE  Put(f, k, v) \in [DOMAIN Put(f, k, v) -> S]
  BY DEF Put

\* The record a call writes at each of its steps.
Writes(step, state) ==
    \/ step = "record" /\ state = "SIGNING"
    \/ step = "reuse" /\ state = "QUARANTINED"
    \/ step = "doubt" /\ state = "UNKNOWN"
    \/ step \in {"await", "revalidate", "accept"} /\ state \in {"UNKNOWN", "QUARANTINED"}
    \/ step = "accept" /\ state = "SIGNED"

\* A step of call c touches its own job, reservation and request only.
OwnStep(c) ==
    /\ pc[c] # "idle"
    /\ UNCHANGED <<call, staleCalls, valid, issued, issuedStale>>
    /\ \A d \in Callers : d # c => pc'[d] = pc[d] /\ outcome'[d] = outcome[d]
    /\ outcome'[c] = "signed" =>
          outcome[c] = "signed" \/ (pc[c] = "reuse" /\ Plan(c) \in valid) \/ pc[c] = "accept"
    /\ \A j \in DOMAIN jobs' : j # Job(c) => j \in DOMAIN jobs
    /\ \A j \in DOMAIN jobs : j \in DOMAIN jobs' /\ (j # Job(c) => jobs'[j] = jobs[j])
    /\ Job(c) \in DOMAIN jobs' =>
          \/ Job(c) \in DOMAIN jobs /\ jobs'[Job(c)] = jobs[Job(c)]
          \/ \E s \in JobStates : /\ Writes(pc[c], s)
                                  /\ jobs'[Job(c)] = [plan |-> Plan(c), state |-> s]
    /\ \A n \in DOMAIN reserved : n \in DOMAIN reserved' /\ reserved'[n] = reserved[n]
    /\ \A n \in DOMAIN reserved' : n \notin DOMAIN reserved => pc[c] = "reserve" /\ n = Nonce(c)
    /\ \A p \in Plans : asked'[p] # asked[p] =>
          pc[c] = "ask" /\ p = Plan(c) /\ asked'[p] = asked[p] + 1
    /\ \A j \in jobLocks : j # Job(c) \/ pc'[c] # "idle" \/ pc[c] # "unlock" => j \in jobLocks'
    /\ \A n \in nonceLocks : n # Nonce(c) \/ pc[c] \notin InNonceLock => n \in nonceLocks'
    /\ pc'[c] \in InNonceLock => Nonce(c) \in nonceLocks' /\ (pc[c] \in InNonceLock \/ Nonce(c) \notin nonceLocks)

\* TypeOK without its last conjunct, which is about locks.
Typed ==
    /\ DOMAIN jobs \subseteq Jobs
    /\ jobs \in [DOMAIN jobs -> [plan: Plans, state: JobStates]]
    /\ DOMAIN reserved \subseteq Nonces
    /\ reserved \in [DOMAIN reserved -> [job: Jobs, plan: Plans]]
    /\ jobLocks \subseteq Jobs /\ nonceLocks \subseteq Nonces
    /\ pc \in [Callers -> Steps]
    /\ call \in [Callers -> [job: Jobs, plan: Plans]]
    /\ valid \subseteq Plans
    /\ asked \in [Plans -> Nat]
    /\ issued \subseteq Plans /\ issuedStale \subseteq issued
    /\ staleCalls \subseteq Callers
    /\ outcome \in [Callers -> {"none", "signed", "error"}]

\* The arguments of a call.
LEMMA CallTypes ==
    ASSUME Typed, NEW c \in Callers
    PROVE  /\ Job(c) \in Jobs /\ Plan(c) \in Plans /\ Nonce(c) \in Nonces
           /\ call[c] = [job |-> Job(c), plan |-> Plan(c)] /\ call[c] \in [job: Jobs, plan: Plans]
  BY DEF Typed, Plans, Job, Plan, Nonce

\* The steps that store nothing.
LEMMA QuietSteps ==
    ASSUME IInv, NEW c \in Callers,
           \/ ReadJob(c) \/ Check(c) \/ LockNonce(c) \/ ReadNonce(c) \/ UnlockNonce(c)
           \/ WriteFails(c) \/ Answer(c) \/ Unlock(c) \/ Crash(c)
    PROVE  Typed' /\ OwnStep(c)
  <1>t. Typed /\ Nonce(c) \in Nonces
    BY CallTypes DEF IInv, TypeOK, Typed
  <1>l. pc[c] \in InNonceLock => Nonce(c) \in nonceLocks
    BY DEF IInv, TypeOK, Nonce
  <1>f. /\ jobs' = jobs /\ reserved' = reserved /\ asked' = asked
        /\ issued' = issued /\ issuedStale' = issuedStale /\ valid' = valid
        /\ call' = call /\ staleCalls' = staleCalls
    BY DEF ReadJob, Check, LockNonce, ReadNonce, UnlockNonce, WriteFails, Answer, Unlock, Crash,
           Goto, Leave, storeVars, signerVars
  <1>g. ASSUME pc[c] # "idle",
               NEW there \in Steps, pc' = [pc EXCEPT ![c] = there],
               NEW result \in {"none", "error"}, outcome' \in {outcome, [outcome EXCEPT ![c] = result]},
               jobLocks' \subseteq jobLocks, nonceLocks' \subseteq Nonces,
               \A j \in jobLocks : j # Job(c) \/ there # "idle" \/ pc[c] # "unlock" => j \in jobLocks',
               \A n \in nonceLocks : n # Nonce(c) \/ pc[c] \notin InNonceLock => n \in nonceLocks',
               there \in InNonceLock => /\ Nonce(c) \in nonceLocks'
                                        /\ pc[c] \in InNonceLock \/ Nonce(c) \notin nonceLocks
        PROVE  Typed' /\ OwnStep(c)
    <2>1. pc'[c] = there /\ outcome'[c] \in {outcome[c], "none", "error"}
      BY <1>g, <1>t DEF Typed
    <2>2. Typed'
      BY <1>g, <1>t, <1>f DEF Typed
    <2>3. \A d \in Callers : d # c => pc'[d] = pc[d] /\ outcome'[d] = outcome[d]
      BY <1>g, <1>t DEF Typed
    <2>4. /\ pc[c] # "idle"
          /\ \A j \in jobLocks : j # Job(c) \/ pc'[c] # "idle" \/ pc[c] # "unlock" => j \in jobLocks'
          /\ \A n \in nonceLocks : n # Nonce(c) \/ pc[c] \notin InNonceLock => n \in nonceLocks'
          /\ pc'[c] \in InNonceLock => /\ Nonce(c) \in nonceLocks'
                                       /\ pc[c] \in InNonceLock \/ Nonce(c) \notin nonceLocks
      BY <1>g, <2>1
    <2> QED BY <1>f, <2>1, <2>2, <2>3, <2>4 DEF OwnStep
  <1>1. CASE ReadJob(c)
    BY <1>1, <1>t, <1>l, <1>g DEF ReadJob, Typed, Goto, Leave, At, Steps, InNonceLock, storeVars
  <1>2. CASE Check(c)
    BY <1>2, <1>t, <1>l, <1>g DEF Check, Typed, Goto, Leave, At, Steps, InNonceLock, storeVars
  <1>3. CASE LockNonce(c)
    BY <1>3, <1>t, <1>l, <1>g DEF LockNonce, Typed, Goto, Leave, At, Steps, InNonceLock, storeVars
  <1>4. CASE ReadNonce(c)
    BY <1>4, <1>t, <1>l, <1>g DEF ReadNonce, Typed, Goto, Leave, At, Steps, InNonceLock, storeVars
  <1>5. CASE UnlockNonce(c)
    BY <1>5, <1>t, <1>l, <1>g DEF UnlockNonce, Typed, Goto, Leave, At, Steps, InNonceLock, storeVars
  <1>6. CASE WriteFails(c)
    BY <1>6, <1>t, <1>l, <1>g DEF WriteFails, Typed, Goto, Leave, At, Steps, InNonceLock, storeVars
  <1>7. CASE Answer(c)
    BY <1>7, <1>t, <1>l, <1>g DEF Answer, Typed, Goto, Leave, At, Steps, InNonceLock, storeVars
  <1>8. CASE Unlock(c)
    BY <1>8, <1>t, <1>l, <1>g DEF Unlock, Typed, Goto, Leave, At, Steps, InNonceLock, storeVars
  <1>9. CASE Crash(c)
    BY <1>9, <1>t, <1>l, <1>g DEF Crash, Typed, Goto, Leave, At, Steps, InNonceLock, storeVars
  <1> QED BY <1>1, <1>2, <1>3, <1>4, <1>5, <1>6, <1>7, <1>8, <1>9

\* The steps that write a record or ask the signer.
LEMMA StoringSteps ==
    ASSUME IInv, NEW c \in Callers,
           \/ Reuse(c) \/ Reserve(c) \/ Record(c) \/ Ask(c) \/ GiveUp(c)
           \/ Revalidate(c) \/ Accept(c) \/ WriteLands(c)
    PROVE  Typed' /\ OwnStep(c)
  <1>t. Typed /\ Job(c) \in Jobs /\ Plan(c) \in Plans /\ Nonce(c) \in Nonces
    BY CallTypes DEF IInv, TypeOK, Typed
  <1>l. pc[c] \in InNonceLock => Nonce(c) \in nonceLocks
    BY DEF IInv, TypeOK, Nonce
  <1>f. /\ jobLocks' = jobLocks
        /\ issued' = issued /\ issuedStale' = issuedStale /\ valid' = valid
        /\ call' = call /\ staleCalls' = staleCalls
    BY DEF Reuse, Reserve, Record, Ask, GiveUp, Revalidate, Accept, WriteLands, Goto, Leave,
           storeVars, signerVars
  <1>s. ASSUME NEW s \in JobStates, Store(c, s)
        PROVE  /\ DOMAIN jobs' = DOMAIN jobs \cup {Job(c)}
               /\ jobs'[Job(c)] = [plan |-> Plan(c), state |-> s]
               /\ \A j \in DOMAIN jobs : j # Job(c) => jobs'[j] = jobs[j]
               /\ jobs' \in [DOMAIN jobs' -> [plan: Plans, state: JobStates]]
    <2>1. jobs' = Put(jobs, Job(c), [plan |-> Plan(c), state |-> s])
      BY <1>s DEF Store
    <2>2. jobs \in [DOMAIN jobs -> [plan: Plans, state: JobStates]]
      BY <1>t DEF Typed
    <2>3. [plan |-> Plan(c), state |-> s] \in [plan: Plans, state: JobStates]
      BY <1>t
    <2>4. /\ DOMAIN jobs' = DOMAIN jobs \cup {Job(c)}
          /\ jobs'[Job(c)] = [plan |-> Plan(c), state |-> s]
          /\ \A j \in DOMAIN jobs : j # Job(c) => jobs'[j] = jobs[j]
      BY <2>1 DEF Put
    <2> QED BY <2>1, <2>2, <2>3, <2>4, PutKeepsType
  <1>g. ASSUME pc[c] # "idle",
               NEW there \in Steps, pc' = [pc EXCEPT ![c] = there], there \notin {"idle", "readNonce", "reserve"},
               there \in InNonceLock => pc[c] \in InNonceLock,
               \/ nonceLocks' = nonceLocks
               \/ /\ nonceLocks' = nonceLocks \ {Nonce(c)}
                  /\ pc[c] \in InNonceLock /\ there \notin InNonceLock,
               \/ outcome' = outcome
               \/ outcome' = [outcome EXCEPT ![c] = "error"]
               \/ outcome' = [outcome EXCEPT ![c] = "signed"]
                  /\ (pc[c] = "accept" \/ (pc[c] = "reuse" /\ Plan(c) \in valid)),
               \/ jobs' = jobs
               \/ \E s \in JobStates : Store(c, s) /\ Writes(pc[c], s),
               \/ reserved' = reserved
               \/ pc[c] = "reserve" /\ reserved' = Put(reserved, Nonce(c), call[c]),
               \/ asked' = asked
               \/ pc[c] = "ask" /\ asked' = [asked EXCEPT ![Plan(c)] = @ + 1]
        PROVE  Typed' /\ OwnStep(c)
    <2>1. /\ pc' \in [Callers -> Steps] /\ pc'[c] = there
          /\ \A d \in Callers : d # c => pc'[d] = pc[d]
      BY <1>g, <1>t DEF Typed
    <2>o. outcome \in [Callers -> {"none", "signed", "error"}]
      BY <1>t DEF Typed
    <2>2. /\ outcome' \in [Callers -> {"none", "signed", "error"}]
          /\ \A d \in Callers : d # c => outcome'[d] = outcome[d]
          /\ outcome'[c] = "signed" =>
                outcome[c] = "signed" \/ (pc[c] = "reuse" /\ Plan(c) \in valid) \/ pc[c] = "accept"
      <3>1. CASE outcome' = outcome
        BY <3>1, <2>o
      <3>2. CASE outcome' = [outcome EXCEPT ![c] = "error"]
        BY <3>2, <2>o
      <3>3. CASE /\ outcome' = [outcome EXCEPT ![c] = "signed"]
                 /\ (pc[c] = "accept" \/ (pc[c] = "reuse" /\ Plan(c) \in valid))
        BY <3>3, <2>o
      <3> QED BY <1>g, <3>1, <3>2, <3>3
    <2> DEFINE JobsKept ==
          /\ DOMAIN jobs' \subseteq Jobs
          /\ jobs' \in [DOMAIN jobs' -> [plan: Plans, state: JobStates]]
          /\ \A j \in DOMAIN jobs' : j # Job(c) => j \in DOMAIN jobs
          /\ \A j \in DOMAIN jobs : j \in DOMAIN jobs' /\ (j # Job(c) => jobs'[j] = jobs[j])
          /\ Job(c) \in DOMAIN jobs' =>
                \/ Job(c) \in DOMAIN jobs /\ jobs'[Job(c)] = jobs[Job(c)]
                \/ \E s \in JobStates : /\ Writes(pc[c], s)
                                        /\ jobs'[Job(c)] = [plan |-> Plan(c), state |-> s]
    <2>j. DOMAIN jobs \subseteq Jobs /\ jobs \in [DOMAIN jobs -> [plan: Plans, state: JobStates]]
      BY <1>t DEF Typed
    <2>3. JobsKept
      <3>1. CASE jobs' = jobs
        BY <3>1, <2>j
      <3>2. ASSUME NEW s \in JobStates, Store(c, s), Writes(pc[c], s)
            PROVE  JobsKept
        BY <3>2, <1>s, <1>t, <2>j
      <3> QED BY <1>g, <3>1, <3>2
    <2>4. /\ DOMAIN reserved' \subseteq Nonces /\ reserved' \in [DOMAIN reserved' -> [job: Jobs, plan: Plans]]
          /\ \A n \in DOMAIN reserved : n \in DOMAIN reserved' /\ reserved'[n] = reserved[n]
          /\ \A n \in DOMAIN reserved' : n \notin DOMAIN reserved => pc[c] = "reserve" /\ n = Nonce(c)
      <3>r. DOMAIN reserved \subseteq Nonces /\ reserved \in [DOMAIN reserved -> [job: Jobs, plan: Plans]]
        BY <1>t DEF Typed
      <3>1. CASE reserved' = reserved
        BY <3>1, <3>r
      <3>2. CASE pc[c] = "reserve" /\ reserved' = Put(reserved, Nonce(c), call[c])
        <4>1. Nonce(c) \notin DOMAIN reserved
          BY <3>2 DEF IInv, Knowledge, Knows
        <4>2. call[c] \in [job: Jobs, plan: Plans]
          BY <1>t, CallTypes
        <4>3. /\ DOMAIN reserved' = DOMAIN reserved \cup {Nonce(c)}
              /\ \A n \in DOMAIN reserved : n # Nonce(c) => reserved'[n] = reserved[n]
          BY <3>2 DEF Put
        <4>4. reserved' \in [DOMAIN reserved' -> [job: Jobs, plan: Plans]]
          BY <3>2, <3>r, <4>2, PutKeepsType
        <4> QED BY <3>2, <4>1, <4>3, <4>4, <3>r, <1>t
      <3> QED BY <1>g, <3>1, <3>2
    <2>5. /\ asked' \in [Plans -> Nat]
          /\ \A p \in Plans : asked'[p] # asked[p] =>
                pc[c] = "ask" /\ p = Plan(c) /\ asked'[p] = asked[p] + 1
      BY <1>g, <1>t DEF Typed
    <2>l. /\ nonceLocks' \subseteq Nonces
          /\ \A n \in nonceLocks : n # Nonce(c) \/ pc[c] \notin InNonceLock => n \in nonceLocks'
          /\ there \in InNonceLock => nonceLocks' = nonceLocks
      BY <1>g, <1>t DEF Typed
    <2>6. Typed'
      BY <2>1, <2>2, <2>3, <2>4, <2>5, <2>l, <1>f, <1>t DEF Typed
    <2>7. /\ pc[c] # "idle" /\ pc'[c] # "idle"
          /\ pc'[c] \in InNonceLock => pc[c] \in InNonceLock /\ Nonce(c) \in nonceLocks'
      BY <1>g, <1>l, <2>1, <2>l
    <2> QED BY <1>f, <2>1, <2>2, <2>3, <2>4, <2>5, <2>6, <2>7, <2>l DEF OwnStep
  <1>1. CASE Reuse(c)
    BY <1>1, <1>g DEF Reuse, Goto, Leave, At, Steps, InNonceLock, JobStates, Writes,
                   storeVars, signerVars
  <1>2. CASE Reserve(c)
    BY <1>2, <1>g DEF Reserve, Goto, Leave, At, Steps, InNonceLock, JobStates, Writes,
                   storeVars, signerVars
  <1>3. CASE Record(c)
    BY <1>3, <1>g DEF Record, Goto, Leave, At, Steps, InNonceLock, JobStates, Writes,
                   storeVars, signerVars
  <1>4. CASE Ask(c)
    BY <1>4, <1>g DEF Ask, Goto, Leave, At, Steps, InNonceLock, JobStates, Writes,
                   storeVars, signerVars
  <1>5. CASE GiveUp(c)
    BY <1>5, <1>g DEF GiveUp, Goto, Leave, At, Steps, InNonceLock, JobStates, Writes,
                   storeVars, signerVars
  <1>6. CASE Revalidate(c)
    BY <1>6, <1>g DEF Revalidate, Goto, Leave, At, Steps, InNonceLock, JobStates, Writes,
                   storeVars, signerVars
  <1>7. CASE Accept(c)
    BY <1>7, <1>g DEF Accept, Goto, Leave, At, Steps, InNonceLock, JobStates, Writes,
                   storeVars, signerVars
  <1>8. CASE WriteLands(c)
    BY <1>8, <1>g DEF WriteLands, Goto, Leave, At, Steps, InNonceLock, JobStates, Writes,
                   storeVars, signerVars
  <1> QED BY <1>1, <1>2, <1>3, <1>4, <1>5, <1>6, <1>7, <1>8

\* Every step of a running call, its crash included, is one of the two.
LEMMA CallSteps ==
    ASSUME IInv, NEW c \in Callers, CallerStep(c) \/ Crash(c)
    PROVE  Typed' /\ OwnStep(c)
  BY QuietSteps, StoringSteps DEF CallerStep

-----------------------------------------------------------------------------
(* The invariant survives the steps of a call                              *)

\* What another call knows stays true: its job and nonce are not this call's.
LEMMA OthersKnow ==
    ASSUME IInv, NEW c \in Callers, OwnStep(c), NEW d \in Callers, d # c
    PROVE  Knows(d)'
  <1>1. Typed /\ Knows(d) /\ Knows(c)
    BY DEF IInv, TypeOK, Typed, Knowledge
  <1>2. /\ pc'[d] = pc[d] /\ call' = call /\ staleCalls' = staleCalls /\ valid' = valid
        /\ issued' = issued /\ issuedStale' = issuedStale
    BY DEF OwnStep
  <1>3. Job(d)' = Job(d) /\ Plan(d)' = Plan(d) /\ Nonce(d)' = Nonce(d)
    BY <1>2 DEF Job, Plan, Nonce
  <1>4. CASE pc[d] = "idle"
    BY <1>2, <1>4 DEF Knows, Unrecorded, Recorded, Holding
  <1>5. CASE pc[d] # "idle"
    <2>1. Job(d) # Job(c)
      BY <1>5 DEF IInv, Apart, OwnStep
    <2>2. /\ Job(d) \in DOMAIN jobs' <=> Job(d) \in DOMAIN jobs
          /\ Job(d) \in DOMAIN jobs => jobs'[Job(d)] = jobs[Job(d)]
      BY <2>1 DEF OwnStep
    <2>3. /\ Nonce(d) \in DOMAIN reserved =>
                Nonce(d) \in DOMAIN reserved' /\ reserved'[Nonce(d)] = reserved[Nonce(d)]
      BY DEF OwnStep
    <2>4. pc[d] = "reserve" => Nonce(d) \notin DOMAIN reserved'
      <3>1. pc[d] = "reserve" /\ pc[c] = "reserve" => Nonce(d) # Nonce(c)
        BY DEF IInv, Apart, InNonceLock
      <3> QED BY <3>1, <1>1 DEF OwnStep, Knows
    <2>5. pc[d] = "ask" => asked'[Plan(d)] = 0
      <3> SUFFICES ASSUME pc[d] = "ask", asked'[Plan(d)] # 0 PROVE FALSE
        OBVIOUS
      <3>1. asked[Plan(d)] = 0 /\ Plan(d) \in Plans
        BY <1>1, CallTypes DEF Knows
      <3>2. pc[c] = "ask" /\ Plan(d) = Plan(c)
        BY <3>1 DEF OwnStep
      <3>3. Nonce(c) = Nonce(d)
        BY <3>2 DEF Nonce, Plan
      <3>4. call[c] = call[d]
        BY <1>1, <3>2, <3>3 DEF Knows, Holding, Recorded
      <3> QED BY <3>4, <2>1 DEF Job
    <2> QED BY <1>1, <1>2, <1>3, <2>2, <2>3, <2>4, <2>5 DEF Knows
  <1> QED BY <1>4, <1>5

\* A call knows at each step what the steps before have read or written.
LEMMA OwnKnowledge ==
    ASSUME IInv, NEW c \in Callers, CallerStep(c) \/ Crash(c)
    PROVE  Knows(c)'
  <1>1. Typed /\ Knows(c) /\ Typed' /\ OwnStep(c)
    BY CallSteps DEF IInv, TypeOK, Typed, Knowledge
  <1>2. /\ call' = call /\ staleCalls' = staleCalls /\ valid' = valid
        /\ issued' = issued /\ issuedStale' = issuedStale
    BY <1>1 DEF OwnStep
  <1>3. Job(c)' = Job(c) /\ Plan(c)' = Plan(c) /\ Nonce(c)' = Nonce(c)
    BY <1>2 DEF Job, Plan, Nonce
  <1>p. pc \in [Callers -> Steps] /\ outcome \in [Callers -> {"none", "signed", "error"}]
    BY <1>1 DEF Typed
  <1>q. ASSUME pc'[c] \in {"idle", "unlock"}, pc'[c] = "unlock" => pc[c] # "idle"
        PROVE  Knows(c)'
    BY <1>q, <1>1, <1>2, <1>3 DEF Knows, Unrecorded, Recorded, Holding
  <1> USE <1>p DEF At, Goto, Leave
  <1>4. CASE ReadJob(c)
    <2>1. CASE pc'[c] = "unlock"
      BY <2>1, <1>q, <1>4 DEF ReadJob
    <2>2. CASE pc'[c] = "check"
      <3>1. pc[c] = "readJob" /\ Job(c) \notin DOMAIN jobs /\ jobs' = jobs
        BY <2>2, <1>4 DEF ReadJob, storeVars
      <3> QED BY <3>1, <2>2, <1>1, <1>2, <1>3 DEF Knows, Unrecorded, Recorded, Holding
    <2>3. CASE pc'[c] = "reuse"
      <3>1. /\ pc[c] = "readJob" /\ jobs' = jobs /\ Job(c) \in DOMAIN jobs
            /\ jobs[Job(c)] = [plan |-> Plan(c), state |-> "SIGNED"]
        BY <2>3, <1>4 DEF ReadJob, storeVars
      <3> QED BY <3>1, <2>3, <1>1, <1>2, <1>3 DEF Knows, Unrecorded, Recorded, Holding
    <2> QED BY <2>1, <2>2, <2>3, <1>4 DEF ReadJob
  <1>5. CASE Check(c)
    <2>1. CASE pc'[c] = "unlock"
      BY <2>1, <1>q, <1>5 DEF Check
    <2>2. CASE pc'[c] = "lockNonce"
      <3>1. pc[c] = "check" /\ jobs' = jobs
        BY <1>5 DEF Check, storeVars
      <3> QED BY <3>1, <2>2, <1>1, <1>2, <1>3 DEF Knows, Unrecorded, Recorded, Holding
    <2> QED BY <2>1, <2>2, <1>5 DEF Check
  <1>6. CASE LockNonce(c)
    <2>1. CASE pc'[c] = "unlock"
      BY <2>1, <1>q, <1>6 DEF LockNonce
    <2>2. CASE pc'[c] = "readNonce"
      <3>1. pc[c] = "lockNonce" /\ jobs' = jobs
        BY <1>6 DEF LockNonce
      <3> QED BY <3>1, <2>2, <1>1, <1>2, <1>3 DEF Knows, Unrecorded, Recorded, Holding
    <2> QED BY <2>1, <2>2, <1>6 DEF LockNonce
  <1>7. CASE ReadNonce(c)
    <2>1. CASE pc'[c] = "unlock"
      BY <2>1, <1>q, <1>7 DEF ReadNonce
    <2>2. CASE pc'[c] = "reserve"
      <3>1. pc[c] = "readNonce" /\ jobs' = jobs /\ reserved' = reserved /\ Nonce(c) \notin DOMAIN reserved
        BY <2>2, <1>7 DEF ReadNonce
      <3> QED BY <3>1, <2>2, <1>1, <1>2, <1>3 DEF Knows, Unrecorded, Recorded, Holding
    <2> QED BY <2>1, <2>2, <1>7 DEF ReadNonce
  <1>8. CASE Reserve(c)
    <2>1. /\ pc[c] = "reserve" /\ pc'[c] = "unlockNonce" /\ jobs' = jobs
          /\ reserved' = Put(reserved, Nonce(c), call[c])
      BY <1>8 DEF Reserve
    <2>2. Nonce(c) \in DOMAIN reserved' /\ reserved'[Nonce(c)] = call[c]
      BY <2>1 DEF Put
    <2>3. (call[c])' = call[c]
      BY <1>2
    <2> QED BY <2>1, <2>2, <2>3, <1>1, <1>2, <1>3 DEF Knows, Unrecorded, Recorded, Holding
  <1>9. CASE UnlockNonce(c)
    <2>1. pc[c] = "unlockNonce" /\ pc'[c] = "record" /\ jobs' = jobs /\ reserved' = reserved
      BY <1>9 DEF UnlockNonce
    <2> QED BY <2>1, <1>1, <1>2, <1>3 DEF Knows, Unrecorded, Recorded, Holding
  <1>10. CASE Record(c)
    <2>1. /\ pc[c] = "record" /\ pc'[c] = "ask" /\ reserved' = reserved /\ asked' = asked
          /\ jobs' = Put(jobs, Job(c), [plan |-> Plan(c), state |-> "SIGNING"])
      BY <1>10 DEF Record, Store, signerVars
    <2>2. Job(c) \in DOMAIN jobs' /\ jobs'[Job(c)] = [plan |-> Plan(c), state |-> "SIGNING"]
      BY <2>1 DEF Put
    <2>3. asked[Plan(c)] = 0
      <3>1. /\ Nonce(c) \in DOMAIN reserved /\ reserved[Nonce(c)] = call[c]
            /\ Job(c) \notin DOMAIN jobs
        BY <2>1, <1>1 DEF Knows, Holding, Unrecorded
      <3>2. Plan(c) \in Plans /\ asked[Plan(c)] \in Nat /\ Plan(c).nonce = Nonce(c)
        BY <1>1, CallTypes DEF Typed, Plan, Nonce
      <3>3. asked[Plan(c)] > 0 => reserved[Nonce(c)].job \in DOMAIN jobs
        BY <3>2 DEF IInv, Requested
      <3> QED BY <3>1, <3>2, <3>3 DEF Job
    <2> QED BY <2>1, <2>2, <2>3, <1>1, <1>2, <1>3 DEF Knows, Unrecorded, Recorded, Holding
  <1>11. CASE Ask(c)
    <2>1. pc[c] = "ask" /\ pc'[c] = "await" /\ jobs' = jobs /\ reserved' = reserved
      BY <1>11 DEF Ask, storeVars
    <2> QED BY <2>1, <1>1, <1>2, <1>3 DEF Knows, Unrecorded, Recorded, Holding
  <1>12. CASE Answer(c)
    <2>1. /\ pc[c] = "await" /\ pc'[c] = "revalidate" /\ jobs' = jobs /\ reserved' = reserved
          /\ Plan(c) \in issued
      BY <1>12 DEF Answer, storeVars
    <2> QED BY <2>1, <1>1, <1>2, <1>3 DEF Knows, Unrecorded, Recorded, Holding
  <1>13. CASE Revalidate(c)
    <2>1. CASE pc'[c] = "unlock"
      BY <2>1, <1>q, <1>13 DEF Revalidate
    <2>2. CASE pc'[c] = "accept"
      <3>1. pc[c] = "revalidate" /\ jobs' = jobs /\ reserved' = reserved /\ Plan(c) \in valid
        BY <2>2, <1>13 DEF Revalidate
      <3>2. Plan(c) \notin issuedStale
        BY <3>1 DEF IInv, StaleIsInvalid
      <3> QED BY <3>1, <3>2, <2>2, <1>1, <1>2, <1>3 DEF Knows, Unrecorded, Recorded, Holding
    <2> QED BY <2>1, <2>2, <1>13 DEF Revalidate
  <1>14. CASE Reuse(c) \/ WriteFails(c) \/ GiveUp(c) \/ Accept(c) \/ Unlock(c) \/ Crash(c)
    BY <1>14, <1>q DEF Reuse, WriteFails, GiveUp, Accept, Unlock, Crash
  <1>15. CASE WriteLands(c)
    <2>1. CASE pc'[c] = "unlock"
      BY <2>1, <1>q, <1>15 DEF WriteLands
    <2>2. CASE pc'[c] = "doubt"
      <3>1. jobs' = Put(jobs, Job(c), [plan |-> Plan(c), state |-> "SIGNED"]) /\ pc[c] = "accept"
        BY <2>2, <1>15 DEF WriteLands, Store
      <3>2. Job(c) \in DOMAIN jobs' /\ jobs'[Job(c)] = [plan |-> Plan(c), state |-> "SIGNED"]
        BY <3>1 DEF Put
      <3> QED BY <3>1, <3>2, <2>2, <1>1, <1>2, <1>3 DEF Knows, Unrecorded, Recorded, Holding
    <2> QED BY <2>1, <2>2, <1>15 DEF WriteLands
  <1> QED BY <1>4, <1>5, <1>6, <1>7, <1>8, <1>9, <1>10, <1>11, <1>12, <1>13, <1>14, <1>15 DEF CallerStep

\* A running call still holds its locks, and only it: the last conjunct of TypeOK.
LEMMA StepKeepsLocks ==
    ASSUME IInv, NEW c \in Callers, CallerStep(c) \/ Crash(c)
    PROVE  TypeOK' /\ Apart'
  <1>1. Typed' /\ OwnStep(c) /\ call' = call
    BY CallSteps DEF OwnStep
  <1>2. pc \in [Callers -> Steps]
    BY DEF IInv, TypeOK
  <1>3. ASSUME NEW d \in Callers, pc'[d] # "idle"
        PROVE  call'[d].job \in jobLocks'
    <2>1. pc[d] # "idle" /\ Job(d) \in jobLocks
      BY <1>1, <1>3 DEF IInv, TypeOK, OwnStep, Job
    <2>2. Job(d) # Job(c) \/ d = c
      BY <2>1, <1>1 DEF IInv, Apart, OwnStep
    <2> QED BY <2>1, <2>2, <1>1, <1>3 DEF OwnStep, Job
  <1>4. ASSUME NEW d \in Callers, pc'[d] \in InNonceLock
        PROVE  call'[d].plan.nonce \in nonceLocks'
    <2>1. CASE d = c
      BY <2>1, <1>1, <1>4 DEF OwnStep, Nonce
    <2>2. CASE d # c
      <3>1. pc[d] \in InNonceLock /\ Nonce(d) \in nonceLocks
        BY <2>2, <1>1, <1>4 DEF IInv, TypeOK, OwnStep, Nonce
      <3>2. Nonce(d) # Nonce(c) \/ pc[c] \notin InNonceLock
        BY <2>2, <3>1 DEF IInv, Apart
      <3> QED BY <3>1, <3>2, <1>1 DEF OwnStep, Nonce
    <2> QED BY <2>1, <2>2
  <1>5. TypeOK'
    BY <1>1, <1>3, <1>4 DEF TypeOK, Typed
  <1>6. ASSUME NEW d \in Callers, NEW e \in Callers, d # e, pc'[d] # "idle", pc'[e] # "idle"
        PROVE  call'[d].job # call'[e].job
    <2>1. pc[d] # "idle" /\ pc[e] # "idle"
      BY <1>1, <1>6 DEF OwnStep
    <2> QED BY <2>1, <1>1, <1>6 DEF IInv, Apart, Job
  <1>7. ASSUME NEW d \in Callers, d # c, pc'[c] \in InNonceLock, pc'[d] \in InNonceLock
        PROVE  Nonce(c) # Nonce(d)
    <2>1. pc[d] \in InNonceLock /\ Nonce(d) \in nonceLocks
      BY <1>1, <1>7 DEF IInv, TypeOK, OwnStep, Nonce
    <2>2. pc[c] \in InNonceLock \/ Nonce(c) \notin nonceLocks
      BY <1>1, <1>7 DEF OwnStep
    <2> QED BY <2>1, <2>2, <1>7 DEF IInv, Apart
  <1>8. ASSUME NEW d \in Callers, NEW e \in Callers, d # e,
               pc'[d] \in InNonceLock, pc'[e] \in InNonceLock
        PROVE  call'[d].plan.nonce # call'[e].plan.nonce
    <2>1. CASE d = c \/ e = c
      BY <2>1, <1>1, <1>7, <1>8 DEF Nonce
    <2>2. CASE d # c /\ e # c
      <3>1. pc[d] \in InNonceLock /\ pc[e] \in InNonceLock
        BY <2>2, <1>1, <1>8 DEF OwnStep
      <3> QED BY <3>1, <1>1, <1>8 DEF IInv, Apart, Nonce
    <2> QED BY <2>1, <2>2
  <1>9. Apart'
    BY <1>6, <1>8 DEF Apart, Job, Nonce
  <1> QED BY <1>5, <1>9

\* A step of a call preserves the invariant.
LEMMA StepKeepsInvariant ==
    ASSUME IInv, NEW c \in Callers, CallerStep(c) \/ Crash(c)
    PROVE  IInv'
  <1>1. OwnStep(c) /\ Knows(c) /\ Typed
    BY CallSteps DEF IInv, Knowledge, TypeOK, Typed
  <1>2. TypeOK' /\ Apart'
    BY StepKeepsLocks
  <1>3. Knowledge'
    BY <1>1, OwnKnowledge, OthersKnow DEF Knowledge
  <1>4. Requested'
    <2> SUFFICES ASSUME NEW p \in Plans, asked'[p] > 0
                 PROVE  /\ asked'[p] = 1
                        /\ p.nonce \in DOMAIN reserved' /\ reserved'[p.nonce].plan = p
                        /\ reserved'[p.nonce].job \in DOMAIN jobs'
      BY DEF Requested
    <2>1. CASE asked'[p] = asked[p]
      BY <2>1, <1>1 DEF IInv, Requested, OwnStep
    <2>2. CASE asked'[p] # asked[p]
      <3>1. pc[c] = "ask" /\ p = Plan(c) /\ asked'[p] = asked[p] + 1
        BY <2>2, <1>1 DEF OwnStep
      <3>2. /\ asked[p] = 0 /\ Nonce(c) \in DOMAIN reserved /\ reserved[Nonce(c)] = call[c]
            /\ Job(c) \in DOMAIN jobs
        BY <3>1, <1>1 DEF Knows, Holding, Recorded
      <3>3. p.nonce = Nonce(c) /\ call[c].plan = p /\ call[c].job = Job(c)
        BY <3>1 DEF Plan, Nonce, Job
      <3> QED BY <3>1, <3>2, <3>3, <1>1 DEF OwnStep
    <2> QED BY <2>1, <2>2
  <1>5. StaleIsInvalid'
    BY <1>1 DEF OwnStep, IInv, StaleIsInvalid
  <1>6. SignedWhileValid'
    <2> SUFFICES ASSUME NEW j \in DOMAIN jobs', jobs'[j].state = "SIGNED"
                 PROVE  jobs'[j].plan \in issued' \ issuedStale'
      BY DEF SignedWhileValid
    <2>1. CASE j \in DOMAIN jobs /\ jobs'[j] = jobs[j]
      BY <2>1, <1>1 DEF IInv, SignedWhileValid, OwnStep
    <2>2. CASE ~(j \in DOMAIN jobs /\ jobs'[j] = jobs[j])
      <3>1. j = Job(c)
        BY <2>2, <1>1 DEF OwnStep
      <3>2. PICK s \in JobStates : Writes(pc[c], s) /\ jobs'[j] = [plan |-> Plan(c), state |-> s]
        BY <2>2, <3>1, <1>1 DEF OwnStep
      <3>3. pc[c] = "accept" /\ jobs'[j].plan = Plan(c)
        BY <3>2 DEF Writes
      <3> QED BY <3>3, <1>1 DEF Knows, OwnStep
    <2> QED BY <2>1, <2>2
  <1>7. SuccessIsFresh'
    <2> SUFFICES ASSUME NEW d \in Callers, outcome'[d] = "signed"
                 PROVE  d \notin staleCalls'
      BY DEF SuccessIsFresh
    <2>1. CASE outcome[d] = "signed"
      BY <2>1, <1>1 DEF IInv, SuccessIsFresh, OwnStep
    <2>2. CASE outcome[d] # "signed"
      <3>1. d = c /\ ((pc[c] = "reuse" /\ Plan(c) \in valid) \/ pc[c] = "accept")
        BY <2>2, <1>1 DEF OwnStep
      <3> QED BY <3>1, <1>1 DEF Knows, OwnStep
    <2> QED BY <2>1, <2>2
  <1> QED BY <1>2, <1>3, <1>4, <1>5, <1>6, <1>7 DEF IInv

-----------------------------------------------------------------------------
(* The invariant survives everything else                                  *)

\* A new call takes a lock nobody holds, so its job is no running call's.
LEMMA CallKeepsInvariant ==
    ASSUME IInv, NEW c \in Callers, NEW j \in Jobs, NEW p \in Plans, Call(c, j, p)
    PROVE  IInv'
  <1>1. /\ pc[c] = "idle" /\ j \notin jobLocks /\ jobLocks' = jobLocks \cup {j}
        /\ call' = [call EXCEPT ![c] = [job |-> j, plan |-> p]]
        /\ pc' = [pc EXCEPT ![c] = "readJob"]
        /\ outcome' = [outcome EXCEPT ![c] = "none"]
        /\ staleCalls' = IF p \in valid THEN staleCalls \ {c} ELSE staleCalls \cup {c}
        /\ jobs' = jobs /\ reserved' = reserved /\ nonceLocks' = nonceLocks /\ valid' = valid
        /\ asked' = asked /\ issued' = issued /\ issuedStale' = issuedStale
    BY DEF Call, At, signerVars
  <1>2. /\ pc \in [Callers -> Steps] /\ call \in [Callers -> [job: Jobs, plan: Plans]]
        /\ outcome \in [Callers -> {"none", "signed", "error"}]
    BY DEF IInv, TypeOK
  <1>3. /\ pc'[c] = "readJob" /\ outcome'[c] = "none" /\ call'[c] = [job |-> j, plan |-> p]
        /\ \A d \in Callers : d # c => /\ pc'[d] = pc[d] /\ outcome'[d] = outcome[d]
                                       /\ call'[d] = call[d]
                                       /\ d \in staleCalls' <=> d \in staleCalls
    BY <1>1, <1>2
  <1>4. TypeOK'
    <2>1. /\ pc' \in [Callers -> Steps] /\ call' \in [Callers -> [job: Jobs, plan: Plans]]
          /\ outcome' \in [Callers -> {"none", "signed", "error"}]
          /\ staleCalls' \subseteq Callers /\ jobLocks' \subseteq Jobs
      BY <1>1, <1>2 DEF Steps, IInv, TypeOK
    <2>2. \A d \in Callers : /\ pc'[d] # "idle" => call'[d].job \in jobLocks'
                             /\ pc'[d] \in InNonceLock => call'[d].plan.nonce \in nonceLocks'
      BY <1>1, <1>3 DEF IInv, TypeOK, InNonceLock
    <2> QED BY <1>1, <2>1, <2>2 DEF IInv, TypeOK
  <1>5. Apart'
    <2>1. \A d \in Callers : d # c /\ pc[d] # "idle" => call[d].job # j
      BY <1>1 DEF IInv, TypeOK
    <2> QED BY <1>3, <2>1 DEF IInv, Apart, Job, Nonce, InNonceLock
  <1>6. Knowledge'
    <2> SUFFICES ASSUME NEW d \in Callers PROVE Knows(d)'
      BY DEF Knowledge
    <2>1. CASE d = c
      BY <2>1, <1>1, <1>3 DEF Knows, Unrecorded, Recorded, Holding, Plan
    <2>2. CASE d # c
      BY <2>2, <1>1, <1>3 DEF IInv, Knowledge, Knows, Plan, Job, Nonce
    <2> QED BY <2>1, <2>2
  <1>7. Requested' /\ StaleIsInvalid' /\ SignedWhileValid'
    BY <1>1 DEF IInv, Requested, StaleIsInvalid, SignedWhileValid
  <1>8. SuccessIsFresh'
    BY <1>3 DEF IInv, SuccessIsFresh
  <1> QED BY <1>4, <1>5, <1>6, <1>7, <1>8 DEF IInv

\* Removing a lock no running call holds disturbs nobody.
LEMMA RemovalKeepsInvariant ==
    ASSUME IInv, RemoveAbandonedLock
    PROVE  IInv'
  <1>1. /\ jobs' = jobs /\ reserved' = reserved /\ pc' = pc /\ call' = call
        /\ staleCalls' = staleCalls /\ outcome' = outcome /\ valid' = valid
        /\ asked' = asked /\ issued' = issued /\ issuedStale' = issuedStale
    BY DEF RemoveAbandonedLock, callVars, signerVars
  <1>2. /\ jobLocks' \subseteq jobLocks /\ nonceLocks' \subseteq nonceLocks
        /\ \A d \in Callers : /\ pc[d] # "idle" /\ Job(d) \in jobLocks => Job(d) \in jobLocks'
                              /\ pc[d] \in InNonceLock /\ Nonce(d) \in nonceLocks => Nonce(d) \in nonceLocks'
    BY DEF RemoveAbandonedLock, At
  <1>3. TypeOK'
    BY <1>1, <1>2 DEF IInv, TypeOK, Job, Nonce
  <1>4. Apart' /\ Knowledge'
    BY <1>1 DEF IInv, Apart, Knowledge, Knows, Job, Plan, Nonce
  <1>5. Requested' /\ StaleIsInvalid' /\ SignedWhileValid' /\ SuccessIsFresh'
    BY <1>1 DEF IInv, Requested, StaleIsInvalid, SignedWhileValid, SuccessIsFresh
  <1> QED BY <1>3, <1>4, <1>5 DEF IInv

\* A signature made late is stale from the start, and a valid plan is never stale.
LEMMA SignerKeepsInvariant ==
    ASSUME IInv, NEW p \in Plans, SignerSigns(p)
    PROVE  IInv'
  <1>1. /\ jobs' = jobs /\ reserved' = reserved /\ pc' = pc /\ call' = call
        /\ jobLocks' = jobLocks /\ nonceLocks' = nonceLocks
        /\ staleCalls' = staleCalls /\ outcome' = outcome /\ valid' = valid /\ asked' = asked
        /\ p \notin issued /\ issued' = issued \cup {p}
        /\ issuedStale' = IF p \in valid THEN issuedStale ELSE issuedStale \cup {p}
    BY DEF SignerSigns, storeVars, callVars
  <1>2. TypeOK'
    BY <1>1 DEF IInv, TypeOK
  <1>3. Apart'
    BY <1>1 DEF IInv, Apart, Job, Nonce
  <1>4. Knowledge'
    <2> SUFFICES ASSUME NEW d \in Callers PROVE Knows(d)'
      BY DEF Knowledge
    <2>1. Knows(d)
      BY DEF IInv, Knowledge
    <2>2. Job(d)' = Job(d) /\ Plan(d)' = Plan(d) /\ Nonce(d)' = Nonce(d)
      BY <1>1 DEF Job, Plan, Nonce
    <2> QED BY <1>1, <2>1, <2>2 DEF Knows
  <1>5. Requested' /\ StaleIsInvalid' /\ SuccessIsFresh'
    BY <1>1 DEF IInv, Requested, StaleIsInvalid, SuccessIsFresh
  <1>6. SignedWhileValid'
    BY <1>1 DEF IInv, SignedWhileValid
  <1> QED BY <1>2, <1>3, <1>4, <1>5, <1>6 DEF IInv

\* Validity is lost and never regained.
LEMMA InvalidationKeepsInvariant ==
    ASSUME IInv, NEW p \in Plans, Invalidate(p)
    PROVE  IInv'
  <1>1. /\ jobs' = jobs /\ reserved' = reserved /\ pc' = pc /\ call' = call
        /\ jobLocks' = jobLocks /\ nonceLocks' = nonceLocks
        /\ staleCalls' = staleCalls /\ outcome' = outcome /\ asked' = asked
        /\ issued' = issued /\ issuedStale' = issuedStale /\ valid' \subseteq valid
    BY DEF Invalidate, storeVars, callVars, signerVars
  <1>2. TypeOK' /\ Apart' /\ Knowledge'
    BY <1>1 DEF IInv, TypeOK, Apart, Knowledge, Knows, Job, Plan, Nonce
  <1>3. Requested' /\ StaleIsInvalid' /\ SignedWhileValid' /\ SuccessIsFresh'
    BY <1>1 DEF IInv, Requested, StaleIsInvalid, SignedWhileValid, SuccessIsFresh
  <1> QED BY <1>2, <1>3 DEF IInv

\* The invariant is inductive.
LEMMA Inductive ==
    /\ Init => IInv
    /\ IInv /\ [Next]_vars => IInv'
  <1>1. Init => IInv
    BY DEF Init, IInv, TypeOK, Apart, Knowledge, Knows, Requested, StaleIsInvalid, SignedWhileValid,
           SuccessIsFresh, Steps, InNonceLock, Unrecorded, Recorded, Holding
  <1>2. ASSUME IInv, UNCHANGED vars PROVE IInv'
    <2>1. /\ jobs' = jobs /\ reserved' = reserved /\ pc' = pc /\ call' = call
          /\ jobLocks' = jobLocks /\ nonceLocks' = nonceLocks
          /\ staleCalls' = staleCalls /\ outcome' = outcome /\ asked' = asked
          /\ issued' = issued /\ issuedStale' = issuedStale /\ valid' = valid
      BY <1>2 DEF vars, storeVars, callVars, signerVars
    <2>2. TypeOK' /\ Apart' /\ Knowledge'
      BY <2>1, <1>2 DEF IInv, TypeOK, Apart, Knowledge, Knows, Job, Plan, Nonce
    <2>3. Requested' /\ StaleIsInvalid' /\ SignedWhileValid' /\ SuccessIsFresh'
      BY <2>1, <1>2 DEF IInv, Requested, StaleIsInvalid, SignedWhileValid, SuccessIsFresh
    <2> QED BY <2>2, <2>3 DEF IInv
  <1>3. ASSUME IInv, Next PROVE IInv'
    BY <1>3, CallKeepsInvariant, StepKeepsInvariant, RemovalKeepsInvariant, SignerKeepsInvariant,
       InvalidationKeepsInvariant DEF Next
  <1> QED BY <1>1, <1>2, <1>3

\* Every state of the service satisfies the invariant.
THEOREM Invariance == Spec => []IInv
  BY Inductive, PTL DEF Spec

-----------------------------------------------------------------------------
(* The theorems                                                            *)

\* Values keep their types, and a running call of sign() holds its locks.
THEOREM TypeCorrect == Spec => []TypeOK
  <1>1. IInv => TypeOK
    BY DEF IInv
  <1> QED BY <1>1, Invariance, PTL

\* The signer is asked at most once per nonce: two requests with one nonce would
\* both be the plan of the one reservation.
THEOREM SingleRequest == Spec => []OneRequestPerNonce
  <1>1. IInv => OneRequestPerNonce
    BY DEF IInv, Requested, OneRequestPerNonce
  <1> QED BY <1>1, Invariance, PTL

\* A job becomes SIGNED only on a signature made while its plan was valid.
THEOREM SignaturesWereValid == Spec => []SignedWhileValid
  <1>1. IInv => SignedWhileValid
    BY DEF IInv
  <1> QED BY <1>1, Invariance, PTL

\* sign() does not succeed for a plan that was invalid when it was called.
THEOREM FreshSuccess == Spec => []SuccessIsFresh
  <1>1. IInv => SuccessIsFresh
    BY DEF IInv
  <1> QED BY <1>1, Invariance, PTL

\* The body of NoAutomaticRetry.
KeepsRecords ==
    /\ \A j \in DOMAIN jobs :
         /\ j \in DOMAIN jobs' /\ jobs'[j].plan = jobs[j].plan
         /\ jobs[j].state \in {"UNKNOWN", "QUARANTINED"} => jobs'[j] = jobs[j]
         /\ jobs[j].state = "SIGNED" => jobs'[j].state # "SIGNING"
    /\ \A n \in DOMAIN reserved : n \in DOMAIN reserved' /\ reserved'[n] = reserved[n]

\* Only a call writes records, and it writes over its own SIGNING or SIGNED one.
LEMMA StepKeepsRecords ==
    IInv /\ [Next]_vars => KeepsRecords
  <1> SUFFICES ASSUME IInv, [Next]_vars PROVE KeepsRecords
    OBVIOUS
  <1>1. ASSUME jobs' = jobs, reserved' = reserved PROVE KeepsRecords
    BY <1>1 DEF KeepsRecords
  <1>2. ASSUME NEW c \in Callers, CallerStep(c) \/ Crash(c) PROVE KeepsRecords
    <2>1. OwnStep(c) /\ Knows(c)
      BY <1>2, CallSteps DEF IInv, Knowledge
    <2>2. ASSUME NEW j \in DOMAIN jobs
          PROVE  /\ j \in DOMAIN jobs' /\ jobs'[j].plan = jobs[j].plan
                 /\ jobs[j].state \in {"UNKNOWN", "QUARANTINED"} => jobs'[j] = jobs[j]
                 /\ jobs[j].state = "SIGNED" => jobs'[j].state # "SIGNING"
      <3>1. j \in DOMAIN jobs'
        BY <2>1 DEF OwnStep
      <3>2. CASE jobs'[j] = jobs[j]
        BY <3>1, <3>2
      <3>3. CASE jobs'[j] # jobs[j]
        <4>1. j = Job(c)
          BY <3>3, <2>1 DEF OwnStep
        <4>2. PICK s \in JobStates : Writes(pc[c], s) /\ jobs'[j] = [plan |-> Plan(c), state |-> s]
          BY <3>1, <3>3, <4>1, <2>1 DEF OwnStep
        <4>3. CASE pc[c] = "record"
          BY <4>1, <4>3, <2>1 DEF Knows, Unrecorded
        <4>4. CASE pc[c] \in {"reuse", "doubt"}
          BY <3>1, <4>1, <4>2, <4>4, <2>1 DEF Knows, Writes
        <4>5. CASE pc[c] \in {"await", "revalidate", "accept"}
          BY <3>1, <4>1, <4>2, <4>5, <2>1 DEF Knows, Recorded
        <4> QED BY <4>2, <4>3, <4>4, <4>5 DEF Writes
      <3> QED BY <3>2, <3>3
    <2> QED BY <2>1, <2>2 DEF KeepsRecords, OwnStep
  <1>3. CASE UNCHANGED vars
    BY <1>1, <1>3 DEF vars, storeVars
  <1>4. CASE Next
    <2>1. ASSUME NEW c \in Callers, NEW j \in Jobs, NEW p \in Plans, Call(c, j, p) PROVE KeepsRecords
      BY <2>1, <1>1 DEF Call
    <2>2. CASE RemoveAbandonedLock
      BY <2>2, <1>1 DEF RemoveAbandonedLock
    <2>3. ASSUME NEW p \in Plans, SignerSigns(p) \/ Invalidate(p) PROVE KeepsRecords
      BY <2>3, <1>1 DEF SignerSigns, Invalidate, storeVars
    <2> QED BY <1>2, <1>4, <2>1, <2>2, <2>3 DEF Next
  <1> QED BY <1>3, <1>4

\* UNKNOWN and QUARANTINED jobs, plans and reservations are for ever.
THEOREM RecordsAreFinal == Spec => NoAutomaticRetry
  <1>1. IInv /\ [Next]_vars => KeepsRecords
    BY StepKeepsRecords
  <1>2. Spec => [][/\ \A j \in DOMAIN jobs :
                         /\ j \in DOMAIN jobs' /\ jobs'[j].plan = jobs[j].plan
                         /\ jobs[j].state \in {"UNKNOWN", "QUARANTINED"} => jobs'[j] = jobs[j]
                         /\ jobs[j].state = "SIGNED" => jobs'[j].state # "SIGNING"
                   /\ \A n \in DOMAIN reserved : n \in DOMAIN reserved' /\ reserved'[n] = reserved[n]]_vars
    BY <1>1, Invariance, PTL DEF Spec, KeepsRecords
  <1> QED BY <1>2 DEF NoAutomaticRetry

-----------------------------------------------------------------------------
(* sign() implements SignOnce                                              *)

\* The steps that write no record, bind no nonce and ask for nothing.
LEMMA UnseenSteps ==
    ASSUME NEW c \in Callers,
           \/ ReadJob(c) \/ Check(c) \/ LockNonce(c) \/ ReadNonce(c) \/ UnlockNonce(c)
           \/ WriteFails(c) \/ Answer(c) \/ Unlock(c) \/ Crash(c)
           \/ RemoveAbandonedLock \/ \E j \in Jobs, p \in Plans : Call(c, j, p)
    PROVE  UNCHANGED <<jobs, reserved, asked, issued, issuedStale, valid>>
  BY DEF ReadJob, Check, LockNonce, ReadNonce, UnlockNonce, WriteFails, Answer, Unlock, Crash,
         RemoveAbandonedLock, Call, Goto, Leave, storeVars, signerVars, callVars

\* A call that rewrites the record it knows of moves that job along.
LEMMA SettlingSteps ==
    ASSUME IInv, NEW c \in Callers,
           Reuse(c) \/ GiveUp(c) \/ Revalidate(c) \/ Accept(c) \/ (WriteLands(c) /\ At(c, "accept"))
    PROVE  [Promise!Next]_(Promise!promiseVars)
  <1> USE DEF Promise!promiseVars
  <1>t. Job(c) \in Jobs /\ Knows(c) /\ Typed
    BY CallTypes DEF IInv, TypeOK, Typed, Knowledge
  <1>f. UNCHANGED <<reserved, asked, issued, issuedStale, valid>>
    BY DEF Reuse, GiveUp, Revalidate, Accept, WriteLands, At, signerVars
  <1>m. ASSUME NEW s, NEW t, Job(c) \in DOMAIN jobs,
               jobs[Job(c)] = [plan |-> Plan(c), state |-> s], Store(c, t)
        PROVE  Promise!Becomes(Job(c), t) /\ (\A S : s \in S => Promise!Is(Job(c), S))
               /\ jobs[Job(c)].plan = Plan(c)
    <2>1. jobs' = [jobs EXCEPT ![Job(c)].state = t]
      <3>1. jobs \in [DOMAIN jobs -> [plan: Plans, state: JobStates]]
        BY <1>t DEF Typed
      <3>2. Put(jobs, Job(c), [plan |-> Plan(c), state |-> t]) = [jobs EXCEPT ![Job(c)].state = t]
        <4>1. [jobs[Job(c)] EXCEPT !.state = t] = [plan |-> Plan(c), state |-> t]
          BY <1>m
        <4>2. Put(jobs, Job(c), [plan |-> Plan(c), state |-> t])
                = [jobs EXCEPT ![Job(c)] = [plan |-> Plan(c), state |-> t]]
          BY <1>m, <3>1 DEF Put
        <4> QED BY <4>1, <4>2
      <3> QED BY <1>m, <3>2 DEF Store
    <2> QED BY <1>m, <1>f, <2>1 DEF Promise!Becomes, Promise!Is
  <1>1. CASE Reuse(c)
    <2>1. jobs' = jobs \/ (Store(c, "QUARANTINED") /\ pc[c] = "reuse")
      BY <1>1 DEF Reuse, At
    <2>2. CASE jobs' = jobs
      BY <2>2, <1>f
    <2>3. CASE Store(c, "QUARANTINED") /\ pc[c] = "reuse"
      BY <2>3, <1>t, <1>m DEF Knows, Promise!Next, Promise!Quarantine
    <2> QED BY <2>1, <2>2, <2>3
  <1>2. CASE GiveUp(c)
    <2>1. Store(c, "UNKNOWN") /\ pc[c] \in Recorded \cup {"doubt"}
      BY <1>2 DEF GiveUp, Recorded
    <2> QED BY <2>1, <1>t, <1>m DEF Knows, Promise!Next, Promise!Abandon
  <1>3. CASE Revalidate(c)
    <2>1. jobs' = jobs \/ (Store(c, "QUARANTINED") /\ pc[c] \in Recorded)
      BY <1>3 DEF Revalidate, At, Recorded
    <2>2. CASE jobs' = jobs
      BY <2>2, <1>f
    <2>3. CASE Store(c, "QUARANTINED") /\ pc[c] \in Recorded
      BY <2>3, <1>t, <1>m DEF Knows, Promise!Next, Promise!Quarantine
    <2> QED BY <2>1, <2>2, <2>3
  <1>4. CASE Accept(c) \/ (WriteLands(c) /\ At(c, "accept"))
    <2>1. Store(c, "SIGNED") /\ pc[c] = "accept"
      BY <1>4 DEF Accept, WriteLands, At
    <2>2. Job(c) \in DOMAIN jobs /\ jobs[Job(c)] = [plan |-> Plan(c), state |-> "SIGNING"]
      BY <2>1, <1>t DEF Knows, Recorded
    <2>3. Plan(c) \in issued \ issuedStale
      BY <2>1, <1>t DEF Knows
    <2> QED BY <2>1, <2>2, <2>3, <1>t, <1>m DEF Promise!Next, Promise!Keep
  <1> QED BY <1>1, <1>2, <1>3, <1>4

\* Before it asks, a call binds the nonce, then opens the record.
LEMMA OpeningSteps ==
    ASSUME IInv, NEW c \in Callers,
           Reserve(c) \/ Record(c) \/ Ask(c) \/ (WriteLands(c) /\ ~At(c, "accept"))
    PROVE  Promise!Next
  <1>t. /\ Job(c) \in Jobs /\ Plan(c) \in Plans /\ call[c] = [job |-> Job(c), plan |-> Plan(c)]
        /\ Knows(c) /\ asked \in [Plans -> Nat] /\ Nonce(c) = Plan(c).nonce
    BY CallTypes DEF IInv, TypeOK, Typed, Knowledge, Nonce, Plan
  <1>1. CASE Reserve(c) \/ (WriteLands(c) /\ At(c, "reserve"))
    <2>1. /\ Plan(c).nonce \notin DOMAIN reserved /\ Job(c) \notin DOMAIN jobs
          /\ reserved' = Promise!With(reserved, Plan(c).nonce, [job |-> Job(c), plan |-> Plan(c)])
          /\ UNCHANGED <<jobs, asked, issued, issuedStale, valid>>
      BY <1>1, <1>t DEF Reserve, WriteLands, At, Knows, Unrecorded, Put, Promise!With, Goto, signerVars
    <2> QED BY <2>1, <1>t DEF Promise!Next, Promise!Bind
  <1>2. CASE Record(c) \/ (WriteLands(c) /\ At(c, "record"))
    <2>1. /\ Nonce(c) \in DOMAIN reserved /\ reserved[Nonce(c)] = call[c]
          /\ Job(c) \notin DOMAIN jobs
      BY <1>2, <1>t DEF Record, WriteLands, At, Knows, Unrecorded, Holding
    <2>2. reserved[Nonce(c)].job = Job(c) /\ reserved[Nonce(c)].plan = Plan(c)
      BY <2>1, <1>t
    <2>3. /\ jobs' = Promise!With(jobs, Job(c), [plan |-> Plan(c), state |-> "SIGNING"])
          /\ UNCHANGED <<reserved, asked, issued, issuedStale, valid>>
      BY <1>2 DEF Record, WriteLands, At, Store, Put, Promise!With, signerVars
    <2>4. Promise!Open(Nonce(c))
      BY <2>1, <2>2, <2>3 DEF Promise!Open
    <2> QED BY <2>1, <2>4 DEF Promise!Next
  <1>3. CASE Ask(c)
    <2>1. /\ Job(c) \in DOMAIN jobs /\ jobs[Job(c)] = [plan |-> Plan(c), state |-> "SIGNING"]
          /\ asked[Plan(c)] = 0
      BY <1>3, <1>t DEF Ask, At, Knows, Recorded
    <2>2. /\ asked' = [asked EXCEPT ![Plan(c)] = 1]
          /\ UNCHANGED <<jobs, reserved, issued, issuedStale, valid>>
      BY <1>3, <1>t, <2>1 DEF Ask, storeVars
    <2>3. Promise!Request(Job(c))
      BY <2>1, <2>2 DEF Promise!Request, Promise!Is
    <2> QED BY <2>3, <1>t DEF Promise!Next
  <1> QED BY <1>1, <1>2, <1>3 DEF WriteLands

\* Every step of the calls and of the world around them is one of SignOnce or none.
LEMMA PromiseStep ==
    ASSUME IInv, [Next]_vars
    PROVE  [Promise!Next]_(Promise!promiseVars)
  <1> USE DEF Promise!promiseVars
  <1>1. ASSUME NEW c \in Callers, CallerStep(c) \/ Crash(c)
        PROVE  [Promise!Next]_(Promise!promiseVars)
    BY <1>1, UnseenSteps, SettlingSteps, OpeningSteps DEF CallerStep
  <1>2. ASSUME NEW c \in Callers, NEW j \in Jobs, NEW p \in Plans, Call(c, j, p)
        PROVE  [Promise!Next]_(Promise!promiseVars)
    BY <1>2, UnseenSteps
  <1>3. CASE RemoveAbandonedLock
    BY <1>3 DEF RemoveAbandonedLock, callVars, signerVars
  <1>4. ASSUME NEW p \in Plans, SignerSigns(p) PROVE Promise!Next
    BY <1>4 DEF SignerSigns, storeVars, Promise!Next, Promise!Issue
  <1>5. ASSUME NEW p \in Plans, Invalidate(p) PROVE Promise!Next
    BY <1>5 DEF Invalidate, storeVars, signerVars, Promise!Next, Promise!Invalidate
  <1>6. CASE UNCHANGED vars
    BY <1>6 DEF vars, storeVars, signerVars
  <1> QED BY <1>1, <1>2, <1>3, <1>4, <1>5, <1>6 DEF Next

\* Whatever races, crashes and times out, sign() shows its users the steps of
\* SignOnce and no other.
THEOREM SigningIsOnce == Spec => ImplementsSignOnce
  <1>1. Init => Promise!Init
    BY DEF Init, Promise!Init
  <1>2. IInv /\ [Next]_vars => [Promise!Next]_(Promise!promiseVars)
    BY PromiseStep
  <1> QED BY <1>1, <1>2, Invariance, PTL DEF Spec, Promise!Spec, ImplementsSignOnce
=============================================================================
