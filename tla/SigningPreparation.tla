------------------------- MODULE SigningPreparation -------------------------
(***************************************************************************)
(* What stands between a decision and a signature: the review on record    *)
(* (scoped-review-store.ts, review-store.ts), and the preparations that    *)
(* read the chain, the clock and the review before a plan is handed to the *)
(* signing service and again before and after it signs.  Every read is an  *)
(* await in which time passes, and may be answered by a node that lags or  *)
(* not at all.                                                             *)
(*                                                                         *)
(* The runs of the console are scoped (exact-state-v1): their snapshot may *)
(* age beyond MaxAge, since checkScopedAuthorization takes a fresh one of  *)
(* the same state in every check (scoped-authorization.ts) and             *)
(* ConsoleService.check refuses once that has aged; prepareLifecyclePlan   *)
(* (lifecycle-preflight.ts) draws up the plan.  Any other run is bound to  *)
(* its own snapshot: prepareExecutionCall and prepareRelaySigning          *)
(* (execution-preflight.ts, execution-relay.ts) prepare its execution,     *)
(* checkLifecycle and prepareLifecyclePlan the other legs.  Forks, code    *)
(* hashes, roles and what a snapshot says are not modelled here:           *)
(* ReviewedState has forks and contents.                                   *)
(*                                                                         *)
(* The runs are those of CreRunner.  All of it happens in operations that  *)
(* the console's lock keeps apart, so a preparation runs alone.            *)
(***************************************************************************)
EXTENDS CreRunner

CONSTANTS
    ScopedRuns      \* the runs of authorizationMode exact-state-v1

ASSUME ScopedAssumption == ScopedRuns \subseteq Runs

VARIABLES
    reviews,        \* run -> when its review says it was approved, or 0
    prep            \* the preparation under way

vars == <<runnerVars, reviews, prep>>

Paths == {"scoped", "relay", "lifecycle"}
NoPreparation == [at |-> "idle", run |-> NoRun, path |-> "none", planned |-> FALSE,
                  fresh |-> 0, live |-> 0]     \* blocks of the snapshot and of the gate

Init ==
    /\ RunnerInit
    /\ reviews = [r \in Runs |-> 0]
    /\ prep = NoPreparation

InPreparation(here) == prep.at = here
Continue(there) == prep' = [prep EXCEPT !.at = there]

\* exclusive("console"): one operation at a time.
ConsoleFree == InPreparation("idle") /\ \A r \in Runs : ~Running(r)

(***************************************************************************)
(* The review                                                              *)
(***************************************************************************)

\* record(): inside the life of the decision, and never twice.
Review(r) ==
    /\ ConsoleFree
    /\ r \in owned /\ result[r].verdict = "ALLOW" /\ reviews[r] = 0
    /\ now < request[r].expiresAt
    /\ \E approvedAt \in request[r].builtAt .. now :
          reviews' = [reviews EXCEPT ![r] = approvedAt]
    /\ UNCHANGED <<runnerVars, prep>>

\* get() with verify().
Reviewed(r) ==
    /\ reviews[r] \in request[r].builtAt .. now
    /\ now < request[r].expiresAt

(***************************************************************************)
(* A preparation, await by await                                           *)
(***************************************************************************)

Begin(r, path) ==
    /\ ConsoleFree /\ r \in owned
    /\ path = "scoped" <=> r \in ScopedRuns
    /\ prep' = [NoPreparation EXCEPT !.at = "bind", !.run = r, !.path = path]
    /\ UNCHANGED <<runnerVars, reviews>>

\* validateExecutionResult and the verdict; then the snapshot is corroborated.
Bind ==
    /\ InPreparation("bind") /\ prep.path # "scoped"
    /\ result[prep.run].verdict = "ALLOW" /\ Alive(request[prep.run])
    /\ prep' = [prep EXCEPT !.at = "live", !.fresh = request[prep.run].block]
    /\ UNCHANGED <<runnerVars, reviews>>

\* bindScopedRun: the result was valid when it was accepted.
BindScoped ==
    /\ InPreparation("bind") /\ prep.path = "scoped" /\ Continue("snapshot")
    /\ result[prep.run].verdict = "ALLOW" /\ now < request[prep.run].expiresAt
    /\ UNCHANGED <<runnerVars, reviews>>

\* A new snapshot, fresh when it is validated, of the reviewed state and not before it.
ReadSnapshot ==
    LET reviewed == request[prep.run].block IN
    /\ InPreparation("snapshot")
    /\ \E b \in reviewed .. Len(blocks) :
          /\ FreshAt(b, b) /\ blocks[b].version = blocks[reviewed].version
          /\ prep' = [prep EXCEPT !.at = "live", !.fresh = b]
    /\ UNCHANGED <<runnerVars, reviews>>

\* The gate, read at one block of whichever node answers.
ReadLive ==
    /\ InPreparation("live")
    /\ \E b \in 1 .. Len(blocks) :
          /\ blocks[b].version = blocks[request[prep.run].block].version
          /\ prep' = [prep EXCEPT !.at = "review", !.live = b]
    /\ UNCHANGED <<runnerVars, reviews>>

\* The check as a whole has passed: a plan may be drawn up, or is confirmed.
Passed == Continue(IF prep.planned THEN "ready" ELSE "plan")

\* The review, and with it every check that compares times.
ReadReview ==
    LET r == prep.run
        live == blocks[prep.live] IN
    /\ InPreparation("review") /\ prep.path # "scoped"
    /\ Reviewed(r) /\ FreshAt(prep.fresh, prep.live) /\ now < request[r].expiresAt
    /\ live.time <= now /\ now - live.time <= MaxAge
    /\ prep.path = "relay" => live.time >= blocks[prep.fresh].time
    /\ IF prep.path = "relay" THEN Continue("canonical") ELSE Passed
    /\ UNCHANGED <<runnerVars, reviews>>

ReadCanonical ==
    /\ InPreparation("canonical") /\ Passed
    /\ FreshAt(prep.fresh, prep.live) /\ now < request[prep.run].expiresAt
    /\ UNCHANGED <<runnerVars, reviews>>

ReadScopedReview ==
    /\ InPreparation("review") /\ prep.path = "scoped" /\ Continue("observed")
    /\ Reviewed(prep.run)
    /\ UNCHANGED <<runnerVars, reviews>>

\* Both blocks are canonical still, and then every check that compares times.
ReadObserved ==
    LET live == blocks[prep.live] IN
    /\ InPreparation("observed") /\ Continue("checkpoint")
    /\ FreshAt(prep.fresh, prep.live) /\ now < request[prep.run].expiresAt
    /\ live.time \in blocks[prep.fresh].time .. now /\ now - live.time <= MaxAge
    /\ UNCHANGED <<runnerVars, reviews>>

\* Mutant: the clock is not read again once the checkpoint is on disk.
CheckpointSaved ==
    /\ InPreparation("checkpoint") /\ Passed
    /\ UNCHANGED <<runnerVars, reviews>>

\* The checkpoint is saved, and must not have expired meanwhile.
SaveCheckpoint ==
    /\ InPreparation("checkpoint") /\ Passed
    /\ now < request[prep.run].expiresAt /\ now < blocks[prep.fresh].time + MaxAge
    /\ UNCHANGED <<runnerVars, reviews>>

\* Nonce, gas, fees and balance make the plan.
ReadFees ==
    /\ InPreparation("plan")
    /\ prep' = [prep EXCEPT !.at = "nonce", !.planned = TRUE, !.fresh = 0, !.live = 0]
    /\ UNCHANGED <<runnerVars, reviews>>

\* revalidate(): an unchanged nonce first, the whole check last.
ReadNonce ==
    /\ InPreparation("nonce") /\ Continue("bind")
    /\ UNCHANGED <<runnerVars, reviews>>

\* The signing service calls revalidate() again.
Revalidate ==
    /\ InPreparation("ready")
    /\ prep' = [prep EXCEPT !.at = "nonce", !.fresh = 0, !.live = 0]
    /\ UNCHANGED <<runnerVars, reviews>>

\* Any await may fail, any check may throw, and a plan is used up.
Finish ==
    /\ ~InPreparation("idle") /\ prep' = NoPreparation
    /\ UNCHANGED <<runnerVars, reviews>>

Prepare ==
    \/ \E r \in Runs, path \in Paths : Begin(r, path)
    \/ Bind \/ BindScoped \/ ReadSnapshot \/ ReadLive
    \/ ReadReview \/ ReadCanonical \/ ReadScopedReview \/ ReadObserved \/ SaveCheckpoint
    \/ ReadFees \/ ReadNonce \/ Revalidate \/ Finish

(***************************************************************************)
(* The runner beside it                                                    *)
(***************************************************************************)

\* No run begins while a preparation is under way.  With the process goes the
\* preparation; a review stays on disk, where nothing will ask for it again.
Run ==
    /\ RunnerGoesOn \/ (ConsoleFree /\ \E r \in Runs : Enter(r))
    /\ reviews' = [r \in Runs |-> IF r \in owned \ owned' THEN 0 ELSE reviews[r]]
    /\ prep' = IF prep.run \in owned \ owned' THEN NoPreparation ELSE prep

Next == Run \/ Prepare \/ \E r \in Runs : Review(r)

\* Every await of run() is bounded: the compiler and the tool by their timeouts, the
\* reads of the preflight by the client's, and the file system answers.
Fairness == \A r \in Runs : WF_vars(RunnerStep(r) /\ Run)

Spec == Init /\ [][Next]_vars /\ Fairness

(***************************************************************************)
(* Properties                                                              *)
(***************************************************************************)

\* A run ends and gives back the port and the lock, whatever its tool does and
\* whoever else still holds a connection to its server (run() of the runner); no other
\* begins before it has.
EveryRunEnds == (\E r \in Runs : Running(r)) ~> (\A r \in Runs : ~Running(r))

\* A plan is handed to the signing service, the first time and after every
\* revalidation, only for an ALLOW this process vouches for, with a review made during
\* its life, only while the intent is unexpired and a snapshot of the reviewed version is
\* fresh, and with the gate read in that version at a recent block, not far from the
\* snapshot: at the moment it is handed over, though each of these was read in an await
\* of its own.  The snapshot is the reviewed one or, of a scoped run, whose reviewed
\* snapshot may be stale by then, one taken in the last check.
PlanIsSound ==
    [][LET r == prep.run
           snapshot == blocks[prep.fresh]
           live == blocks[prep.live] IN
       prep'.at = "ready" /\ prep.at # "ready" =>
          /\ r \in owned /\ result[r].verdict = "ALLOW"
          /\ reviews[r] \in request[r].builtAt .. now /\ now < request[r].expiresAt
          /\ prep.fresh >= request[r].block /\ FreshAt(prep.fresh, prep.live)
          /\ prep.fresh # request[r].block => r \in ScopedRuns
          /\ now - live.time \in 0 .. MaxAge
          /\ {snapshot.version, live.version} = {blocks[request[r].block].version}
    ]_vars
=============================================================================
