----------------------------- MODULE CreRunner -----------------------------
(***************************************************************************)
(* CreExecutionRunner.run (apps/web/src/lib/server/                        *)
(* cre-execution-runner.ts): a decision on a fresh preflight, made by the  *)
(* workflow that the CRE command line tool simulates in a process of its   *)
(* own.  The tool reads one shared configuration file, fetches the request *)
(* from a server on one fixed port, may hang, print anything or outlive    *)
(* the process that started it.  Time passes between any two awaits, and a *)
(* snapshot is worth MaxAge seconds and MaxLag blocks.                     *)
(*                                                                         *)
(* A run is one call of run() in the server's process, which may die;      *)
(* hashes are injective, so a request is named by its run.                 *)
(***************************************************************************)
EXTENDS Naturals, Sequences

CONSTANTS
    MaxRuns,        \* runs of the instance, numbered in the order they begin
    MaxAge, MaxLag, \* seconds and blocks a snapshot is good for
    MaxValidity,    \* longest life of an intent
    MaxTime, MaxBlocks  \* end of the instance's clock, length of its chain

ASSUME RunnerAssumption ==
    {MaxRuns, MaxAge, MaxLag, MaxValidity, MaxTime, MaxBlocks} \subseteq Nat

Runs == 1..MaxRuns
NoRun == 0

VARIABLES
    now,            \* seconds, on every clock
    blocks,         \* the chain: times of the blocks, versions of market and gate
    locked,         \* the lock directory "runner" exists
    port,           \* run whose server listens, or NoRun
    config,         \* run named by the configuration file, or NoRun
    record,         \* run -> state of its record run-<id>, or "none"
    pc,             \* run -> its next await
    request,        \* run -> block and times of its preflight
    result,         \* run -> what it has validated
    cli,            \* run -> the tool it started
    owned           \* runs whose result this process vouches for, readTrustedRun

fileVars == <<locked, config, record>>
callVars == <<pc, request, result, owned>>
worldVars == <<now, blocks>>
runnerVars == <<worldVars, fileVars, callVars, port, cli>>

NoRequest == [block |-> 0, builtAt |-> 0, expiresAt |-> 0]
NoResult == [about |-> NoRun, verdict |-> "none", acceptedAt |-> 0]
NoTool == [at |-> "none", config |-> NoRun, body |-> NoRun, verdict |-> "none"]

RunnerInit ==
    /\ now = 1 /\ blocks = <<[time |-> 1, version |-> 0]>>
    /\ locked = FALSE /\ port = NoRun /\ config = NoRun
    /\ record = [r \in Runs |-> "none"] /\ pc = [r \in Runs |-> "idle"]
    /\ request = [r \in Runs |-> NoRequest] /\ result = [r \in Runs |-> NoResult]
    /\ cli = [r \in Runs |-> NoTool]
    /\ owned = {}

At(r, here) == pc[r] = here
Goto(r, there) == pc' = [pc EXCEPT ![r] = there]
Running(r) == pc[r] \notin {"idle", "ended"}

\* assertFreshSnapshot at block head.  fetchedAt is never before the time of the
\* block, so the block is what ages.
FreshAt(b, head) ==
    /\ now - blocks[b].time \in 0 .. MaxAge
    /\ head - b \in 0 .. MaxLag

\* What the workflow and the runner check: freshness at the head that the
\* preflight names, and the intent's expiry.
Alive(q) == q # NoRequest /\ FreshAt(q.block, q.block) /\ now < q.expiresAt

(***************************************************************************)
(* run(), await by await                                                   *)
(***************************************************************************)

Enter(r) ==
    /\ At(r, "idle") /\ Goto(r, "compile")
    /\ \A q \in Runs : q < r => ~At(q, "idle")
    /\ ~locked /\ locked' = TRUE
    /\ UNCHANGED <<worldVars, config, record, request, result, owned, port, cli>>

\* The compiler runs bounded too; without a request nothing is recorded.
Compile(r) ==
    /\ At(r, "compile")
    /\ Goto(r, "build") \/ Goto(r, "unlock")
    /\ UNCHANGED <<worldVars, fileVars, request, result, owned, port, cli>>

\* createPreflight: fresh when validated, with an expiry within MaxValidity.
Build(r) ==
    /\ At(r, "build")
    /\ \/ /\ \E preflight \in [block : 1 .. Len(blocks), builtAt : {now},
                                expiresAt : now + 1 .. now + MaxValidity] :
                /\ FreshAt(preflight.block, Len(blocks))
                /\ request' = [request EXCEPT ![r] = preflight]
          /\ Goto(r, "listen")
       \/ Goto(r, "unlock") /\ UNCHANGED request
    /\ UNCHANGED <<worldVars, fileVars, result, owned, port, cli>>

\* One fixed port: it may be taken.
Listen(r) ==
    /\ At(r, "listen")
    /\ \/ port = NoRun /\ port' = r /\ Goto(r, "configure")
       \/ Goto(r, "fail") /\ UNCHANGED port
    /\ UNCHANGED <<worldVars, fileVars, request, result, owned, cli>>

Configure(r) ==
    /\ At(r, "configure")
    /\ \/ config' = r /\ Goto(r, "recordRunning")
       \/ Goto(r, "fail") /\ UNCHANGED config
    /\ UNCHANGED <<worldVars, locked, record, request, result, owned, port, cli>>

RecordRunning(r) ==
    /\ At(r, "recordRunning")
    /\ \/ record' = [record EXCEPT ![r] = "RUNNING"] /\ Goto(r, "spawn")
       \/ Goto(r, "fail") /\ UNCHANGED record
    /\ UNCHANGED <<worldVars, locked, config, request, result, owned, port, cli>>

Spawn(r) ==
    /\ At(r, "spawn")
    /\ \/ cli' = [cli EXCEPT ![r].at = "started"] /\ Goto(r, "await")
       \/ Goto(r, "fail") /\ UNCHANGED cli
    /\ UNCHANGED <<worldVars, fileVars, request, result, owned, port>>

\* Mutant: the tool may take as long as it likes.
AwaitToolForever(r) ==
    /\ At(r, "await")
    /\ \/ cli[r].at = "exited" /\ Goto(r, "accept")
       \/ cli[r].at = "failed" /\ Goto(r, "fail")
    /\ UNCHANGED <<worldVars, fileVars, request, result, owned, port, cli>>

\* runBoundedProcess: the first of close, error, timeout and too much output
\* decides; the last two kill the whole process group.
AwaitTool(r) ==
    /\ At(r, "await")
    /\ \/ cli[r].at = "exited" /\ Goto(r, "accept") /\ UNCHANGED cli
       \/ cli[r].at = "failed" /\ Goto(r, "fail") /\ UNCHANGED cli
       \/ cli' = [cli EXCEPT ![r] = [NoTool EXCEPT !.at = "killed"]] /\ Goto(r, "fail")
    /\ UNCHANGED <<worldVars, fileVars, request, result, owned, port>>

\* Mutant: the result is validated without regard to the time it took.
ValidResultEver(r) == cli[r].verdict \in {"ALLOW", "BLOCK"} /\ cli[r].config = r

\* parseCreOutput finds exactly one result, and validateExecutionResult finds it
\* bound to this request and this run, fresh and unexpired.
ValidResult(r) == ValidResultEver(r) /\ Alive(request[r])

Accept(r) ==
    /\ At(r, "accept")
    /\ IF ValidResult(r)
       THEN /\ result' = [result EXCEPT ![r] =
                 [about |-> cli[r].config, verdict |-> cli[r].verdict, acceptedAt |-> now]]
            /\ Goto(r, "recordCompleted")
       ELSE Goto(r, "fail") /\ UNCHANGED result
    /\ cli' = [cli EXCEPT ![r] = NoTool]
    /\ UNCHANGED <<worldVars, fileVars, request, owned, port>>

RecordCompleted(r) ==
    /\ At(r, "recordCompleted")
    /\ \/ record' = [record EXCEPT ![r] = "COMPLETED"] /\ Goto(r, "own")
       \/ Goto(r, "fail") /\ UNCHANGED record
    /\ UNCHANGED <<worldVars, locked, config, request, result, owned, port, cli>>

Own(r) ==
    /\ At(r, "own") /\ Goto(r, "close")
    /\ owned' = owned \cup {r}
    /\ UNCHANGED <<worldVars, fileVars, request, result, port, cli>>

\* The catch: FAILED is written, if it can be.
RecordFailed(r) ==
    /\ At(r, "fail") /\ Goto(r, "close")
    /\ record' \in {record, [record EXCEPT ![r] = "FAILED"]}
    /\ UNCHANGED <<worldVars, locked, config, request, result, owned, port, cli>>

\* The tool of run q holds a connection to the server of run r.
Open(q, r) == cli[q].at \in {"connected", "evaluated"} /\ cli[q].body = r

\* Mutant: the server waits for its connections to end.
CloseGracefully(r) ==
    /\ At(r, "close") /\ Goto(r, "unlock")
    /\ port = r => \A q \in Runs : ~Open(q, r)
    /\ port' = IF port = r THEN NoRun ELSE port
    /\ UNCHANGED <<worldVars, fileVars, request, result, owned, cli>>

\* The finally ends every connection, an orphan's too, and stops listening.
Close(r) ==
    /\ At(r, "close") /\ Goto(r, "unlock")
    /\ port' = IF port = r THEN NoRun ELSE port
    /\ UNCHANGED <<worldVars, fileVars, request, result, owned, cli>>

\* The finally of exclusive().  What the call did not come to own is forgotten.
Unlock(r) ==
    /\ At(r, "unlock") /\ Goto(r, "ended")
    /\ locked' = FALSE
    /\ request' = IF r \in owned THEN request ELSE [request EXCEPT ![r] = NoRequest]
    /\ result' = IF r \in owned THEN result ELSE [result EXCEPT ![r] = NoResult]
    /\ UNCHANGED <<worldVars, config, record, owned, port, cli>>

RunnerStep(r) ==
    \/ Compile(r) \/ Build(r) \/ Listen(r) \/ Configure(r) \/ RecordRunning(r) \/ Spawn(r)
    \/ AwaitTool(r) \/ Accept(r) \/ RecordCompleted(r) \/ Own(r) \/ RecordFailed(r)
    \/ Close(r) \/ Unlock(r)

(***************************************************************************)
(* The tool and the workflow it runs                                       *)
(***************************************************************************)

Tool(q, here, next) == cli[q].at = here /\ cli' = [cli EXCEPT ![q] = next]
ToolUnchanged == UNCHANGED <<worldVars, fileVars, callVars, port>>

ReadConfig(q) ==
    /\ Tool(q, "started", [cli[q] EXCEPT !.at = "configured", !.config = config])
    /\ ToolUnchanged

\* GET /review, answered by whichever run is listening.
Fetch(q) ==
    /\ port # NoRun
    /\ Tool(q, "configured", [cli[q] EXCEPT !.at = "connected", !.body = port])
    /\ ToolUnchanged

\* evaluateConfidentialRequest: only the request its configuration names, and
\* only while that is fresh.
Evaluate(q) ==
    LET r == cli[q].config IN
    /\ cli[q].at = "connected" /\ cli[q].body = r
    /\ Alive(request[r])
    /\ \E verdict \in {"ALLOW", "BLOCK"} :
          Tool(q, "connected", [cli[q] EXCEPT !.at = "evaluated", !.verdict = verdict])
    /\ ToolUnchanged

\* The output holds the result alone, or none, or something that looks like a second.
Exit(q) ==
    /\ \E verdict \in {cli[q].verdict, "ambiguous"} :
          Tool(q, "evaluated", [cli[q] EXCEPT !.at = "exited", !.body = NoRun,
                                              !.verdict = verdict])
    /\ ToolUnchanged

ToolFails(q) ==
    /\ cli[q].at \in {"started", "configured", "connected", "evaluated"}
    /\ cli' = [cli EXCEPT ![q] = IF Running(q) THEN [NoTool EXCEPT !.at = "failed"] ELSE NoTool]
    /\ ToolUnchanged

ToolStep(q) == ReadConfig(q) \/ Fetch(q) \/ Evaluate(q) \/ Exit(q) \/ ToolFails(q)

(***************************************************************************)
(* Time and crashes                                                        *)
(***************************************************************************)

Tick ==
    /\ now < MaxTime /\ now' = now + 1
    /\ UNCHANGED <<blocks, fileVars, callVars, port, cli>>

\* A block may carry a time that the clocks have yet to reach.
Mine ==
    /\ Len(blocks) < MaxBlocks
    /\ LET last == blocks[Len(blocks)] IN
       \E block \in [time : now .. now + 1, version : last.version .. last.version + 1] :
          block.time > last.time /\ blocks' = Append(blocks, block)
    /\ UNCHANGED <<now, fileVars, callVars, port, cli>>

\* The process dies: its server goes with it, and what it owned.  The lock
\* directory stays, and a tool goes on alone; one that has its request can only
\* finish, unheard.
Crash ==
    /\ owned # {} \/ \E r \in Runs : Running(r)
    /\ pc' = [r \in Runs |-> IF At(r, "idle") THEN "idle" ELSE "ended"]
    /\ owned' = {} /\ port' = NoRun
    /\ request' = [r \in Runs |-> NoRequest] /\ result' = [r \in Runs |-> NoResult]
    /\ cli' = [r \in Runs |-> IF cli[r].at \in {"started", "configured"} THEN cli[r] ELSE NoTool]
    /\ UNCHANGED <<worldVars, fileVars>>

RemoveAbandonedLock ==
    /\ locked /\ \A r \in Runs : ~Running(r)
    /\ locked' = FALSE
    /\ UNCHANGED <<worldVars, config, record, callVars, port, cli>>

\* All that may happen once no new run is begun.
RunnerGoesOn ==
    \/ \E r \in Runs : RunnerStep(r) \/ ToolStep(r)
    \/ Crash \/ RemoveAbandonedLock \/ Tick \/ Mine

RunnerNext == RunnerGoesOn \/ \E r \in Runs : Enter(r)

RunnerSpec == RunnerInit /\ [][RunnerNext]_runnerVars

(***************************************************************************)
(* Properties                                                              *)
(***************************************************************************)

\* What the process vouches for (readTrustedRun) is on record as completed, answers
\* the run's own request and no orphan's, and was accepted while that request was
\* fresh and the intent unexpired, however long the tool took to answer.
OwnDecision ==
    \A r \in owned :
        /\ record[r] = "COMPLETED" /\ result[r].about = r
        /\ result[r].acceptedAt \in request[r].builtAt .. request[r].expiresAt - 1
        /\ result[r].acceptedAt - blocks[request[r].block].time <= MaxAge
=============================================================================
