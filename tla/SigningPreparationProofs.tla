---------------------- MODULE SigningPreparationProofs ----------------------
(***************************************************************************)
(* What the runner and the preparation promise together, for any number of *)
(* runs and blocks, any clock and any bounds on age, lag and validity: a   *)
(* result the process vouches for is the run's own and was fresh when it   *)
(* was accepted, and a plan is handed over only on what is true of it then.*)
(***************************************************************************)
EXTENDS SigningPreparation, TLAPS

Requests == [block : Nat, builtAt : Nat, expiresAt : Nat]
Results == [about : Nat, verdict : {"none", "ALLOW", "BLOCK"}, acceptedAt : Nat]
Blocks == [time : Nat, version : Nat]
Steps == {"idle", "compile", "build", "listen", "configure", "recordRunning", "spawn", "await",
          "accept", "recordCompleted", "own", "fail", "close", "unlock", "ended"}

Typed ==
    /\ now \in Nat
    /\ blocks \in Seq(Blocks) /\ blocks # <<>>
    /\ record \in [Runs -> {"none", "RUNNING", "COMPLETED", "FAILED"}]
    /\ pc \in [Runs -> Steps]
    /\ request \in [Runs -> Requests] /\ result \in [Runs -> Results]
    /\ owned \subseteq Runs

\* A request names a block of the chain and was built in the past.
Built(q) == q.block \in 1 .. Len(blocks) /\ q.builtAt <= now

\* A validated result answers the run's own request, and did so in time.
Accepted(r) ==
    /\ Built(request[r])
    /\ result[r].about = r
    /\ result[r].acceptedAt \in request[r].builtAt .. request[r].expiresAt - 1
    /\ result[r].acceptedAt - blocks[request[r].block].time <= MaxAge

\* What holds of a run where it is.
Knows(r) ==
    /\ request[r] # NoRequest => Built(request[r])
    /\ pc[r] \in {"recordCompleted", "own"} => Accepted(r)
    /\ pc[r] = "own" => record[r] = "COMPLETED"
    /\ r \in owned => /\ pc[r] \in {"close", "unlock", "ended"}
                      /\ record[r] = "COMPLETED" /\ Accepted(r)

RunnerInv == Typed /\ \A r \in Runs : Knows(r)

(***************************************************************************)
(* The runner                                                              *)
(***************************************************************************)

LEMMA Lengths ==
    ASSUME Typed
    PROVE  Len(blocks) \in Nat \ {0} /\ \A b \in 1 .. Len(blocks) : blocks[b] \in Blocks
BY DEF Typed

\* Where run r may go in one step, and what that step may change: nothing of any
\* other run, nor of the clock and the chain.
Moves(r) ==
    /\ UNCHANGED worldVars
    /\ \E next \in Steps : pc' = [pc EXCEPT ![r] = next]
    /\ \A v \in Runs : v # r => /\ request'[v] = request[v] /\ result'[v] = result[v]
                                /\ record'[v] = record[v] /\ (v \in owned' <=> v \in owned)
    /\ Typed'

LEMMA Stays ==
    ASSUME Typed, NEW r \in Runs, Moves(r), NEW v \in Runs, v # r, Knows(v)
    PROVE  Knows(v)'
<1>1. /\ pc'[v] = pc[v] /\ request'[v] = request[v] /\ result'[v] = result[v]
      /\ record'[v] = record[v] /\ (v \in owned' <=> v \in owned)
    BY DEF Moves, Typed
<1>2. blocks' = blocks /\ now' = now
    BY DEF Moves, worldVars
<1> QED BY <1>1, <1>2 DEF Knows, Accepted, Built

\* The steps that neither make a request nor a result.
LEMMA PlainSteps ==
    ASSUME RunnerInv, NEW r \in Runs,
           \/ Enter(r) \/ Compile(r) \/ Listen(r) \/ Configure(r) \/ RecordRunning(r)
           \/ Spawn(r) \/ AwaitTool(r) \/ RecordCompleted(r) \/ Own(r) \/ RecordFailed(r)
           \/ Close(r) \/ Unlock(r)
    PROVE  Moves(r) /\ Knows(r)'
<1> USE DEF At, Goto, worldVars, fileVars
<1>t. Typed /\ Knows(r)
    BY DEF RunnerInv
<1>q. NoRequest \in Requests /\ NoResult \in Results
    BY DEF NoRequest, NoResult, Requests, Results, NoRun
<1>0. UNCHANGED worldVars
    BY DEF Enter, Compile, Listen, Configure, RecordRunning, Spawn, AwaitTool, RecordCompleted,
           Own, RecordFailed, Close, Unlock
<1>1. CASE \/ Enter(r) \/ Compile(r) \/ Listen(r) \/ Configure(r) \/ Spawn(r) \/ AwaitTool(r)
           \/ Close(r)
    <2>1. /\ UNCHANGED <<request, result, record, owned>>
          /\ \E next \in Steps \ {"recordCompleted", "own"} : pc' = [pc EXCEPT ![r] = next]
          /\ pc[r] \in Steps \ {"unlock", "ended"} /\ (pc[r] = "close" => pc'[r] = "unlock")
        BY <1>1, <1>t DEF Enter, Compile, Listen, Configure, Spawn, AwaitTool, Close, Steps, Typed
    <2>2. Typed'
        BY <1>0, <1>t, <2>1 DEF Typed
    <2>3. Moves(r)
        BY <1>0, <2>1, <2>2 DEF Moves
    <2>4. pc'[r] \notin {"recordCompleted", "own"}
        BY <1>t, <2>1 DEF Typed
    <2> QED BY <1>0, <1>t, <2>1, <2>3, <2>4 DEF Knows, Accepted, Built
<1>2. CASE RecordRunning(r) \/ RecordCompleted(r) \/ RecordFailed(r)
    <2>1. /\ UNCHANGED <<request, result, owned>>
          /\ \E next \in Steps : pc' = [pc EXCEPT ![r] = next]
          /\ record' \in {record, [record EXCEPT ![r] = "RUNNING"], [record EXCEPT ![r] = "FAILED"],
                          [record EXCEPT ![r] = "COMPLETED"]}
          /\ pc[r] \in {"recordRunning", "recordCompleted", "fail"}
        BY <1>2, <1>t DEF RecordRunning, RecordCompleted, RecordFailed, Steps
    <2>2. Typed'
        BY <1>0, <1>t, <2>1 DEF Typed
    <2>3. Moves(r)
        BY <1>0, <1>t, <2>1, <2>2 DEF Moves, Typed
    <2>4. pc'[r] = "own" => pc[r] = "recordCompleted" /\ record'[r] = "COMPLETED"
        BY <1>2, <1>t DEF RecordRunning, RecordCompleted, RecordFailed, Typed
    <2>5. pc'[r] # "recordCompleted" /\ r \notin owned'
        BY <1>2, <1>t, <2>1 DEF RecordRunning, RecordCompleted, RecordFailed, Typed, Knows
    <2> QED BY <1>0, <1>t, <2>1, <2>3, <2>4, <2>5 DEF Knows, Accepted, Built
<1>3. CASE Own(r)
    <2>1. /\ UNCHANGED <<request, result, record>> /\ owned' = owned \cup {r}
          /\ pc[r] = "own" /\ pc' = [pc EXCEPT ![r] = "close"]
        BY <1>3 DEF Own
    <2>2. Typed'
        BY <1>0, <1>t, <2>1 DEF Typed, Steps
    <2>3. Moves(r)
        BY <1>0, <2>1, <2>2 DEF Moves, Steps
    <2> QED BY <1>0, <1>t, <2>1, <2>3 DEF Knows, Accepted, Built, Typed
<1>4. CASE Unlock(r)
    <2>1. /\ UNCHANGED <<record, owned>> /\ pc[r] = "unlock" /\ pc' = [pc EXCEPT ![r] = "ended"]
          /\ request' = IF r \in owned THEN request ELSE [request EXCEPT ![r] = NoRequest]
          /\ result' = IF r \in owned THEN result ELSE [result EXCEPT ![r] = NoResult]
        BY <1>4 DEF Unlock
    <2>2. Typed'
        BY <1>0, <1>q, <1>t, <2>1 DEF Typed, Steps
    <2>3. Moves(r)
        BY <1>0, <1>t, <2>1, <2>2 DEF Moves, Typed, Steps
    <2>4. pc'[r] = "ended" /\ (r \notin owned => request'[r] = NoRequest)
        BY <1>t, <2>1 DEF Typed
    <2> QED BY <1>0, <1>t, <2>1, <2>3, <2>4 DEF Knows, Accepted, Built
<1> QED BY <1>1, <1>2, <1>3, <1>4

\* A request names a block there is; its times are those of the clock.
LEMMA BuildStep ==
    ASSUME RunnerInv, NEW r \in Runs, Build(r), MaxValidity \in Nat
    PROVE  Moves(r) /\ Knows(r)'
<1> USE DEF At, Goto, worldVars, fileVars
<1>t. Typed /\ Knows(r)
    BY DEF RunnerInv
<1>0. /\ UNCHANGED <<now, blocks, record, result, owned>> /\ pc[r] = "build"
    BY DEF Build
<1>1. CASE UNCHANGED request /\ pc' = [pc EXCEPT ![r] = "unlock"]
    <2>1. Typed'
        BY <1>0, <1>1, <1>t DEF Typed, Steps
    <2>2. Moves(r)
        BY <1>0, <1>1, <2>1 DEF Moves, Steps
    <2> QED BY <1>0, <1>1, <1>t, <2>2 DEF Knows, Accepted, Built, Typed
<1>2. CASE \E preflight \in [block : 1 .. Len(blocks), builtAt : {now},
                             expiresAt : now + 1 .. now + MaxValidity] :
              request' = [request EXCEPT ![r] = preflight] /\ pc' = [pc EXCEPT ![r] = "listen"]
    <2>1. PICK preflight \in [block : 1 .. Len(blocks), builtAt : {now},
                              expiresAt : now + 1 .. now + MaxValidity] :
              request' = [request EXCEPT ![r] = preflight] /\ pc' = [pc EXCEPT ![r] = "listen"]
        BY <1>2
    <2>2. preflight \in Requests /\ Built(preflight)
        BY <1>t, Lengths DEF Typed, Requests, Built
    <2>3. Typed'
        BY <1>0, <1>t, <2>1, <2>2 DEF Typed, Steps
    <2>4. Moves(r)
        BY <1>0, <1>t, <2>1, <2>3 DEF Moves, Typed, Steps
    <2>5. pc'[r] = "listen" /\ request'[r] = preflight /\ r \notin owned'
        BY <1>0, <1>t, <2>1 DEF Typed, Knows
    <2> QED BY <1>0, <2>2, <2>4, <2>5 DEF Knows, Built
<1> QED BY <1>1, <1>2 DEF Build

\* A result is validated at the moment it is read, against the run's own request.
LEMMA AcceptStep ==
    ASSUME RunnerInv, NEW r \in Runs, Accept(r)
    PROVE  Moves(r) /\ Knows(r)'
<1> USE DEF At, Goto, worldVars, fileVars
<1>t. Typed /\ Knows(r)
    BY DEF RunnerInv
<1>0. /\ UNCHANGED <<now, blocks, record, request, owned>> /\ pc[r] = "accept" /\ r \notin owned
    BY <1>t DEF Accept, Knows
<1>1. CASE ValidResult(r)
    <2> DEFINE answer == [about |-> cli[r].config, verdict |-> cli[r].verdict, acceptedAt |-> now]
    <2>1. result' = [result EXCEPT ![r] = answer] /\ pc' = [pc EXCEPT ![r] = "recordCompleted"]
        BY <1>1 DEF Accept
    <2>2. cli[r].config = r /\ cli[r].verdict \in {"ALLOW", "BLOCK"} /\ Alive(request[r])
        BY <1>1 DEF ValidResult, ValidResultEver
    <2>3. r \in Nat /\ now \in Nat
        BY <1>t, RunnerAssumption DEF Runs, Typed
    <2>4. answer \in Results
        BY <2>2, <2>3 DEF Results
    <2>5. Typed'
        BY <1>0, <1>t, <2>1, <2>4 DEF Typed, Steps
    <2>6. Moves(r)
        BY <1>0, <1>t, <2>1, <2>5 DEF Moves, Typed, Steps
    <2>7. result'[r] = answer /\ pc'[r] = "recordCompleted" /\ request'[r] = request[r]
        BY <1>0, <1>t, <2>1 DEF Typed
    <2>8. Built(request[r]) /\ request[r] \in Requests
        BY <1>t, <2>2 DEF Knows, Alive, Typed
    <2>9. blocks[request[r].block] \in Blocks
        BY <1>t, <2>8, Lengths DEF Built
    <2>10. Accepted(r)'
        <3>1. now - blocks[request[r].block].time <= MaxAge /\ now < request[r].expiresAt
            BY <2>2, <2>3, <2>9, RunnerAssumption DEF Alive, FreshAt, Blocks
        <3>2. now \in request[r].builtAt .. request[r].expiresAt - 1
            BY <2>3, <2>8, <3>1 DEF Built, Requests
        <3>3. Built(request[r])'
            BY <1>0, <2>8 DEF Built
        <3> QED BY <1>0, <2>2, <2>7, <3>1, <3>2, <3>3 DEF Accepted
    <2> QED BY <1>0, <2>6, <2>7, <2>8, <2>10 DEF Knows, Built
<1>2. CASE ~ValidResult(r)
    <2>1. UNCHANGED result /\ pc' = [pc EXCEPT ![r] = "fail"]
        BY <1>2 DEF Accept
    <2>2. Typed'
        BY <1>0, <1>t, <2>1 DEF Typed, Steps
    <2>3. Moves(r)
        BY <1>0, <2>1, <2>2 DEF Moves, Steps
    <2> QED BY <1>0, <1>t, <2>1, <2>3 DEF Knows, Accepted, Built, Typed
<1> QED BY <1>1, <1>2

\* What every step of the runner keeps: time and chain only grow, and what the
\* process goes on vouching for stays what it was.
Keeps ==
    /\ now <= now' /\ Len(blocks) <= Len(blocks')
    /\ \A b \in 1 .. Len(blocks) : blocks'[b] = blocks[b]
    /\ \A r \in owned \cap owned' : request'[r] = request[r] /\ result'[r] = result[r]

LEMMA CallStep ==
    ASSUME RunnerInv, NEW r \in Runs, Enter(r) \/ RunnerStep(r)
    PROVE  RunnerInv' /\ Keeps
<1>1. Moves(r) /\ Knows(r)'
    BY PlainSteps, BuildStep, AcceptStep, RunnerAssumption DEF RunnerStep
<1>2. \A v \in Runs : Knows(v)'
    BY <1>1, Stays DEF RunnerInv
<1>3. RunnerInv'
    BY <1>1, <1>2 DEF RunnerInv, Moves
<1>4. r \in owned => request'[r] = request[r] /\ result'[r] = result[r]
    <2> SUFFICES ASSUME r \in owned PROVE request'[r] = request[r] /\ result'[r] = result[r]
        OBVIOUS
    <2>1. pc[r] \in {"close", "unlock", "ended"}
        BY DEF RunnerInv, Knows
    <2> QED BY <2>1 DEF Enter, RunnerStep, At, Compile, Build, Listen, Configure, RecordRunning, Spawn,
                       AwaitTool, Accept, RecordCompleted, Own, RecordFailed, Close, Unlock
<1>5. now \in Nat /\ Len(blocks) \in Nat
    BY Lengths DEF RunnerInv, Typed
<1> QED BY <1>1, <1>3, <1>4, <1>5 DEF Keeps, Moves, worldVars, RunnerInv, Typed

\* The tool keeps to itself; a crash forgets, and the rest is time and chain.
LEMMA OtherStep ==
    ASSUME RunnerInv,
           (\E q \in Runs : ToolStep(q)) \/ Crash \/ RemoveAbandonedLock \/ Tick \/ Mine
    PROVE  RunnerInv' /\ Keeps
<1>t. Typed /\ \A r \in Runs : Knows(r)
    BY DEF RunnerInv
<1>l. now \in Nat /\ Len(blocks) \in Nat
    BY <1>t, Lengths DEF Typed
<1>1. CASE (\E q \in Runs : ToolStep(q)) \/ RemoveAbandonedLock
    <2>1. UNCHANGED <<now, blocks, record, pc, request, result, owned>>
        BY <1>1 DEF ToolStep, ReadConfig, Fetch, Evaluate, Exit, ToolFails, ToolUnchanged,
                    RemoveAbandonedLock, worldVars, fileVars, callVars
    <2> QED BY <1>l, <1>t, <2>1 DEF RunnerInv, Keeps, Typed, Knows, Accepted, Built
<1>2. CASE Crash
    <2>1. /\ UNCHANGED <<now, blocks, record>> /\ owned' = {}
          /\ pc' = [r \in Runs |-> IF pc[r] = "idle" THEN "idle" ELSE "ended"]
          /\ request' = [r \in Runs |-> NoRequest] /\ result' = [r \in Runs |-> NoResult]
        BY <1>2 DEF Crash, At, worldVars, fileVars
    <2>2. NoRequest \in Requests /\ NoResult \in Results
        BY DEF NoRequest, NoResult, Requests, Results, NoRun
    <2>3. Typed'
        BY <1>t, <2>1, <2>2 DEF Typed, Steps
    <2>4. \A r \in Runs : Knows(r)'
        BY <2>1 DEF Knows
    <2> QED BY <1>l, <2>1, <2>3, <2>4 DEF RunnerInv, Keeps
<1>3. CASE Tick
    <2>1. UNCHANGED <<blocks, record, pc, request, result, owned>> /\ now' = now + 1
        BY <1>3 DEF Tick, fileVars, callVars
    <2>2. Typed'
        BY <1>t, <2>1 DEF Typed
    <2>3. \A r \in Runs : request[r].builtAt \in Nat
        BY <1>t DEF Typed, Requests
    <2>4. \A r \in Runs : Knows(r)'
        BY <1>l, <1>t, <2>1, <2>3 DEF Knows, Accepted, Built
    <2> QED BY <1>l, <2>1, <2>2, <2>4 DEF RunnerInv, Keeps
<1>4. CASE Mine
    <2>1. PICK block \in [time : now .. now + 1,
                          version : blocks[Len(blocks)].version .. blocks[Len(blocks)].version + 1] :
             blocks' = Append(blocks, block)
        BY <1>4 DEF Mine
    <2>2. UNCHANGED <<now, record, pc, request, result, owned>>
        BY <1>4 DEF Mine, fileVars, callVars
    <2>3. blocks[Len(blocks)].version \in Nat
        BY <1>t, Lengths DEF Blocks
    <2>4. block \in Blocks
        BY <1>l, <2>3 DEF Blocks
    <2>5. /\ blocks' \in Seq(Blocks) /\ blocks' # <<>> /\ Len(blocks') = Len(blocks) + 1
          /\ \A b \in 1 .. Len(blocks) : blocks'[b] = blocks[b]
        BY <1>t, <1>l, <2>1, <2>4 DEF Typed
    <2>6. Typed'
        BY <1>t, <2>2, <2>5 DEF Typed
    <2>7. \A r \in Runs : Knows(r)'
        BY <1>l, <1>t, <2>2, <2>5 DEF Knows, Accepted, Built
    <2> QED BY <1>l, <2>2, <2>5, <2>6, <2>7 DEF RunnerInv, Keeps
<1> QED BY <1>1, <1>2, <1>3, <1>4

LEMMA RunnerStarts == RunnerInit => RunnerInv
<1> SUFFICES ASSUME RunnerInit PROVE RunnerInv
    OBVIOUS
<1>1. NoRequest \in Requests /\ NoResult \in Results
    BY DEF NoRequest, NoResult, Requests, Results, NoRun
<1>2. [time |-> 1, version |-> 0] \in Blocks
    BY DEF Blocks
<1>3. blocks \in Seq(Blocks) /\ blocks # <<>>
    BY <1>2 DEF RunnerInit
<1> QED BY <1>1, <1>3 DEF RunnerInit, RunnerInv, Typed, Steps, Knows

LEMMA RunnerKeeps ==
    ASSUME RunnerInv, [RunnerNext]_runnerVars
    PROVE  RunnerInv' /\ Keeps
<1>1. CASE RunnerNext
    BY <1>1, CallStep, OtherStep DEF RunnerNext, RunnerGoesOn
<1>2. CASE UNCHANGED runnerVars
    <2>1. UNCHANGED <<now, blocks, record, pc, request, result, owned>>
        BY <1>2 DEF runnerVars, worldVars, fileVars, callVars
    <2>2. now \in Nat /\ Len(blocks) \in Nat
        BY Lengths DEF RunnerInv, Typed
    <2> QED BY <2>1, <2>2 DEF RunnerInv, Keeps, Typed, Knows, Accepted, Built
<1> QED BY <1>1, <1>2

(***************************************************************************)
(* The preparation                                                         *)
(***************************************************************************)

PrepSteps == {"idle", "bind", "snapshot", "live", "review", "canonical", "observed", "checkpoint",
              "plan", "nonce", "ready"}
Preparations == [at : PrepSteps, run : Nat, path : Paths \cup {"none"},
                 planned : BOOLEAN, fresh : Nat, live : Nat]

\* The awaits by which the gate, and before it the snapshot, has been read.
LiveRead == {"review", "canonical", "observed", "checkpoint"}
SnapshotRead == LiveRead \cup {"live"}

\* What the awaits behind it have established, and no later await undoes.
PrepKnows ==
    LET r == prep.run
        reviewed == blocks[request[r].block]
        snapshot == blocks[prep.fresh]
        live == blocks[prep.live] IN
    /\ prep.at # "idle" => r \in owned /\ (prep.path = "scoped" <=> r \in ScopedRuns)
    /\ prep.at \in SnapshotRead \cup {"snapshot"} => result[r].verdict = "ALLOW"
    /\ prep.at \in SnapshotRead =>
          /\ prep.fresh \in request[r].block .. Len(blocks)
          /\ snapshot.version = reviewed.version
          /\ prep.path # "scoped" => prep.fresh = request[r].block
    /\ prep.at \in LiveRead =>
          prep.live \in 1 .. Len(blocks) /\ live.version = reviewed.version
    /\ prep.at = "canonical" => prep.path # "scoped"
    /\ prep.at \in {"snapshot", "observed", "checkpoint"} => prep.path = "scoped"
    /\ prep.at \in {"canonical", "observed", "checkpoint"} => reviews[r] \in request[r].builtAt .. now
    /\ prep.at \in {"canonical", "checkpoint"} => live.time \in snapshot.time .. now
    /\ prep.at = "checkpoint" => prep.live - prep.fresh \in 0 .. MaxLag

IInv ==
    /\ RunnerInv
    /\ prep \in Preparations /\ reviews \in [Runs -> Nat]
    /\ PrepKnows

\* The times a request and its blocks carry are numbers, for a run that is owned.
LEMMA OwnedTimes ==
    ASSUME IInv, prep.at # "idle"
    PROVE  LET r == prep.run IN
           /\ r \in Runs /\ r \in owned /\ request[r] \in Requests /\ request[r] # NoRequest
           /\ request[r].block \in 1 .. Len(blocks) /\ request[r].builtAt <= now
           /\ \A b \in 1 .. Len(blocks) : blocks[b].time \in Nat
           /\ now \in Nat /\ Len(blocks) \in Nat
<1>1. prep.run \in owned /\ prep.run \in Runs
    BY DEF IInv, PrepKnows, RunnerInv, Typed
<1>2. Built(request[prep.run])
    BY <1>1 DEF IInv, RunnerInv, Knows, Accepted
<1>3. \A b \in 1 .. Len(blocks) : blocks[b].time \in Nat
    BY Lengths DEF IInv, RunnerInv, Blocks
<1> QED BY <1>1, <1>2, <1>3, Lengths DEF IInv, RunnerInv, Typed, Built, NoRequest

LEMMA RunStep ==
    ASSUME IInv, Run
    PROVE  IInv'
<1>1. RunnerInv' /\ Keeps
    BY RunnerKeeps DEF IInv, Run, RunnerNext
<1>2. prep' = (IF prep.run \in owned \ owned' THEN NoPreparation ELSE prep)
    BY DEF Run
<1>3. reviews' = [r \in Runs |-> IF r \in owned \ owned' THEN 0 ELSE reviews[r]]
    BY DEF Run
<1>4. NoPreparation \in Preparations
    BY DEF NoPreparation, Preparations, PrepSteps, NoRun
<1>5. prep' \in Preparations /\ reviews' \in [Runs -> Nat]
    BY <1>2, <1>3, <1>4 DEF IInv
<1>6. PrepKnows'
    <2>1. CASE prep' = NoPreparation
        BY <2>1 DEF PrepKnows, NoPreparation, LiveRead, SnapshotRead
    <2>2. CASE prep.at = "idle" /\ prep' = prep
        BY <2>2 DEF PrepKnows, LiveRead, SnapshotRead
    <2>3. CASE prep.at # "idle" /\ prep' = prep /\ prep.run \in owned'
        <3> DEFINE r == prep.run
        <3>1. r \in owned \cap owned' /\ r \in Runs /\ request[r].block \in 1 .. Len(blocks)
            BY <2>3, OwnedTimes
        <3>2. /\ request'[r] = request[r] /\ result'[r] = result[r] /\ reviews'[r] = reviews[r]
              /\ blocks'[request[r].block] = blocks[request[r].block]
            BY <1>1, <1>3, <3>1 DEF Keeps
        <3>3. request[r].builtAt \in Nat /\ now \in Nat /\ now' \in Nat /\ now <= now'
            BY <1>1, <2>3, OwnedTimes DEF Keeps, RunnerInv, Typed, Requests
        <3>4. Len(blocks) \in Nat /\ Len(blocks') \in Nat /\ Len(blocks) <= Len(blocks')
            BY <1>1, Lengths DEF Keeps, RunnerInv, IInv, Typed
        <3>5. prep.at \in SnapshotRead =>
                 /\ prep.fresh \in request[r].block .. Len(blocks')
                 /\ blocks'[prep.fresh] = blocks[prep.fresh] /\ blocks[prep.fresh].time \in Nat
            <4> SUFFICES ASSUME prep.at \in SnapshotRead
                         PROVE  /\ prep.fresh \in request[r].block .. Len(blocks')
                                /\ blocks'[prep.fresh] = blocks[prep.fresh]
                                /\ blocks[prep.fresh].time \in Nat
                OBVIOUS
            <4>1. prep.fresh \in request[r].block .. Len(blocks)
                BY DEF IInv, PrepKnows
            <4>2. prep.fresh \in 1 .. Len(blocks)
                BY <3>1, <3>4, <4>1
            <4> QED BY <1>1, <2>3, <3>1, <3>4, <4>1, <4>2, OwnedTimes DEF Keeps
        <3>6. prep.at \in LiveRead =>
                 /\ prep.live \in 1 .. Len(blocks')
                 /\ blocks'[prep.live] = blocks[prep.live] /\ blocks[prep.live].time \in Nat
            <4> SUFFICES ASSUME prep.at \in LiveRead
                         PROVE  /\ prep.live \in 1 .. Len(blocks')
                                /\ blocks'[prep.live] = blocks[prep.live]
                                /\ blocks[prep.live].time \in Nat
                OBVIOUS
            <4>1. prep.live \in 1 .. Len(blocks)
                BY DEF IInv, PrepKnows
            <4> QED BY <1>1, <2>3, <3>4, <4>1, OwnedTimes DEF Keeps
        <3>7. reviews[r] \in Nat
            BY <3>1 DEF IInv
        <3>8. CASE prep.at \in LiveRead
            BY <2>3, <3>1, <3>2, <3>3, <3>5, <3>6, <3>7, <3>8 DEF IInv, PrepKnows, LiveRead, SnapshotRead
        <3>9. CASE prep.at \notin LiveRead
            BY <2>3, <3>1, <3>2, <3>5, <3>9 DEF IInv, PrepKnows, LiveRead, SnapshotRead
        <3> QED BY <3>8, <3>9
    <2> QED BY <1>2, <2>1, <2>2, <2>3 DEF IInv, PrepKnows
<1> QED BY <1>1, <1>5, <1>6 DEF IInv

\* A review is recorded between operations, and a preparation touches only itself.
LEMMA ReviewStep ==
    ASSUME IInv, NEW r \in Runs, Review(r)
    PROVE  IInv'
<1>1. UNCHANGED <<runnerVars, prep>> /\ prep.at = "idle"
    BY DEF Review, ConsoleFree, InPreparation
<1>2. RunnerInv'
    BY <1>1, RunnerKeeps DEF IInv
<1>3. PICK approvedAt \in request[r].builtAt .. now : reviews' = [reviews EXCEPT ![r] = approvedAt]
    BY DEF Review
<1>4. now \in Nat /\ request[r].builtAt \in Nat
    BY DEF IInv, RunnerInv, Typed, Requests
<1>5. reviews' \in [Runs -> Nat]
    BY <1>3, <1>4 DEF IInv
<1> QED BY <1>1, <1>2, <1>5 DEF IInv, PrepKnows, LiveRead, SnapshotRead

LEMMA PrepareStep ==
    ASSUME IInv, Prepare
    PROVE  IInv'
<1> USE DEF InPreparation, Continue, PrepSteps, LiveRead, SnapshotRead
<1>1. UNCHANGED <<runnerVars, reviews>>
    BY DEF Prepare, Begin, Bind, BindScoped, ReadSnapshot, ReadLive, ReadReview, ReadCanonical,
           ReadScopedReview, ReadObserved, SaveCheckpoint, ReadFees, ReadNonce, Revalidate, Finish
<1>2. RunnerInv'
    BY <1>1, RunnerKeeps DEF IInv
<1>3. /\ UNCHANGED <<now, blocks, request, result, owned, reviews>>
      /\ reviews \in [Runs -> Nat] /\ prep \in Preparations
    BY <1>1 DEF runnerVars, worldVars, callVars, IInv
<1>4. prep' \in Preparations /\ PrepKnows'
    <2>1. ASSUME NEW r \in Runs, NEW path \in Paths, Begin(r, path)
          PROVE  prep' \in Preparations /\ PrepKnows'
        <3>1. r \in Nat /\ r \in owned
            BY <2>1, RunnerAssumption DEF Runs, Begin
        <3>2. /\ prep' = [at |-> "bind", run |-> r, path |-> path, planned |-> FALSE,
                           fresh |-> 0, live |-> 0]
              /\ path = "scoped" <=> r \in ScopedRuns
            BY <2>1 DEF Begin, NoPreparation
        <3> QED BY <1>3, <3>1, <3>2 DEF Preparations, Paths, PrepKnows
    <2>2. CASE Bind
        <3>1. prep.at = "bind" /\ prep' = [prep EXCEPT !.at = "live", !.fresh = request[prep.run].block]
            BY <2>2 DEF Bind
        <3>a. prep.path # "scoped" /\ result[prep.run].verdict = "ALLOW"
            BY <2>2 DEF Bind
        <3>2. request[prep.run].block \in 1 .. Len(blocks) /\ Len(blocks) \in Nat
            BY <3>1, OwnedTimes
        <3>3. prep' \in Preparations
            <4>1. request[prep.run].block \in Nat
                BY <3>2
            <4> QED BY <1>3, <3>1, <4>1 DEF Preparations
        <3>4. /\ prep'.at = "live" /\ prep'.fresh = request[prep.run].block
              /\ prep'.run = prep.run /\ prep'.path = prep.path
            BY <1>3, <3>1 DEF Preparations
        <3>5. prep.run \in owned /\ (prep.path = "scoped" <=> prep.run \in ScopedRuns)
            BY <3>1 DEF IInv, PrepKnows
        <3>6. prep'.fresh \in request[prep.run].block .. Len(blocks)
            BY <3>2, <3>4
        <3> QED BY <1>3, <3>a, <3>3, <3>4, <3>5, <3>6 DEF PrepKnows
    <2>a. CASE BindScoped
        BY <1>3, <2>a DEF BindScoped, Preparations, PrepKnows, IInv
    <2>b. CASE ReadSnapshot
        <3>1. PICK b \in request[prep.run].block .. Len(blocks) :
                 /\ blocks[b].version = blocks[request[prep.run].block].version
                 /\ prep' = [prep EXCEPT !.at = "live", !.fresh = b]
            BY <2>b DEF ReadSnapshot
        <3>2. prep.at = "snapshot" /\ request[prep.run].block \in 1 .. Len(blocks) /\ Len(blocks) \in Nat
            BY <2>b, OwnedTimes DEF ReadSnapshot
        <3>3. prep.path = "scoped"
            BY <3>2 DEF IInv, PrepKnows
        <3>4. prep' \in Preparations
            <4>1. b \in Nat
                BY <3>1, <3>2
            <4> QED BY <1>3, <3>1, <4>1 DEF Preparations
        <3>5. /\ prep'.at = "live" /\ prep'.fresh = b
              /\ prep'.run = prep.run /\ prep'.path = prep.path
            BY <1>3, <3>1 DEF Preparations
        <3>6. /\ prep.run \in owned /\ (prep.path = "scoped" <=> prep.run \in ScopedRuns)
              /\ result[prep.run].verdict = "ALLOW"
            BY <3>2 DEF IInv, PrepKnows
        <3> QED BY <1>3, <3>1, <3>3, <3>4, <3>5, <3>6 DEF PrepKnows
    <2>3. CASE ReadLive
        <3>1. PICK b \in 1 .. Len(blocks) :
                 /\ blocks[b].version = blocks[request[prep.run].block].version
                 /\ prep' = [prep EXCEPT !.at = "review", !.live = b]
            BY <2>3 DEF ReadLive
        <3>2. prep.at = "live" /\ b \in Nat
            BY <2>3, Lengths DEF ReadLive
        <3> QED BY <1>3, <3>1, <3>2 DEF Preparations, PrepKnows, IInv
    <2>4. CASE ReadReview
        <3>1. prep.at = "review" /\ prep.path # "scoped" /\ prep.planned \in BOOLEAN
            BY <1>3, <2>4 DEF ReadReview, Preparations
        <3>2. CASE prep.path = "relay"
            <4>1. /\ prep' = [prep EXCEPT !.at = "canonical"] /\ Reviewed(prep.run)
                  /\ blocks[prep.live].time <= now
                  /\ blocks[prep.live].time >= blocks[prep.fresh].time
                BY <2>4, <3>2 DEF ReadReview
            <4>2. /\ prep.live \in 1 .. Len(blocks) /\ prep.fresh \in 1 .. Len(blocks)
                  /\ blocks[prep.live].time \in Nat /\ blocks[prep.fresh].time \in Nat
                  /\ now \in Nat
                BY <3>1, OwnedTimes DEF IInv, PrepKnows
            <4>3. blocks[prep.live].time \in blocks[prep.fresh].time .. now
                BY <4>1, <4>2
            <4> QED BY <1>3, <3>1, <4>1, <4>3 DEF Preparations, PrepKnows, IInv, Reviewed
        <3>3. CASE prep.path # "relay"
            BY <1>3, <2>4, <3>1, <3>3 DEF ReadReview, Passed, Preparations, PrepKnows, IInv
        <3> QED BY <3>2, <3>3
    <2>5. CASE ReadCanonical
        BY <1>3, <2>5 DEF ReadCanonical, Passed, Preparations, PrepKnows, IInv
    <2>c. CASE ReadScopedReview
        BY <1>3, <2>c DEF ReadScopedReview, Reviewed, Preparations, PrepKnows, IInv
    <2>d. CASE ReadObserved
        <3>1. /\ prep.at = "observed" /\ prep' = [prep EXCEPT !.at = "checkpoint"]
              /\ prep.live - prep.fresh \in 0 .. MaxLag
              /\ blocks[prep.live].time \in blocks[prep.fresh].time .. now
            BY <2>d DEF ReadObserved, FreshAt
        <3> QED BY <1>3, <3>1 DEF Preparations, PrepKnows, IInv
    <2>e. CASE SaveCheckpoint
        BY <1>3, <2>e DEF SaveCheckpoint, Passed, Preparations, PrepKnows, IInv
    <2>6. CASE ReadFees
        BY <1>3, <2>6 DEF ReadFees, Preparations, PrepKnows, IInv
    <2>7. CASE ReadNonce
        BY <1>3, <2>7 DEF ReadNonce, Preparations, PrepKnows, IInv
    <2>8. CASE Revalidate
        BY <1>3, <2>8 DEF Revalidate, Preparations, PrepKnows, IInv
    <2>9. CASE Finish
        BY <1>3, <2>9 DEF Finish, NoPreparation, NoRun, Preparations, PrepKnows
    <2> QED BY <2>1, <2>2, <2>a, <2>b, <2>3, <2>4, <2>5, <2>c, <2>d, <2>e, <2>6, <2>7, <2>8, <2>9 DEF Prepare
<1> QED BY <1>2, <1>3, <1>4 DEF IInv

(***************************************************************************)
(* The theorems                                                            *)
(***************************************************************************)

\* Every reachable state of the lane satisfies the inductive invariant.
THEOREM Invariance == Spec => []IInv
<1>1. Init => IInv
    BY RunnerStarts DEF Init, IInv, NoPreparation, NoRun, Preparations, PrepSteps, PrepKnows,
       LiveRead, SnapshotRead
<1>2. IInv /\ [Next]_vars => IInv'
    <2> SUFFICES ASSUME IInv, [Next]_vars PROVE IInv'
        OBVIOUS
    <2>1. CASE UNCHANGED vars
        <3>1. UNCHANGED <<runnerVars, reviews, prep>>
            BY <2>1 DEF vars
        <3>2. RunnerInv'
            BY <3>1, RunnerKeeps DEF IInv
        <3> QED BY <3>1, <3>2 DEF IInv, PrepKnows, runnerVars, worldVars, callVars
    <2> QED BY <2>1, RunStep, ReviewStep, PrepareStep DEF Next
<1> QED BY <1>1, <1>2, PTL DEF Spec

\* A result that readTrustedRun gives out is on record, answers the run's own request,
\* and was accepted in its lifetime: OwnDecision.
THEOREM OwnedDecisions == Spec => []OwnDecision
<1>1. IInv => OwnDecision
    BY DEF IInv, RunnerInv, Typed, Knows, Accepted, OwnDecision
<1> QED BY <1>1, Invariance, PTL

\* A plan is handed over only on what holds at that moment: PlanIsSound.
THEOREM SoundPlans == Spec => PlanIsSound
<1> USE DEF InPreparation, Continue
<1>1. ASSUME IInv, [Next]_vars, prep'.at = "ready", prep.at # "ready"
      PROVE  LET r == prep.run
                 snapshot == blocks[prep.fresh]
                 live == blocks[prep.live] IN
             /\ r \in owned /\ result[r].verdict = "ALLOW"
             /\ reviews[r] \in request[r].builtAt .. now /\ now < request[r].expiresAt
             /\ prep.fresh >= request[r].block /\ FreshAt(prep.fresh, prep.live)
             /\ prep.fresh # request[r].block => r \in ScopedRuns
             /\ now - live.time \in 0 .. MaxAge
             /\ {snapshot.version, live.version} = {blocks[request[r].block].version}
    <2> DEFINE r == prep.run
               snapshot == blocks[prep.fresh]
               live == blocks[prep.live]
    <2>1. prep \in Preparations /\ prep' # prep
        BY <1>1 DEF IInv
    <2>2. prep' # NoPreparation
        BY <1>1 DEF NoPreparation
    <2>3. ReadReview \/ ReadCanonical \/ SaveCheckpoint
        BY <1>1, <2>1, <2>2 DEF Next, vars, Run, Review, Prepare, Begin, NoPreparation, Bind, BindScoped,
           ReadSnapshot, ReadLive, ReadScopedReview, ReadObserved, ReadFees, ReadNonce, Revalidate,
           Finish, Preparations
    <2>4. prep.at \in {"review", "canonical", "checkpoint"}
        BY <2>3 DEF ReadReview, ReadCanonical, SaveCheckpoint
    <2>5. /\ r \in owned /\ (prep.path = "scoped" <=> r \in ScopedRuns) /\ result[r].verdict = "ALLOW"
          /\ prep.fresh \in request[r].block .. Len(blocks) /\ prep.live \in 1 .. Len(blocks)
          /\ prep.path # "scoped" => prep.fresh = request[r].block
          /\ {snapshot.version, live.version} = {blocks[request[r].block].version}
        BY <1>1, <2>4 DEF IInv, PrepKnows, LiveRead, SnapshotRead
    <2>6. /\ request[r].block \in 1 .. Len(blocks) /\ Len(blocks) \in Nat /\ now \in Nat
          /\ \A b \in 1 .. Len(blocks) : blocks[b].time \in Nat
        BY <1>1, <2>4, OwnedTimes
    <2>7. /\ prep.fresh \in Nat /\ prep.fresh >= request[r].block
          /\ live.time \in Nat /\ snapshot.time \in Nat
        BY <2>5, <2>6
    <2>8. MaxAge \in Nat /\ MaxLag \in Nat
        BY RunnerAssumption
    <2>9. /\ reviews[r] \in request[r].builtAt .. now /\ now < request[r].expiresAt
          /\ FreshAt(prep.fresh, prep.live) /\ now - live.time \in 0 .. MaxAge
        <3>1. CASE ReadReview
            <4>1. /\ reviews[r] \in request[r].builtAt .. now /\ now < request[r].expiresAt
                  /\ FreshAt(prep.fresh, prep.live) /\ live.time <= now /\ now - live.time <= MaxAge
                BY <3>1 DEF ReadReview, Reviewed
            <4> QED BY <2>6, <2>7, <2>8, <4>1
        <3>2. CASE ReadCanonical
            <4>1. /\ reviews[r] \in request[r].builtAt .. now /\ live.time \in snapshot.time .. now
                  /\ now < request[r].expiresAt /\ FreshAt(prep.fresh, prep.live)
                BY <1>1, <3>2 DEF ReadCanonical, IInv, PrepKnows
            <4>2. now - snapshot.time <= MaxAge
                BY <2>6, <2>7, <2>8, <4>1 DEF FreshAt
            <4>3. live.time <= now /\ snapshot.time <= live.time
                BY <2>6, <2>7, <4>1
            <4>4. now - live.time \in Nat /\ now - live.time <= MaxAge
                BY <2>6, <2>7, <2>8, <4>2, <4>3
            <4> QED BY <2>8, <4>1, <4>4
        <3>3. CASE SaveCheckpoint
            <4>1. /\ reviews[r] \in request[r].builtAt .. now /\ live.time \in snapshot.time .. now
                  /\ prep.live - prep.fresh \in 0 .. MaxLag
                BY <1>1, <3>3 DEF SaveCheckpoint, IInv, PrepKnows
            <4>2. now < request[r].expiresAt /\ now < snapshot.time + MaxAge
                BY <3>3 DEF SaveCheckpoint
            <4>3. live.time <= now /\ snapshot.time <= live.time
                BY <2>6, <2>7, <4>1
            <4>4. now - snapshot.time \in 0 .. MaxAge
                BY <2>6, <2>7, <2>8, <4>2, <4>3
            <4>5. now - live.time \in 0 .. MaxAge
                BY <2>6, <2>7, <2>8, <4>3, <4>4
            <4> QED BY <4>1, <4>2, <4>4, <4>5 DEF FreshAt
        <3> QED BY <2>3, <3>1, <3>2, <3>3
    <2> QED BY <2>5, <2>7, <2>9
<1>2. IInv /\ [Next]_vars =>
        [LET r == prep.run
             snapshot == blocks[prep.fresh]
             live == blocks[prep.live] IN
         prep'.at = "ready" /\ prep.at # "ready" =>
            /\ r \in owned /\ result[r].verdict = "ALLOW"
            /\ reviews[r] \in request[r].builtAt .. now /\ now < request[r].expiresAt
            /\ prep.fresh >= request[r].block /\ FreshAt(prep.fresh, prep.live)
            /\ prep.fresh # request[r].block => r \in ScopedRuns
            /\ now - live.time \in 0 .. MaxAge
            /\ {snapshot.version, live.version} = {blocks[request[r].block].version}]_vars
    BY <1>1
<1> QED BY <1>2, Invariance, PTL DEF Spec, PlanIsSound
=============================================================================
