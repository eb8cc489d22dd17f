# ParamShield in TLA+

ParamShield lets an operator change one risk parameter (the liquidation threshold) of a
lending market on Sepolia, and only a change that a policy allowed, a human reviewed and an
independent authority decided, applied to exactly the state that was reviewed.  This
directory models the parts of the repository on which that rests, checks them with TLC and
proves the central ones with TLAPS.

- [The system](#the-system)
- [What goes wrong here](#what-goes-wrong-here)
- [The modules](#the-modules)
- [The runs](#the-runs)
- [What the checks found](#what-the-checks-found)
- [The proofs](#the-proofs)
- [Not modelled](#not-modelled)
- [Plan](#plan)

## The system

| Component | State it keeps | Operations | Model |
|---|---|---|---|
| `contracts/src/ParamShieldExecutor.sol`: the on-chain gate | roles, `authorizationEpoch`, `allowedCalls`, proposals, used nonces | propose, recordDecision, execute, markExpired, role and call setters | `ParamShieldExecutor` |
| `contracts/src/ReferenceLendingMarket.sol` with two `MockERC20` | owner, threshold, price, positions, totals, `stateVersion` | seed, deposit, withdraw, borrow, repay, setters, mint, transfer | `ReferenceLendingMarket`; in the gate as a versioned record |
| `durable-store.ts`: files and lock directories | one JSON file per key, `<key>.lock` | read, write, exclusive | `DurableStore` |
| `transaction-signing.ts` | job records, nonce reservations | sign | `TransactionSigning` |
| `operator-control.ts`, `execution-policy.ts`: the provider's policy | the remote policy, `interrupted`, restoration evidence | sign | `OperatorControl` |
| `transaction-broadcast.ts` | broadcast records | send | `TransactionBroadcast` |
| `console-service.ts`, `lifecycle-*.ts`: the flows | one record per flow, the index of flows, runs owned in memory | analyze, reviewPayload, approve, propose, decisionPayload, decisionReceipt, execute, recover, retireExpired, explain, graphAfter | `ConsoleService` |
| `use-console.ts`, `console-state.ts`, `console-request.ts`, `page.tsx`: the browser | marker of the unresolved request in localStorage, each tab's copies | tasks, polls, wallet prompts, recovery | `BrowserConsole` |
| `scoped-authorization.ts`, `scoped-review-store.ts`: may this run act now? | review records | checkScopedAuthorization, record, get | `ReviewedState`; its result is the guard `Check` of `ConsoleService` |
| `rpc-adapter.ts`, `v2-context.ts`, `graph-v2-state.ts`, `graph-client`: reads at a block | none | snapshot, live, corroborateSnapshot, preflight | `ReviewedState` |
| `subgraph/v2`: the index of market and gate | `Market`, `Position`, `Change` entities | one handler per event | `MarketIndex`, `GateIndex` |
| `risk-engine`: what a change would do, and the policy's verdict | none | simulate, assessAndRecommend | `RiskEngine` |
| `cre-execution-runner.ts`, `bounded-process.ts`, `workflows/chainlink-cre`, `evidence`: a decision made by a tool in a process of its own | runs owned in memory, one record per run, one configuration file, one port | run, evaluateConfidentialRequest, validateExecutionResult, createPreflight | `CreRunner`; its outcome in `ReviewedState`, `ConsoleService` |
| `review-store.ts`, `execution-preflight.ts`, `execution-relay.ts`, `lifecycle-preflight.ts`: from a decision to a plan that may be signed | one review per decision | record, get, prepareExecutionCall, prepareRelaySigning, checkLifecycle, prepareLifecyclePlan | `SigningPreparation` |

How they interact.  The browser posts one request at a time to the service, which serves it
under the one lock `operation`.  An operator leg (propose, execute) checks the reviewed
state, fixes an exact transaction plan, opens a policy window at the wallet provider
(`OperatorControl`), has the plan signed inside it (`DurableSigningService`), saves the
hash, and hands the transaction to the network (`DurableBroadcastService`).  The decision is
a transaction of another party, made in a browser wallet: the service only issues its plan
and later reads its receipt.  The chain has the last word: the gate compares versions and
epochs again when it executes.  The decision itself
comes from the CRE command line tool, which the runner starts as a process, feeds over a local
port and a configuration file, and believes only within the life of its request.  Every process
step in between can be the last one before a
crash; what recovery can rely on is what the durable store acknowledged.

## What goes wrong here

`PROJECT.json` lists each hazard at its line.  They fall into six groups.

1. *Stale authority.*  Reviews, roles, allowed calls and markets change between review,
   proposal, decision and execution, and may change back.  Counters (`stateVersion`,
   `authorizationEpoch`) stand for what they count; one mutation that does not move its
   counter breaks everything above it.
2. *Two of the same.*  A retry, a second tab, a second job of the same wallet nonce, a lost
   answer or a crash may turn one approved transaction into two.
3. *Windows left open.*  The exact policy must not outlive its signature, whichever request
   to the provider is lost or late.
4. *Claims ahead of the chain.*  A flow's stage, a marker in the browser or a record on disk
   must never say more than the chain, and recovery must never say less than it said before.
5. *Arithmetic at the edge.*  Unchecked subtractions and floor divisions of the market.
6. *Time between the checks.*  Snapshots and intents age while a tool computes, a node answers
   or a person signs; and a tool outlives the process that asked it.

## The modules

Every module says in its header which file it stands for; `PROJECT.json` maps each
definition to its lines.  A comment starting with "Mutant:" introduces a broken variant of
the definition that follows it.  The variants are used only to show that a property can
fail; no specification refers to them.

**`ChangeGate`** is the abstract promise of the gate: a change is requested, approved or
closed and applied at most once, and only while nothing it depends on (roles, allowed calls,
content of its target) has moved since the request, a move that was undone included.

**`ParamShieldExecutor`** is the contract with the markets it calls.  A change is the
preimage of its hash; a revert is no step; one action per external function, and the
market's other mutators summed up in `MarketMutation` and `MarketOwnerCall`.  `setAllowedCall`
admits any of `Selectors`, so what an execution does depends on the function called: `Mutators` are
the functions of the market that change it and its version, and any other selector is that of a
view, which leaves both alone, or of no function, which reverts.  `MaxVersion`
and `MaxEpoch` stand for `type(uint256).max`, where `++` reverts, so they are limits of the
program and not only of the model.  `disturbed` is a history variable: the proposed changes
whose world has moved.  The refinement mapping to `ChangeGate` is the instance `Gate`.

**`ReferenceLendingMarket`** is the real market with integer amounts: checked arithmetic is a
guard at `MaxUint`, the two `unchecked` blocks wrap modulo `MaxUint + 1`, health factors use
the same floor divisions in the same order.

**`RiskEngine`** is `simulate` and `assessAndRecommend` as operators on a snapshot, with the
divisions and overflows of the TypeScript code.

**`MarketIndex`** puts the subgraph behind the market (`Transaction` is a step of the market
together with the handlers of its events) and the engine behind the subgraph.  An index is
visible only at the end of a block.  Where a block ends matters to the handlers only through
the contract calls that create the `Market` entity, so the block of the constructor is
collected in `logs` and indexed by `FirstBlock`; from then on every transaction may end one.

**`GateIndex`** puts the other half of the subgraph behind the gate: the events of each call, the
handlers that fill the `Change` and `Executor` entities, and the same visibility at the end of a
block.  In both, a transaction determines its events (`Logs`, `RoleLogs`, `ProposalLogs`), and
indexing a block is a left fold of the handlers over them (`IndexLogs`); `final` is the state at
the end of the block, which is what the contract calls of a handler see.

**`ReviewedState`** is what a review is about.  `preflight()` reads a snapshot of The Graph,
corroborates it by RPC and reads the live versions at another block; the runner accepts the
policy's result; the reviewer's record is kept; and `checkScopedAuthorization` must find the same
state again before each transaction.  Every await is a step, parallel reads between two reads of
the same block are one.  The chain is a tree of blocks with one head; a read by number answers
from the branch of the head, and The Graph may answer anything for any block.  The node may change its
branch at any await; `MaxReorgs` bounds how often it does so within one operation (one analysis,
one check), and between two operations nothing bounds it.

**`DurableStore`** is one record: temporary file, write, fsync, rename, fsync of the
directory, with a kill between any two system calls and a power loss that keeps any prefix
of what was not flushed.  **`AtomicRecord`** is what it promises: one whole record to which
updates are added one at a time, and which keeps for ever what a writer was told of.  The store
implements it (`ImplementsAtomicRecord`), and so the other modules take `write` as one atomic
step and `exclusive` as a lock that survives its holder.  A write that returns is durable; one that
throws has replaced the record or not, since the flush of the directory comes after the rename, and
`TransactionSigning` (`WriteLands`), `OperatorControl`, `TransactionBroadcast` (`StoreThrows`),
`OperatorLeg` and `ConsoleService` have both outcomes.

**`TransactionSigning`** is `sign()` with one action per await.  A lock that is taken is an
error and never a wait, as in the code; an abandoned one is removed by the operator only when
no call runs.  The signer answers late or never.  **`SignOnce`** is its promise without callers,
locks and timeouts: a nonce is bound to one job and plan, then the record is opened, then the
signer is asked, once; the record is SIGNED only with a signature made while the plan was valid.
The refinement mapping is the instance `Promise`.

**`OperatorControl`** is the policy window.  Updates of the policy are messages to the
provider.  `LateUpdates` says whether a message can still be applied after its client gave
up on it (see the findings).

**`TransactionBroadcast`** is `send()` with the chain as a pool, mined, buried and
reorganised places of a transaction.

**`OperatorLeg`** is `operatorSend()`, the composition: the actions of the instances `Control`
(`OperatorControl`) and `Broadcast` (`TransactionBroadcast`) over one policy and one store of
jobs, with the save of the hash between them.  What the components leave open is tied together:
the signature that `sign()` returns is the record that `send()` reads (`StoreSigned`), both
revalidations read the same validity (`Revalidated`), and the one before a broadcast must see
DENY (`DenySeen`).  Callers are not kept apart by the console's lock here: the properties do
not need it.  The signing service inside the window is reduced to its result,
`TransactionSigning` has its awaits.

**`CreRunner`** is `run()` of the CRE runner, await by await, beside the tool it starts.  The tool
reads whatever configuration file is there, connects to whoever listens on the port, evaluates
only the request that its configuration names, hangs, fails, or is orphaned by a crash of the
server and meets the next run.  Blocks carry times, one clock ticks in every await, and a
snapshot is worth `MaxAge` seconds and `MaxLag` blocks (the code: 120 and 12), an intent at
most `MaxValidity` (600).  The compilation before it is an await without content.

**`SigningPreparation`** extends it by what uses a decision: the review, and the two preparations
that read gate, review, canonical block, nonce and fees in separate awaits before a plan goes to
the signing service and again around its signature.  Every read may be answered by a node that
lags.  The runs of the console are scoped (`ScopedRuns`, `authorizationMode: exact-state-v1`):
their snapshot may be older than `MaxAge` when a plan is drawn up, because
`checkScopedAuthorization` takes a fresh one of the same state in every check, and only that one
must be fresh (ADR 0002).  Any other run is bound to the snapshot it was decided on.  The path
`relay` ends with a second look at the clock, the paths `scoped` and `lifecycle` with the
only one.  Since every operation of the console takes one lock, a preparation runs alone and no
run begins beside it, but time, blocks and crashes go on.

**`ConsoleService`** is every operation of the service that changes a flow, with what the
modules above leave behind as records (`signing`, `evidence`, `broadcast`, `interrupted`).  The
state a save writes is the state in memory, so a flow has one copy; memory holds besides it
only `live`, the runs this process analysed.  Each await of `operatorSend` is a place of `op`, from
`sign` to the receipt of the transaction (`wait`, `SendReturns`) and the confirmation of the flow
(`confirm`).  The chain is reduced to the state of the flow's
own proposal; what the gate guarantees about it is used as the guard of `Mine`, and proved in
`ParamShieldExecutorProofs`.

**`BrowserConsole`** is two or more tabs, the marker they share, the authority's wallet and the
service reduced to what its answers show.  Requests and answers are messages; a tab may give
up, reload or be joined by another at any point; the service may restart.  The browser may refuse
every write to its storage (`persist()` and the copy in sessionStorage): `broken` are the tabs that
show `storageError` and offer nothing new until they are reloaded, `lost` the hashes that a refused
write at `page.tsx:905` dropped on their way from the wallet to the service.

The `MC*` modules add the symmetry sets TLC uses and, in `MCMarket`, the policies tried; `MCExecutor`,
`MCConsole` and `MCBrowser` each add one `CONSTRAINT` that bounds the run (`OneDeadline`, `Bystanders`,
`OneBroken`).  The eight modules ending in `Proofs` hold the theorems.

## The runs

All passing runs exhaust their state space, within the constraint that three of them name.  Deadlock
is not checked: all of these systems may come to rest (a bounded counter is used up, every flow is
finished, nobody clicks).

| Run | Instance | Distinct states | What it shows |
|---|---|---|---|
| `executor` | 2 accounts, 1 market, 2 thresholds, 3 selectors (the two owner calls of the protocol and a view), 2 nonces, versions and epochs up to 3, 2 proposals with one deadline (`OneDeadline`), 2 moves of the market from outside the gate, up to 6 events in the first block | 610 022 | `VersionIsSpent`, `SeparationOfDuties`, `OneChangePerNonce`, `OnlyTheGateMoves`, and the refinement `ImplementsChangeGate`, with roles and allowed calls changed and changed back; `IndexFollowsGate`: the index shows the same changes, roles and calls |
| `market` | 2 accounts and the market, amounts 1 and 2, two prices and thresholds, 6 versions, up to 2 transactions in the first block, 4 policies | 219 841 | the totals are the sums, never wrap and are backed by tokens, lent tokens are owed, only price and threshold changes make a healthy position unhealthy, every change takes one version; `IndexFollowsMarket`: the index shows the same; `SimulationForetells`: the engine's prediction comes true; `RecommendationIsBoundary`: all thresholds above an answer are admissible, all below are not |
| `reviewed` | 2 contents, 4 blocks, 1 change of branch within an operation, any number between two | 5 275 749 | a check passes only on the version, content and epoch that were analysed; a change executes only on them |
| `durable_store` | 2 writers, 2 updates | 10 992 | no acknowledged update lost (`AcknowledgedSurvive`), and the refinement `ImplementsAtomicRecord`: whole records, each update added to the latest content, through kills and power losses |
| `signing` | 2 calls, 2 jobs, 1 nonce, 2 plans | 68 942 | one request to the signer per nonce, no signature accepted for a plan that went stale, and the refinement `ImplementsSignOnce`: nothing is retried or signed anew, whatever times out, fails or runs beside it |
| `operator_leg` | 2 calls, 1 job, no late updates | 657 384 | the exact policy is in place only under its own record, and while that record stands nobody but its own call or the operator goes on; one send per job, and CONFIRMED means buried; what is sent was signed in a recorded window, is recoverable from its flow, was valid when its broadcast began, and goes out after DENY was seen; no call ever waits for ever (`NeverStuck`) |
| `operator_late` | `OperatorControl` alone, 2 calls, 2 jobs, late updates | violation | finding 1 |
| `preparation` | 2 runs, one scoped and one legacy, 3 blocks, 3 seconds, snapshots good for 1 second and 1 block, intents for at most 2 seconds | 983 827 | a decision this process vouches for answers its own run's request and was accepted in time, whatever an orphaned tool does; a plan is handed over only while all it rests on is good at that moment; every run ends and gives back port and lock |
| `console` | 3 flows, index of 1; when all three exist at most one is past its analysis (`Bystanders`) | 620 690 | stages never ahead of the chain, no downgrade, sent transactions recoverable, retired changes dead, only owned, reviewed runs send; a flow starts beside an unfinished one only if that one was crowded out of the index |
| `console_recovers` | 1 flow | 1 930 | what succeeded on chain is confirmed in the flow at last |
| `browser` | 2 tabs, at most one at a time showing `storageError`, which then does not poll (`OneBroken`), flow opened at each confirmed stage, 2 markers, 1 request and 1 answer per tab on the way, 3 saves | 1 249 052 | the authority is asked once; a hash is kept, or, if storage refused it, its marker stays; no revoked run and no earlier step is shown again |
| `browser_stale_error` | 1 tab, 5 saves | violation | finding 2 |

**Why the bounds are enough.**  Races of `sign()`, `send()` and the policy window are between two
parties: a third call meets the same locks and records as the second.  Three epochs let a role or an
allowed call move out and back under an open proposal, the case that comparing values instead of
epochs would miss, and three versions do the same for a threshold, of which there are two.  Two
proposals at one version give the two competing changes of `VersionIsSpent`; with a view among the
selectors one of them may execute without spending the version.  The two proposals expire
together; the theorems are about any deadlines.  The run leaves out `seedPosition`
and `setCollateralPriceUsdE18` as calls of the gate (`Selectors` is a parameter, and the theorems
are about all of them): like `setLiquidationThresholdBps` they take one version.  The market's wrap
would need one position or total to go below zero, which small amounts reach; `MaxSupply = 3` with
thresholds in tenths gives health factors on both sides of the limit with rounding.  One of the four
policies binds on each limit and one on all; between them they give all four answers, and `MaxUint =
40` and a workload of 8 make the engine refuse some snapshots.  In `durable_store` two writers
suffice for two renames without a flush between them (the first is killed or its flush fails), after
which a power loss may leave any of the three records.  In `reviewed` four blocks leave room for a
change of the market between any two reads, a second branch with the same version and another
content, and an execution; one change of branch within an operation is an assumption, see below.  In
`console` the index holds one flow (the code: 30), so each save crowds out another flow; two flows
go any way they can, and a third one is needed to crowd a flow out and still start beside it, for
which it need not get past its analysis. In `browser` a revision bound of 4 covers the longest chain
of saves between a click and its confirmation, with one failed attempt or one lost answer; two
markers suffice for a second prompt beside a first.  Storage may refuse any write of any tab; a
second tab shows `storageError` only after the first was reloaded, and while one does, the other
polls.  In `operator_leg` two calls of
one job are the case in which they share everything; two jobs share only the policy and its lock,
and the theorems cover any number.  In `preparation` the first run is scoped and the second legacy;
the second run meets the orphan of the first, in every state of its tool; three seconds let a
snapshot of age 0 at the start reach its limit and pass it, an intent expire before or after its
snapshot, and a block arrive that is ahead of the clock; with `MaxLag = 1` the gate is read at the
block of the snapshot or at the next, of the same version or another.  Symmetry is declared only for
values that are merely compared, and only in runs without a liveness property.

**Fairness.**  `SigningPreparation` assumes weak fairness of each step of a running `run()`: the
event loop runs every ready continuation, the compiler and the tool end by exit, error or the
timeout of `runBoundedProcess`, and the reads of the preflight by the client's.  Nothing is assumed
of the tool, of the clock or of an orphan's connection.  `OperatorLeg` states the same concern as an
invariant, for which no fairness is needed: `NeverStuck` says that a running call can always take
its next step, so that it can be held up by nobody else.  `ConsoleService` assumes that a running
operation goes on, that the person at the console removes abandoned locks, closes interrupted policy
windows (strong fairness, because crashes disable it again and again) and keeps pressing recover
while it is offered, and that the RPC answers such a recovery at last.  The runbook
(`docs/console-runbook.md:93-132`) describes just these duties.  Crashes may go on for ever.

## What the checks found

1. **A late policy update outlives its window** (`operator_late`, `RestoresDeny`).
   `policies().update` has a client timeout and no cancellation.  If the install times out,
   the cleanup reads DENY, is satisfied and removes the record; the install then lands, and
   the exact ALLOW policy stays with nothing on record (`operator-control.ts:121`).  Without
   late updates the property holds (`operator_leg`).
2. **A retry loses its marker** (`browser_stale_error`, `MarkerOutlivesRequest`).  A failed proposal
   leaves `error` on the flow.  On a retry the first check saves the flow with a new revision and
   that old error, and no plan yet; a journal poll in this window takes it for the failure of the
   retry and removes the marker while the request is being served (`console-state.ts:174`).

More observations have no run.

- *The index forgets an unfinished flow.*  `analyze` looks for unfinished flows in the journal,
  which `save` truncates to the 30 flows saved last (`console-service.ts:199`).  That no flow starts
  beside an unfinished one (`docs/decisions/0002-exact-state-authorization.md:78`) is therefore
  false: a flow whose transaction is outstanding no longer blocks a new analysis once 30 others were
  saved after it.  What does hold, for every limit, is `OnlyCrowdedOutIsMissed`.
- *A check that two reorganisations cross.*  With `MaxReorgs = 2`, two changes of branch within one
  check, `PassesOnReviewedState` fails.  The snapshot is corroborated on the reviewed branch, the
  versions are read on another one with the same numbers and another content, and the two final
  reads of `scoped-authorization.ts:128`, sent together, find each its own branch.
- *A hash that storage refuses.*  When the wallet has sent the decision, `page.tsx:905` writes the hash
  to the marker before it notes it in sessionStorage and posts it to the service.  If localStorage
  refuses that write (full, or disabled since), `persist()` throws and both later steps are skipped: the
  page forgets the hash.  It is not claimed to be kept (`lost`).  `HashIsKept` says what still
  protects the decision: the marker written before the prompt stays, in phase wallet, until the
  service has the hash, so no second decision is offered; finding the transaction in the
  wallet's history is then the operator's work, as `docs/console-runbook.md:113` says.  Reading
  localStorage is assumed not to fail.
- *A call that only reads.*  The gate's admin may allow any function of an owned market.  Executing one
  that changes nothing does not move `stateVersion`, so the changes reviewed against that version
  stay executable.  `VersionIsSpent` is about a change that moved the market.
- *The gate compares numbers.*  `ExecutesReviewedState` is about branches that contain the block
  of the last check.  If the chain leaves it afterwards, a change may be executed on a branch where
  the same version stands for another content; nothing off-chain can help a transaction already sent.
- *No locks in the browser.*  With `HasLocks = FALSE` in `MCBrowser.cfg`, a browser without
  `navigator.locks`, `AskedOnce` fails: a connection prompt refused in one tab clears the marker
  of the decision prompt of the other.
- *A review answered before it is durable.*  `record()` of `review-store.ts:167-175` answers a
  repeated review from the file it reads.  If a write failed after its rename and before the sync
  of the directory, that file may still be lost with the machine; the page is told of a review
  that is then missing.  The checks read it again, so nothing is signed on it.
- *The compiler's output is shared.*  `policy.wasm` is hashed after the compilation and read by
  the tool later (`cre-execution-runner.ts:99`).  A compiler orphaned by a crash could replace it
  in between, and the run's `wasmSha256` would name another file.  Not modelled.
- *Output in pieces.*  `runBoundedProcess` decodes each chunk by itself, so a character split
  between two chunks is damaged.  Results are ASCII, so only progress lines are.
- *Policy edits.*  `OperatorControl` restores DENY over an edit that somebody else made between
  its read and its update; the provider offers no conditional update.

An answer NO_SAFE_VALUE occurs only under an absolute stress limit that the market exceeds
already: the current threshold itself is the last candidate.

Restrictions the models make visible and the code accepts: the receipt check compares the state
at the end of the block, so a leg that shares its block with another transaction on the market
is never confirmed (`tx = "shared"`); a leg that failed between its plan and its broadcast
record needs a person.

## The proofs

`ParamShieldExecutorProofs` proves, for every set of accounts, markets, thresholds, nonces and
every bound, from `SelfAssumption` (the executor is nobody's account), `SelectorAssumption` (the
selector that the constructor allows is among `Selectors`) and `BoundsAssumption`
(the bounds are natural numbers, the counters start at 1):

- `TypeCorrect`, `DutiesSeparated`, `SingleUseNonces`: the invariants of the run `executor`;
- `VersionsAreSpent`: once a change has moved its market, no change reviewed against the version it
  left executes, whichever selectors the admin allows;
- `UndisturbedExecution`, `GateOnly`, `Finality`: action properties.  `ExecutesUndisturbed` and
  `NoWayBack` are not listed in the run because the refinement the run checks implies the first
  and most of the second;
- `Refinement`: the gate implements `ChangeGate`.

The invariants are not inductive.  `IInv` adds what the argument really is about:

- `NoncesSpent`: a change in the table holds its proposer's nonce (for `OneChangePerNonce`);
- `NotAhead`: no change names a counter value that lies in the future, so a counter that has
  passed a change never comes back to it;
- `DisturbedIsOutdated`: a change whose world moved names an old version or an old epoch.  This is
  the heart: it turns "compare two numbers" into "nothing has moved", and it fails as soon as one
  mutator forgets its counter;
- `ProposerOfEpoch`: within the epoch a change names, the operator is its proposer, which gives
  the separation of duties although roles rotate;
- `ExecutedIsOutdated`: an executed change of a function in `Mutators` has moved its own target past
  the version it names, so no other change of that version can follow (`VersionIsSpent`).

One lemma about steps carries the rest (`StepCounts`): in every step both counters are monotone,
and each moves if what it counts moves.  The preservation of each conjunct is then proved once
for the steps that only move the world (`WorldStep`), once for `Propose`, once for steps that
change the status of one change (`StatusStep`) and once for `Execute`.  The refinement maps
`Propose` to `Request`, ALLOW to `Approve`, BLOCK, ESCALATE and expiry to `Close`, `Execute` to
`Apply`, and every other step, the expiry of an escalated change (already closed) included, to
`Disturb` or a stutter.

**Signing, broadcast and the policy window** are proved for every set of callers, jobs, nonces and
plans.  Only the policy window has an assumption on its constants (`ConstantsApart`): DENY, the
foreign policy and the missing record are no jobs, and the first two differ.  All three arguments
are of one kind.  A call that is suspended at an await has, in its program counter and its locals,
claims about the shared records: that it holds a lock, that the record it read is still there, that
its nonce is reserved for it.  `Knows(c)` collects these claims place by place. Other calls, crashes
and the world must not break them (one lemma: the frame of a step of somebody else), and a step of
the call itself must establish those of its next place (one lemma per action).  What the run checks
follows from the claims at the place where it matters:

- `TransactionSigningProofs`: two calls inside the same job's section are the same call
  (`Apart`), and a request is made only under the job's record and its reservation
  (`Requested`), hence `SingleRequest`.  `StaleIsInvalid` (a plan that went stale never becomes
  valid again) carries validity from the last check to the stored signature and to the result:
  `SignaturesWereValid`, `FreshSuccess`.  `SigningIsOnce` is the refinement of `SignOnce`: the locks,
  reads, timeouts and crashes are stutters, and each step that writes a record or asks the signer is
  one step of the promise because of what its caller knows at that place.  `RecordsAreFinal`
  (`NoAutomaticRetry`) is an action property of the same invariant; no run lists it, because the
  refinement the run checks implies it.
- `OperatorLegProofs`, on `TransactionBroadcast`: a call past its write is the only one that will
  send, because the record it wrote turns every later call away: `SingleSend`.  `FreshSend` and
  `ConfirmationsAreBuried` are action properties.
- `OperatorLegProofs`, on `OperatorControl`: `WindowIsRecorded` assumes `LateUpdates = FALSE`: an
  update that its client gave up on is not applied later.  Without it the theorem is false, which is
  finding 1.  `Announced` says that whoever may still install a policy has its record on disk.
  `RecordIsKept` holds with late updates too: while a record stands no other call opens a window,
  and only its own call removes it, or the operator when no call runs.  One conjunct of it, that no
  exact policy is in place at that moment, is conditional on `LateUpdates = FALSE` in the property
  itself (`RecordStands`), since an install may land between the last look at the policy and the
  removal of the record (`operator-control.ts:135-136`).

**The leg** as a whole is proved from its components (`OperatorLegProofs`), for every set of callers
and jobs.  `ImplementsControl` and `ImplementsBroadcast` are refinements: each step of
`operatorSend` is a step of the policy window or leaves it alone, and the same for the broadcast
service.  The theorems about the components then hold in the leg by instantiation
(`LegRestoresDeny`, `LegKeepsInterruption`, `LegSendsOnce`, `LegConfirmsBuried`), and their type
invariants need no second proof.  `SentSafely` relates the two components and no theorem about
one of them gives it: `LegInv` says what a call carries from the window into the broadcast (the
evidence of its job, the hash in its flow, and DENY seen once the record is written), and
`SendIsFresh` of the broadcast gives the rest.  All of this holds with late updates too, but
`LegRestoresDeny` and the conjunct of `LegKeepsInterruption` just named.

**The durable store** is proved for every set of writers and updates (first part of
`DurableStateProofs`).  The invariant has one part for the lock (`Exclusive`: a writer past `Acquire`
is the only one, and what it has read is still what the file says) and one for the disk (what was
acknowledged is in the file and in what a power loss leaves, and both are whole).  From it
`RecordsAreWhole`, `UpdatesSurvive` and the refinement `StoreIsAtomic`: the rename is the step that
adds the update, the flush of the directory the one that makes the record safe and lets its writer
be told, a power loss the one that may take back what nobody was told of (to any of the records
renamed into place since the last flush, the intermediate ones included), and every other system
call is a stutter.

**The pages** (second part of `DurableStateProofs`) are proved for every number of tabs, requests and
saves, with two invariants.

- `PageInv` needs nothing of the browser.  `CopiesAgree` is its heart: of any two copies of the
  flow, wherever they are (saved, shown, on their way as an answer to a task or to a poll), the one
  with the later revision has come at least as far and is not active again after a revocation.  So
  a page may take any answer whose revision is not older than what it shows, in whatever order they
  arrive: `RevokedStaysRevoked`, `StepsStayShown`.  `PostsHaveTasks` says that an answer finds the task
  that asked, or none.
- Storage may refuse any write.  `RefusalsKept` says that what was `lost` was sent; the marker of such
  a decision was written before its prompt and no refused write can clear it.
- `LockedInv` has the hypothesis `HasLocks`: without `navigator.locks` it is false, and so are its
  consequences (see above).  It follows one decision from the marker to the wallet and to the
  service: whatever the wallet shows or has sent is the decision the marker waits for
  (`WalletInv`), a request for a payload carries an id that was never shown (`PostInv`), and a marker
  is given up only when its decision is confirmed or was never shown.  Hence `OneDecisionIsAsked`
  and `HashesAreKept`.

**The flows** are proved for every set of flows and every limit of the index
(`ConsoleServiceProofs`).  Four records tell of a leg (plan, signature, hash, broadcast) and the
chain a fifth; they agree because the operation knows at each await which of them are durable
(`Reached`), is the only one (the lock), and can be started only at a stage that a transaction
already sent excludes (`SentStage`).  This gives `StagesMatchTheChain`, `SentCanBeRecovered`,
`StepsAreKept` and `OnlyOwnedRunsAreSent`.  `MissesOnlyCrowdedOut` needs only what a save does to
the index (`IndexHolds`): it lists its flow first, repeats none, and drops a flow only from a full
index.  So a flow that exists and is not listed has been crowded out by `IndexLimit` others.

**Reviews** are proved for any contents and any number of blocks (`ReviewedStateProofs`), under the
hypothesis `MaxReorgs <= 1` of `PassesOnReviewed` and `ExecutesReviewed`: the node changes its branch
at most once while an operation reads.  How often it does so between two operations, and so in the
life of a review, is not bounded (`Quiet`); two changes within one check refute the first.  Before the
change of branch every block an operation has found is on the branch of the head (`OneBranch`), after
it the branch only grows; so what a read by number said of a block holds if the block is on the
branch now, and the condition is discharged by the second read of the block.  `Grows` turns an
equal version on one branch into an equal content.

**The market and its index** (`MarketIndexProofs`) are proved for any finite set of accounts
(hypothesis `IsFiniteSet(Accounts)`: sums over accounts must exist), any supply, prices and
thresholds, from `MarketAssumption` and `PolicyAssumption` (what the constructor and the schemas
accept).

- *Sums.*  `IInv` says that the totals are the sums of the positions, that the market's tokens cover
  the collateral, and that the supplies are bounded, so nothing wraps: `CollateralBacked`,
  `LentStaysOwed`.  `HurtByParametersOnly` and `ChangesAreVersioned` are action properties.
- *Index.*  `IndexedMarketIsMarket`: the market under the subgraph takes no step of its own.  While the
  first block is open only its events are there, so `IndexInv` speaks of what indexing them would
  give for whatever state the block may end in (`Tells(i, final)`): the entities are the positions,
  and each parameter is the current one or, if no event named it yet, the one read at the end.
  `IndexFollows` is the case in which the block has ended.
- *Engine.*  Health factors only rise with the threshold and every limit is on a quantity that
  falls with it, hence `AdmissibleAbove`, and with it `RecommendsBoundary`: for every policy the
  service accepts, the answer is the least admissible threshold.  `SimulationIsForetelling`: the
  damage the engine predicts is the damage in the market after the change.

**The gate under its index** (`ParamShieldExecutorProofs`) needs no hypothesis: `IndexedGateIsGate`, and
`IndexFollows` from `IndexInv` (events of the first block are of the gate, and indexing them in
whatever final state shows the changes and calls there are).

**Decisions and preparations** are proved for every number of runs, every clock and every chain
(`SigningPreparationProofs`).  A run knows, place by place, what it has written and validated
(`Knows`): the request it will vouch for is the one it built, and once a result is there it answers
this request and was accepted inside its life.  Whatever a tool does, it writes only its own output,
so `OwnedDecisions` needs nothing about orphans except that the configuration they read is checked
on acceptance.  `PrepKnows` says what a preparation knows of the reads it has behind it; of a scoped
run, that the snapshot of the check under way shows the reviewed version and is not older than the
review's.  Everything it must still know when the plan is handed over either cannot change (the
verdict, the block that was read, the review while the process lives) or is compared with the clock
after the last await, which is the proof of `SoundPlans`.

Each `TypeOK` is a theorem: `TypeCorrect` of the gate, the market, the service, the reviews and
the signing service, `StoreTypeCorrect`, `PageTypes`, `ControlTypeCorrect` and
`BroadcastTypeCorrect`; so no run lists one.  The types of `CreRunner` are the conjunct `Typed` of
its invariant.

**What the prover cannot do.**  The induction theorems of the library take an operator as a
parameter, which no installed prover can instantiate.  Where a fold must be reasoned about, its
first step is unfolded from the definition and the induction replaced by a minimal
counterexample, which the well-foundedness of an order on the data gives; the sums of the market
and the folds over events are done so.

Therefore only model-checked: `NeverStuck` of `OperatorLeg`, which is about ENABLED, and the
liveness properties `EveryRunEnds` and `MinedIsConfirmed`.  No module declares a RECURSIVE operator.

## Not modelled

- *Cryptography and encoding.*  Hashes, signatures and canonical JSON are injective constructors.
  That a signature or a hash belongs to exact bytes is the assumption behind "a job has one plan".
- *Clocks and ages* are in `CreRunner` and `SigningPreparation`, for the runner and for the checks of
  `execution-preflight.ts` and `lifecycle-preflight.ts`.  In `ReviewedState` code hashes, roles,
  pagination and freshness limits may make a read throw at every await; how old what the scoped
  check saw may be is stated in `SigningPreparation`, which knows no forks and no contents but the
  version.  In `ConsoleService` the guard `Check` stands for its
  result: current version and epoch, not expired, reviewed.
- *Evidence documents, explanations*, and of the risk engine the figures that are only displayed.
- *The development lane of the CRE workflow* (`validatePreviewResult`): nothing executable comes of
  it.  The policy itself is `RiskEngine`.
- *Subgraph.*  The log of market events, and the v1 subgraph.  A market deployed before the start
  block would show its constructor's events only through the contract calls; the deployed one is
  not.
- *The browser's analyze, review and funding markers*, deadlines and account switches; they use
  the same marker and only disable buttons.
- *Scripts, deployment and UI components.*  Spikes and rehearsals call the parts above once, in order.

## Plan

In order of importance.  All of it is done.

1. `ParamShieldExecutor` with `ChangeGate`, checked and proved.
2. `DurableStore`, on which every crash argument rests.
3. `TransactionSigning`, 4. `OperatorControl`, 5. `TransactionBroadcast`: one operator leg.
6. `ConsoleService`: the flows above them.  7. `ReferenceLendingMarket` and `BrowserConsole`.
8. `ReviewedState`: analysis, review and check over a chain that grows and changes its branch.
9. `OperatorLeg`: signing inside the policy window followed by the broadcast: at most one
   transaction per job, sent only while reviewed and after DENY was restored.
10. `RiskEngine`: the scenario matrix and the search for a recommendation as operators, against
    the market that later moves, and against the boundary of the admissible thresholds.
11. `MarketIndex` and `GateIndex`: the index shows the state of the market and of the gate.
12. `CreRunner` and `SigningPreparation`: decisions and preparations under a clock.
13. Theorems: each safety invariant, each action property and each refinement the runs check, but
    `NeverStuck`, together with the invariants they need.
14. `AtomicRecord` and `SignOnce`: the promises of the two services on which the others rest, and
    the proofs that `DurableStore` and `TransactionSigning` keep them.

What remains worth doing: `OperatorControl` and `OperatorLeg` over an instance of `SignOnce` in place
of their summary of a signing (that the summary allows no less is now an argument in words), and
forks and ages in one module.
