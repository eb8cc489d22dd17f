---------------------------- MODULE ReviewedState ----------------------------
(***************************************************************************)
(* What a review is about and when it still counts: preflight(), which     *)
(* analyses a snapshot of The Graph against RPC reads, the reviewer's      *)
(* record, and checkScopedAuthorization, which must find the reviewed      *)
(* state again before every action (v2-context.ts, scoped-authorization.ts *)
(* and what they call).  Every await is a step of its own, and between two *)
(* of them the chain may grow or change its branch.                        *)
(*                                                                         *)
(* Blocks form a tree; `chain` of a block lists the blocks up to it, so    *)
(* the block number is its length.  RPC reads by number answer from the    *)
(* branch of the head; reads sent in parallel are answered in one step,    *)
(* since they stand between two reads of the block.  The Graph names any   *)
(* block, also an old or an abandoned one, and answers anything for it.    *)
(*                                                                         *)
(* Ages, clocks, roles, code hashes and the state of the proposal can only *)
(* make an operation throw; since it may throw at any await for any other  *)
(* reason too (Throw), they are left out.                                  *)
(***************************************************************************)
EXTENDS Integers, SequencesExt

CONSTANTS
    Contents,       \* positions of the accounts, what two branches may tell apart
    MaxBlocks,
    MaxReorgs       \* changes of branch while one operation reads

ASSUME ReviewedAssumption == Contents # {} /\ MaxBlocks \in Nat \ {0} /\ MaxReorgs \in Nat

VARIABLES
    blocks,         \* block -> [chain, market, epoch, executes]
    head, reorgs,   \* reorgs: changes of branch in the running operation
    task, pc,       \* the operation of the console and its next await
    headSeen,       \* block number read before the query of The Graph
    fresh, claim,   \* the snapshot: its block, and version and content as indexed
    live, seen,     \* the pinned latest block, and the version and epoch read at it
    canonical,      \* which of the two blocks the end of the check found again
    reviewed,       \* the preflight of the run: its snapshot and its intent
    review,         \* a review of it is recorded
    approved        \* live block of the last passed check

chainVars == <<blocks, head, reorgs>>
localVars == <<headSeen, fresh, claim, live, seen, canonical>>
grantVars == <<reviewed, review, approved>>
vars == <<chainVars, task, pc, localVars, grantVars>>

NoBlock == 0
NoPreflight == [block |-> NoBlock]
Tasks == {"analyze", "approve", "confirm", "execute"}  \* confirm: approve's second check

Number(b) == Len(blocks[b].chain)
Parent(b) == blocks[b].chain[Number(b) - 1]
Height == Number(head)

\* getBlock by number.
Canonical(n) == IF n <= Height THEN blocks[head].chain[n] ELSE NoBlock

Markets == [version: 1..MaxBlocks, content: Contents]
Seen == [version: 1..MaxBlocks, epoch: 1..MaxBlocks]
Zero == [version |-> 0, epoch |-> 0]

TypeOK ==
    /\ blocks \in Seq([chain: Seq(1..MaxBlocks), market: Markets, epoch: 1..MaxBlocks,
                       executes: BOOLEAN])
    /\ head \in DOMAIN blocks /\ reorgs \in 0..MaxReorgs
    /\ task \in Tasks
    /\ headSeen \in 0..MaxBlocks
    /\ {fresh, live, approved} \subseteq {NoBlock} \cup DOMAIN blocks
    /\ claim \in Markets /\ seen \in {Zero} \cup Seen
    /\ canonical \subseteq {"fresh", "live"}
    /\ review \in BOOLEAN
    /\ reviewed = NoPreflight \/ reviewed \in [block: DOMAIN blocks, market: Markets, expects: Seen]

Init ==
    /\ \E c \in Contents :
          /\ blocks = <<[chain |-> <<1>>, market |-> [version |-> 1, content |-> c],
                         epoch |-> 1, executes |-> FALSE]>>
          /\ claim = [version |-> 1, content |-> c]
    /\ head = 1 /\ reorgs = 0
    /\ task = "analyze" /\ pc = "idle"
    /\ headSeen = 0 /\ fresh = NoBlock /\ live = NoBlock /\ canonical = {}
    /\ seen = Zero
    /\ reviewed = NoPreflight /\ review = FALSE /\ approved = NoBlock

(***************************************************************************)
(* The chain                                                               *)
(***************************************************************************)

\* Between two operations, where only what was reviewed is remembered of the chain,
\* the node changes its branch as often as it likes.
Quiet == {"idle", "runner", "record", "sent"}

Reorganised ==
    \/ pc \in Quiet /\ UNCHANGED reorgs
    \/ pc \notin Quiet /\ reorgs < MaxReorgs /\ reorgs' = reorgs + 1

\* A block on any block; the head moves to it.
NewBlock(parent, market, epoch, executes) ==
    /\ Len(blocks) < MaxBlocks
    /\ blocks' = Append(blocks, [chain |-> Append(blocks[parent].chain, Len(blocks) + 1),
                                 market |-> market, epoch |-> epoch, executes |-> executes])
    /\ head' = Len(blocks) + 1
    /\ IF parent = head THEN UNCHANGED reorgs ELSE Reorganised

Advanced(b, content) == [version |-> blocks[b].market.version + 1, content |-> content]

\* A user or the owner changes the market, or the admin a role.
Disturbance(parent) ==
    LET b == blocks[parent] IN
    \/ \E c \in Contents : NewBlock(parent, Advanced(parent, c), b.epoch, FALSE)
    \/ NewBlock(parent, b.market, b.epoch + 1, FALSE)

\* The gate executes the change on any branch where its version and epoch still hold.
Mined(parent) ==
    LET b == blocks[parent] IN
    /\ approved # NoBlock /\ task = "execute" /\ pc = "sent"
    /\ reviewed.expects = [version |-> b.market.version, epoch |-> b.epoch]
    /\ \E c \in Contents : NewBlock(parent, Advanced(parent, c), b.epoch, TRUE)

\* The node follows another branch again.
Flip ==
    /\ Reorganised
    /\ \E b \in DOMAIN blocks : ~Contains(blocks[b].chain, head) /\ head' = b
    /\ UNCHANGED blocks

Chain ==
    /\ \/ \E parent \in DOMAIN blocks : Disturbance(parent) \/ Mined(parent)
       \/ Flip
    /\ UNCHANGED <<task, pc, localVars, grantVars>>

(***************************************************************************)
(* The operations of the console                                           *)
(***************************************************************************)

Go(from, to) ==
    /\ pc = from /\ pc' = to
    /\ reorgs' = IF to \in Quiet THEN 0 ELSE reorgs
    /\ UNCHANGED <<blocks, head, task>>
Checking == task # "analyze"

\* The local variables of an operation that is over.
Forget ==
    /\ headSeen' = 0 /\ fresh' = NoBlock /\ live' = NoBlock /\ canonical' = {}
    /\ seen' = Zero /\ claim' = blocks[1].market

Begin(t) ==
    /\ pc = "idle" /\ t # "confirm" /\ task' = t
    /\ IF t = "analyze" THEN reviewed = NoPreflight ELSE reviewed # NoPreflight
    /\ pc' = IF t = "analyze" THEN "number" ELSE "reviewed"
    /\ UNCHANGED <<chainVars, localVars, grantVars>>

\* The first await of the check: the reviewed block is still there.
ReviewedBlock ==
    /\ Go("reviewed", "number")
    /\ Canonical(Number(reviewed.block)) = reviewed.block
    /\ UNCHANGED <<localVars, grantVars>>

BlockNumber ==
    /\ Go("number", "graph")
    /\ headSeen' = Height
    /\ UNCHANGED <<fresh, claim, live, seen, canonical, grantVars>>

\* fetchGraphSnapshot: all pages at one block, not ahead of the number read before.
Graph ==
    /\ Go("graph", "block")
    /\ \E b \in DOMAIN blocks, market \in Markets :
          /\ Number(b) <= headSeen
          /\ fresh' = b /\ claim' = market
    /\ UNCHANGED <<headSeen, live, seen, canonical, grantVars>>

\* corroborateSnapshot: the block, the market and the positions at its number, and
\* the block again.
CorroborateBlock ==
    /\ \/ Go("block", "market") \/ Go("blockAgain", "validate")
    /\ Canonical(Number(fresh)) = fresh
    /\ UNCHANGED <<localVars, grantVars>>

\* The market that RPC serves at the number of the snapshot.
Indexed == blocks[Canonical(Number(fresh))].market

CorroborateMarket ==
    /\ Go("market", "positions")
    /\ Number(fresh) <= Height
    /\ Indexed.version = claim.version
    /\ UNCHANGED <<localVars, grantVars>>

\* Mutant: totals and version agree, positions are not read.
PositionsUnread == Go("positions", "blockAgain") /\ UNCHANGED <<localVars, grantVars>>

CorroboratePositions ==
    /\ Go("positions", "blockAgain")
    /\ Number(fresh) <= Height
    /\ Indexed.content = claim.content
    /\ UNCHANGED <<localVars, grantVars>>

\* marketStateHash in the scope of the review: all but the block and the time.
SameMarketState == claim = reviewed.market

\* The second freshness check, and in a check the comparison with the review.
Validate ==
    /\ Go("validate", "latest")
    /\ Number(fresh) <= Height
    /\ Checking => Number(fresh) >= Number(reviewed.block) /\ SameMarketState
    /\ UNCHANGED <<localVars, grantVars>>

\* ExecutionStatePort.read: pin the latest block, read at its number, pin again.
Latest ==
    /\ Go("latest", "read")
    /\ live' = head
    /\ UNCHANGED <<headSeen, fresh, claim, seen, canonical, grantVars>>

Read ==
    /\ Go("read", "latestAgain")
    /\ Number(live) <= Height
    /\ LET b == blocks[Canonical(Number(live))]
       IN  seen' = [version |-> b.market.version, epoch |-> b.epoch]
    /\ UNCHANGED <<headSeen, fresh, claim, live, canonical, grantVars>>

LatestAgain ==
    /\ Go("latestAgain", IF Checking THEN "end" ELSE "bind")
    /\ Canonical(Number(live)) = live
    /\ Checking => seen = reviewed.expects
    /\ UNCHANGED <<localVars, grantVars>>

\* Mutant: snapshot and intent are not compared.
Unbound == TRUE

\* createPreflight: the snapshot has the version the intent expects.
Bound == claim.version = seen.version

\* The end of preflight(): the head is read once more, for the age of the snapshot.
Bind ==
    /\ Go("bind", "runner")
    /\ Number(fresh) <= Height
    /\ Bound
    /\ UNCHANGED <<localVars, grantVars>>

\* The runner has its policy result for this very request: the run is owned.
RunAccepted ==
    /\ Go("runner", "idle")
    /\ reviewed' = [block |-> fresh, market |-> claim, expects |-> seen]
    /\ Forget /\ UNCHANGED <<review, approved>>

\* The two blocks are read again, in parallel.
EndOfCheck(which, block) ==
    /\ Go("end", "end")
    /\ which \notin canonical /\ Canonical(Number(block)) = block
    /\ canonical' = canonical \cup {which}
    /\ UNCHANGED <<headSeen, fresh, claim, live, seen, grantVars>>

After == [approve |-> "record", confirm |-> "idle", execute |-> "sent"]

\* The check has passed: the review is recorded, or the transaction sent.
Pass ==
    /\ canonical = {"fresh", "live"}
    /\ Number(live) >= Number(fresh)
    /\ task = "approve" \/ review
    /\ Go("end", After[task])
    /\ approved' = live
    /\ Forget /\ UNCHANGED <<reviewed, review>>

\* ScopedReviewStore.record: the review is kept, and approve() checks once more with it.
Record ==
    /\ pc = "record" /\ pc' = "reviewed" /\ task' = "confirm"
    /\ review' = TRUE
    /\ UNCHANGED <<chainVars, localVars, reviewed, approved>>

Throw == pc \notin {"idle", "sent"} /\ Go(pc, "idle") /\ Forget /\ UNCHANGED grantVars

Console ==
    \/ \E t \in Tasks : Begin(t)
    \/ ReviewedBlock \/ BlockNumber \/ Graph
    \/ CorroborateBlock \/ CorroborateMarket \/ CorroboratePositions \/ Validate
    \/ Latest \/ Read \/ LatestAgain \/ Bind \/ RunAccepted
    \/ EndOfCheck("fresh", fresh) \/ EndOfCheck("live", live) \/ Pass \/ Record
    \/ Throw

Next == Chain \/ Console

Spec == Init /\ [][Next]_vars

(***************************************************************************)
(* Properties                                                              *)
(***************************************************************************)

State(b) == [market |-> blocks[b].market, epoch |-> blocks[b].epoch]
ReviewedOne == [market |-> reviewed.market, epoch |-> reviewed.expects.epoch]

\* A check passes only on the reviewed state: at the block it read last the market
\* has the very version and content that were analysed, although analysis, snapshot
\* and state are read at different blocks of a moving chain.
PassesOnReviewedState == approved # NoBlock => State(approved) = ReviewedOne

\* A change is executed only on the state that was reviewed, by a gate that knows
\* numbers only, on every branch that contains the block of the last check.
ExecutesReviewedState ==
    \A b \in DOMAIN blocks :
        blocks[b].executes /\ Contains(blocks[b].chain, approved) => State(Parent(b)) = ReviewedOne
=============================================================================
