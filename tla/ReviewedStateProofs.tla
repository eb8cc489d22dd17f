------------------------- MODULE ReviewedStateProofs -------------------------
(***************************************************************************)
(* Theorems about ReviewedState for any contents and any number of blocks, *)
(* where the node leaves its branch at most once while one operation       *)
(* reads, and as often as it likes between two operations.  (With a second *)
(* change of branch in one check PassesOnReviewedState is false.)          *)
(*                                                                         *)
(* While the node has not left its branch in an operation, the blocks that *)
(* the operation has found are on it, and once it has, the branch only     *)
(* grows: so a block found before that is on the branch of the head now    *)
(* was on it at every read since.  What a read by number says is therefore *)
(* kept under the condition that its block is still on that branch, which  *)
(* the second read of the block discharges.                                *)
(***************************************************************************)
EXTENDS ReviewedState, TLAPS

\* Block a is on the branch that ends with block b.
On(a, b) == Contains(blocks[b].chain, a)

\* What the gate sees of the state after a block.
VersionAndEpoch(b) == [version |-> blocks[b].market.version, epoch |-> blocks[b].epoch]

Tree ==
    \A b \in DOMAIN blocks :
        /\ Number(b) \in 1..b /\ blocks[b].chain[Number(b)] = b
        /\ blocks[b].market.version <= b /\ blocks[b].epoch <= b
        /\ \A k \in 1..Number(b) : blocks[b].chain[k] \in 1..b /\ Number(blocks[b].chain[k]) = k
        /\ \A a \in DOMAIN blocks : On(a, b) /\ a # b => Number(b) > 1 /\ On(a, Parent(b))

\* Along a branch the version never falls, and it pins the content.
Grows ==
    \A b \in DOMAIN blocks, a \in DOMAIN blocks : On(a, b) =>
        /\ blocks[a].market.version <= blocks[b].market.version
        /\ blocks[a].market.version = blocks[b].market.version => blocks[a].market = blocks[b].market

\* The awaits by which the block of the snapshot, and the pinned one, have been found.
LiveFound == {"read", "latestAgain", "end"}
FreshFound == {"market", "positions", "blockAgain", "validate", "latest", "bind"} \cup LiveFound

OneBranch ==
    reorgs = 0 => /\ pc \in FreshFound => On(fresh, head)
                  /\ pc \in LiveFound => On(live, head)

\* The awaits by which the snapshot of The Graph has been vouched for.
Vouched == {"validate", "latest", "read", "latestAgain", "end", "bind", "runner"}
SnapshotTaken == {"block", "market", "positions", "blockAgain"} \cup Vouched

Snapshot ==
    /\ pc \in SnapshotTaken => fresh \in DOMAIN blocks
    /\ pc = "positions" /\ On(fresh, head) => claim.version = blocks[fresh].market.version
    /\ pc = "blockAgain" /\ On(fresh, head) => claim = blocks[fresh].market
    /\ pc \in Vouched => claim = blocks[fresh].market
    /\ Checking /\ pc \in {"latest", "read", "latestAgain", "end"} => claim = reviewed.market

LiveState ==
    /\ pc \in {"read", "latestAgain", "end"} =>
          live \in DOMAIN blocks /\ (On(fresh, head) => On(fresh, live))
    /\ pc = "latestAgain" /\ On(live, head) => seen = VersionAndEpoch(live)
    /\ pc = "end" => seen = VersionAndEpoch(live) /\ seen = reviewed.expects
    /\ pc = "end" /\ "fresh" \in canonical => On(fresh, live)
    /\ pc # "end" => canonical = {}
    /\ pc \in {"latestAgain", "end", "bind", "runner"} => seen \in Seen
    /\ pc = "runner" => claim.version = seen.version

\* A run is analysed once, and checked only then.
Run ==
    /\ pc # "idle" => (task = "analyze" <=> reviewed = NoPreflight)
    /\ pc \in {"bind", "runner"} => task = "analyze"
    /\ pc \in {"reviewed", "end", "record", "sent"} => Checking
    /\ approved # NoBlock => reviewed # NoPreflight
    /\ reviewed # NoPreflight => reviewed.market.version = reviewed.expects.version

\* The gate lets a change through on the version and the epoch of its review.
Executed ==
    \A b \in DOMAIN blocks : blocks[b].executes =>
        /\ Number(b) > 1 /\ reviewed # NoPreflight
        /\ VersionAndEpoch(Parent(b)) = reviewed.expects
        /\ blocks[b].market.version = blocks[Parent(b)].market.version + 1

IInv ==
    /\ TypeOK /\ Tree /\ Grows /\ OneBranch
    /\ Snapshot /\ LiveState /\ Run /\ Executed
    /\ PassesOnReviewedState

(***************************************************************************)
(* Blocks and branches                                                     *)
(***************************************************************************)

\* The parts of a block, and where it stands.
LEMMA BlockShape ==
    ASSUME TypeOK, Tree, NEW b \in DOMAIN blocks
    PROVE  /\ b \in 1..Len(blocks) /\ Len(blocks) \in Nat
           /\ blocks[b].chain \in Seq(1..MaxBlocks) /\ DOMAIN blocks[b].chain = 1..Number(b)
           /\ Number(b) \in Nat /\ Number(b) >= 1
           /\ blocks[b].market \in Markets /\ blocks[b].epoch \in 1..MaxBlocks
           /\ blocks[b].executes \in BOOLEAN
  <1> DEFINE B == [chain: Seq(1..MaxBlocks), market: Markets, epoch: 1..MaxBlocks,
                   executes: BOOLEAN]
  <1>1. blocks \in Seq(B)
    BY DEF TypeOK
  <1>2. DOMAIN blocks = 1..Len(blocks) /\ Len(blocks) \in Nat
    BY <1>1
  <1>3. blocks[b] \in B
    <2> HIDE DEF B
    <2> QED  BY <1>1, <1>2
  <1>4. Number(b) \in 1..b
    BY DEF Tree
  <1>5. Number(b) \in Nat /\ DOMAIN blocks[b].chain = 1..Number(b)
    BY <1>3 DEF Number
  <1> QED  BY <1>2, <1>3, <1>4, <1>5

\* A block is on a branch exactly at its own number; before it stands its parent.
LEMMA OnAtNumber ==
    ASSUME TypeOK, Tree, NEW a \in DOMAIN blocks, NEW b \in DOMAIN blocks
    PROVE  On(a, b) <=> Number(a) <= Number(b) /\ blocks[b].chain[Number(a)] = a
  <1>1. On(a, b) <=> \E k \in 1..Number(b) : blocks[b].chain[k] = a
    BY DEF On, Contains, Number
  <1>2. \A k \in 1..Number(b) : Number(blocks[b].chain[k]) = k
    BY DEF Tree
  <1>3. Number(a) \in Nat /\ Number(a) >= 1 /\ Number(b) \in Nat
    BY BlockShape
  <1> QED  BY <1>1, <1>2, <1>3

\* What a read by number answers: the block asked for, exactly if it is on the branch
\* of the head.
LEMMA CanonicalIsOn ==
    ASSUME TypeOK, Tree, NEW x \in DOMAIN blocks
    PROVE  Canonical(Number(x)) = x <=> On(x, head)
  <1>1. head \in DOMAIN blocks
    BY DEF TypeOK
  <1>2. x # NoBlock
    BY BlockShape DEF NoBlock
  <1>3. On(x, head) <=> Number(x) <= Number(head) /\ blocks[head].chain[Number(x)] = x
    BY <1>1, OnAtNumber
  <1> QED  BY <1>2, <1>3 DEF Canonical, Height

LEMMA ParentIsBlock ==
    ASSUME TypeOK, Tree, NEW b \in DOMAIN blocks, Number(b) > 1
    PROVE  Parent(b) \in DOMAIN blocks
  <1>1. b \in 1..Len(blocks) /\ Len(blocks) \in Nat /\ Number(b) \in Nat
    BY BlockShape
  <1>2. blocks[b].chain[Number(b) - 1] \in 1..b
    BY <1>1 DEF Tree
  <1>3. DOMAIN blocks = 1..Len(blocks)
    BY DEF TypeOK
  <1> QED  BY <1>1, <1>2, <1>3 DEF Parent

LEMMA NoBlockIsNowhere ==
    ASSUME TypeOK, Tree, NEW b \in DOMAIN blocks
    PROVE  ~On(NoBlock, b)
  <1>1. \A k \in 1..Number(b) : blocks[b].chain[k] \in 1..b
    BY DEF Tree
  <1>2. b \in Nat
    BY BlockShape
  <1> QED  BY <1>1, <1>2 DEF On, Contains, Number, NoBlock

\* A version pins the market of a branch, so an executed change found the very
\* market of the review: what the gate checks is enough.
LEMMA GateIsEnough ==
    ASSUME TypeOK, Tree, Grows, Run, Executed, PassesOnReviewedState
    PROVE  ExecutesReviewedState
  <1> SUFFICES ASSUME NEW b \in DOMAIN blocks, blocks[b].executes, On(approved, b)
               PROVE  State(Parent(b)) = ReviewedOne
    BY DEF ExecutesReviewedState, On
  <1>1. approved # NoBlock /\ approved \in DOMAIN blocks
    BY NoBlockIsNowhere DEF TypeOK
  <1>2. State(approved) = ReviewedOne
    BY <1>1 DEF PassesOnReviewedState
  <1>3. /\ blocks[approved].market = reviewed.market
        /\ blocks[approved].epoch = reviewed.expects.epoch
    BY <1>2 DEF State, ReviewedOne
  <1>4. reviewed.market.version = reviewed.expects.version
    BY <1>1 DEF Run
  <1>5. Number(b) > 1 /\ VersionAndEpoch(Parent(b)) = reviewed.expects
    BY DEF Executed
  <1>51. /\ blocks[Parent(b)].market.version = reviewed.expects.version
        /\ blocks[Parent(b)].epoch = reviewed.expects.epoch
        /\ blocks[b].market.version = blocks[Parent(b)].market.version + 1
    BY <1>5 DEF Executed, VersionAndEpoch
  <1>6. Parent(b) \in DOMAIN blocks
    BY <1>5, ParentIsBlock
  <1>7. blocks[Parent(b)].market.version \in Nat
    BY <1>6, BlockShape DEF Markets
  <1>8. approved # b
    BY <1>3, <1>4, <1>51, <1>7
  <1>9. On(approved, Parent(b))
    BY <1>1, <1>8 DEF Tree
  <1>10. blocks[Parent(b)].market = blocks[approved].market
    BY <1>1, <1>3, <1>4, <1>51, <1>6, <1>9 DEF Grows
  <1> QED  BY <1>3, <1>51, <1>10 DEF State, ReviewedOne

(***************************************************************************)
(* Steps of the chain                                                      *)
(***************************************************************************)

\* What a new block leaves as it was, and what it adds.
LEMMA NewBlockShape ==
    ASSUME TypeOK, Tree, NEW parent \in DOMAIN blocks, NEW m, NEW e, NEW x,
           NewBlock(parent, m, e, x)
    PROVE  /\ Len(blocks) \in Nat /\ Len(blocks) + 1 <= MaxBlocks /\ MaxBlocks \in Nat
           /\ DOMAIN blocks = 1..Len(blocks) /\ DOMAIN blocks' = 1..(Len(blocks) + 1)
           /\ head' = Len(blocks) + 1
           /\ \A b \in DOMAIN blocks : blocks'[b] = blocks[b]
           /\ blocks'[Len(blocks) + 1].chain = Append(blocks[parent].chain, Len(blocks) + 1)
           /\ blocks'[Len(blocks) + 1].market = m
           /\ blocks'[Len(blocks) + 1].epoch = e
           /\ blocks'[Len(blocks) + 1].executes = x
  <1> DEFINE B == [chain: Seq(1..MaxBlocks), market: Markets, epoch: 1..MaxBlocks,
                   executes: BOOLEAN]
             new == [chain |-> Append(blocks[parent].chain, Len(blocks) + 1),
                     market |-> m, epoch |-> e, executes |-> x]
  <1>1. blocks \in Seq(B)
    BY DEF TypeOK
  <1>2. blocks' = Append(blocks, new) /\ Len(blocks) < MaxBlocks /\ head' = Len(blocks) + 1
    BY DEF NewBlock
  <1>3. MaxBlocks \in Nat
    BY ReviewedAssumption
  <1> HIDE DEF B
  <1>4. DOMAIN blocks = 1..Len(blocks) /\ Len(blocks) \in Nat
    BY <1>1
  <1>5. /\ DOMAIN blocks' = 1..(Len(blocks) + 1)
        /\ \A b \in DOMAIN blocks : blocks'[b] = blocks[b]
        /\ blocks'[Len(blocks) + 1] = new
    <2> HIDE DEF new
    <2> QED  BY <1>1, <1>2, <1>4
  <1> QED  BY <1>2, <1>3, <1>4, <1>5

\* The branches after a new block.
LEMMA NewBlockBranches ==
    ASSUME TypeOK, Tree, NEW parent \in DOMAIN blocks, NEW m, NEW e, NEW x,
           NewBlock(parent, m, e, x), NEW n, n = Len(blocks) + 1
    PROVE  /\ \A b \in DOMAIN blocks : Number(b)' = Number(b) /\ Parent(b)' = Parent(b)
           /\ \A a, b \in DOMAIN blocks : On(a, b)' <=> On(a, b)
           /\ \A b \in DOMAIN blocks : ~On(n, b)'
           /\ Number(n)' = Number(parent) + 1
           /\ Parent(n)' = parent
           /\ \A a : On(a, n)' <=> a = n \/ On(a, parent)
           /\ \A k \in 1..Number(parent) :
                 blocks'[n].chain[k] = blocks[parent].chain[k]
           /\ blocks'[n].chain[Number(parent) + 1] = n
  <1> DEFINE c == blocks[parent].chain
  <1>1. /\ \A b \in DOMAIN blocks : blocks'[b] = blocks[b]
        /\ blocks'[n].chain = Append(c, n)
        /\ DOMAIN blocks = 1..Len(blocks) /\ Len(blocks) \in Nat
    BY NewBlockShape
  <1>2. \A b \in DOMAIN blocks : Number(b)' = Number(b) /\ Parent(b)' = Parent(b)
    BY <1>1 DEF Number, Parent
  <1>3. \A a, b \in DOMAIN blocks : On(a, b)' <=> On(a, b)
    BY <1>1 DEF On
  <1>4. \A b \in DOMAIN blocks : ~On(n, b)'
    <2> SUFFICES ASSUME NEW b \in DOMAIN blocks PROVE ~On(n, b)'
      OBVIOUS
    <2>1. \A k \in 1..Number(b) : blocks[b].chain[k] \in 1..b
      BY DEF Tree
    <2>2. b \in Nat /\ b <= Len(blocks) /\ n > Len(blocks) /\ blocks'[b] = blocks[b]
      BY <1>1
    <2>3. \A k \in 1..Number(b) : blocks[b].chain[k] # n
      BY <1>1, <2>1, <2>2
    <2>4. On(n, b)' <=> \E k \in 1..Len(blocks'[b].chain) : blocks'[b].chain[k] = n
      BY DEF On, Contains
    <2> QED  BY <2>2, <2>3, <2>4 DEF Number
  <1>40. /\ Number(n)' = Len(blocks'[n].chain)
         /\ Parent(n)' = blocks'[n].chain[Number(n)' - 1]
         /\ \A a : On(a, n)' <=> \E k \in 1..Len(blocks'[n].chain) : blocks'[n].chain[k] = a
    BY Zenon DEF Number, Parent, On, Contains
  <1>5. c \in Seq(1..MaxBlocks) /\ Len(c) = Number(parent) /\ Len(c) \in Nat /\ Len(c) >= 1
    BY BlockShape DEF Number
  <1> HIDE DEF c
  <1>6. /\ Len(Append(c, n)) = Len(c) + 1
        /\ \A k \in 1..Len(c) : Append(c, n)[k] = c[k]
        /\ Append(c, n)[Len(c) + 1] = n
    BY <1>5
  <1>7. Number(n)' = Number(parent) + 1
    BY <1>1, <1>40, <1>5, <1>6
  <1>8. c[Len(c)] = parent
    BY <1>5 DEF Tree, c, Number
  <1>9. Parent(n)' = parent
    <2>1. Parent(n)' = Append(c, n)[Number(n)' - 1]
      BY <1>1, <1>40
    <2>2. Number(n)' - 1 = Len(c)
      BY <1>5, <1>7
    <2> QED  BY <1>5, <1>6, <1>8, <2>1, <2>2
  <1>10. ASSUME NEW a PROVE On(a, n)' <=> a = n \/ On(a, parent)
    <2>1. On(a, n)' <=> \E k \in 1..Len(c) + 1 : Append(c, n)[k] = a
      BY <1>1, <1>40, <1>6
    <2>2. On(a, parent) <=> \E k \in 1..Len(c) : c[k] = a
      BY DEF On, Contains, c
    <2> QED  BY <1>5, <1>6, <2>1, <2>2
  <1> QED  BY <1>1, <1>2, <1>3, <1>4, <1>5, <1>6, <1>7, <1>9, <1>10 DEF c, Number

\* What each way to add a block puts into it.
Extension(parent, m, e, x) ==
    /\ NewBlock(parent, m, e, x)
    /\ m \in Markets /\ e \in 1..MaxBlocks /\ x \in BOOLEAN
    /\ m = blocks[parent].market \/ m.version = blocks[parent].market.version + 1
    /\ e <= parent + 1
    /\ x => /\ approved # NoBlock
            /\ VersionAndEpoch(parent) = reviewed.expects
            /\ m.version = blocks[parent].market.version + 1

LEMMA ChainStep ==
    ASSUME TypeOK, Tree, Chain
    PROVE  \/ Flip
           \/ \E parent \in DOMAIN blocks, m \in Markets, e \in 1..MaxBlocks, x \in BOOLEAN :
                 Extension(parent, m, e, x)
  <1> SUFFICES ASSUME NEW parent \in DOMAIN blocks, Disturbance(parent) \/ Mined(parent)
               PROVE  \E m \in Markets, e \in 1..MaxBlocks, x \in BOOLEAN :
                         Extension(parent, m, e, x)
    BY DEF Chain
  <1>1. /\ parent \in 1..Len(blocks) /\ Len(blocks) \in Nat
        /\ blocks[parent].market \in Markets /\ blocks[parent].epoch \in 1..MaxBlocks
    BY BlockShape
  <1>2. blocks[parent].market.version <= parent /\ blocks[parent].epoch <= parent
    BY DEF Tree
  <1>3. Len(blocks) < MaxBlocks /\ MaxBlocks \in Nat
    BY ReviewedAssumption DEF Disturbance, Mined, NewBlock
  <1>4. /\ blocks[parent].market.version + 1 \in 1..MaxBlocks
        /\ blocks[parent].epoch + 1 \in 1..MaxBlocks
        /\ blocks[parent].epoch + 1 <= parent + 1 /\ blocks[parent].epoch <= parent + 1
    BY <1>1, <1>2, <1>3 DEF Markets
  <1>5. \A c \in Contents : /\ Advanced(parent, c) \in Markets
                            /\ Advanced(parent, c).version = blocks[parent].market.version + 1
    BY <1>4 DEF Advanced, Markets
  <1>6. CASE \E c \in Contents : NewBlock(parent, Advanced(parent, c), blocks[parent].epoch, FALSE)
    <2> PICK c \in Contents : NewBlock(parent, Advanced(parent, c), blocks[parent].epoch, FALSE)
      BY <1>6
    <2>1. Extension(parent, Advanced(parent, c), blocks[parent].epoch, FALSE)
      BY <1>1, <1>4, <1>5 DEF Extension
    <2> QED  BY <1>1, <1>5, <2>1
  <1>7. CASE NewBlock(parent, blocks[parent].market, blocks[parent].epoch + 1, FALSE)
    <2>1. Extension(parent, blocks[parent].market, blocks[parent].epoch + 1, FALSE)
      BY <1>1, <1>4, <1>7 DEF Extension
    <2> QED  BY <1>1, <1>4, <2>1
  <1>8. CASE Mined(parent)
    <2> PICK c \in Contents : NewBlock(parent, Advanced(parent, c), blocks[parent].epoch, TRUE)
      BY <1>8 DEF Mined
    <2>1. approved # NoBlock /\ VersionAndEpoch(parent) = reviewed.expects
      BY <1>8 DEF Mined, VersionAndEpoch
    <2>2. Extension(parent, Advanced(parent, c), blocks[parent].epoch, TRUE)
      BY <1>1, <1>4, <1>5, <2>1 DEF Extension
    <2> QED  BY <1>1, <1>5, <2>2
  <1> QED  BY <1>6, <1>7, <1>8 DEF Disturbance

LEMMA ExtensionKeepsType ==
    ASSUME TypeOK, Tree, NEW parent \in DOMAIN blocks, NEW m, NEW e, NEW x,
           Extension(parent, m, e, x), UNCHANGED <<task, pc, localVars, grantVars>>
    PROVE  TypeOK'
  <1> DEFINE B == [chain: Seq(1..MaxBlocks), market: Markets, epoch: 1..MaxBlocks,
                   executes: BOOLEAN]
             new == [chain |-> Append(blocks[parent].chain, Len(blocks) + 1),
                     market |-> m, epoch |-> e, executes |-> x]
  <1>1. NewBlock(parent, m, e, x)
    BY DEF Extension
  <1>2. blocks \in Seq(B)
    BY DEF TypeOK
  <1>3. /\ Len(blocks) \in Nat /\ Len(blocks) + 1 <= MaxBlocks /\ MaxBlocks \in Nat
        /\ DOMAIN blocks = 1..Len(blocks) /\ DOMAIN blocks' = 1..(Len(blocks) + 1)
        /\ head' = Len(blocks) + 1
    BY <1>1, NewBlockShape
  <1>4. Append(blocks[parent].chain, Len(blocks) + 1) \in Seq(1..MaxBlocks)
    BY <1>3, BlockShape
  <1>5. new \in B
    BY <1>4 DEF Extension
  <1>6. blocks' = Append(blocks, new)
    BY <1>1 DEF NewBlock
  <1>7. blocks' \in Seq(B)
    <2> HIDE DEF B, new
    <2> QED  BY <1>2, <1>5, <1>6
  <1>8. head' \in DOMAIN blocks' /\ DOMAIN blocks \subseteq DOMAIN blocks'
    BY <1>3
  <1>9. reorgs' \in 0..MaxReorgs
    BY <1>1, ReviewedAssumption DEF NewBlock, Reorganised, TypeOK
  <1>10. /\ task' \in Tasks /\ headSeen' \in 0..MaxBlocks
         /\ {fresh, live, approved}' \subseteq {NoBlock} \cup DOMAIN blocks'
         /\ claim' \in Markets /\ seen' \in {Zero} \cup Seen
         /\ canonical' \subseteq {"fresh", "live"} /\ review' \in BOOLEAN
    <2>1. {fresh, live, approved} \subseteq {NoBlock} \cup DOMAIN blocks
      BY DEF TypeOK
    <2>2. {fresh, live, approved}' = {fresh, live, approved}
      BY DEF localVars, grantVars
    <2>3. {fresh, live, approved}' \subseteq {NoBlock} \cup DOMAIN blocks'
      BY <1>8, <2>1, <2>2
    <2> QED  BY <2>3 DEF TypeOK, localVars, grantVars
  <1>11. \/ reviewed' = NoPreflight
         \/ reviewed' \in [block: DOMAIN blocks', market: Markets, expects: Seen]
    BY <1>8 DEF TypeOK, grantVars
  <1> QED  BY <1>7, <1>8, <1>9, <1>10, <1>11 DEF TypeOK

LEMMA ExtensionKeepsTree ==
    ASSUME TypeOK, Tree, NEW parent \in DOMAIN blocks, NEW m, NEW e, NEW x,
           Extension(parent, m, e, x)
    PROVE  Tree'
  <1> PICK n : n = Len(blocks) + 1
    OBVIOUS
  <1>1. NewBlock(parent, m, e, x)
    BY DEF Extension
  <1>2. /\ Len(blocks) \in Nat /\ DOMAIN blocks = 1..Len(blocks) /\ DOMAIN blocks' = 1..n
        /\ \A b \in DOMAIN blocks : blocks'[b] = blocks[b]
        /\ blocks'[n].market = m /\ blocks'[n].epoch = e
    BY <1>1, NewBlockShape
  <1>3. /\ \A b \in DOMAIN blocks : Number(b)' = Number(b) /\ Parent(b)' = Parent(b)
        /\ \A a, b \in DOMAIN blocks : On(a, b)' <=> On(a, b)
        /\ \A b \in DOMAIN blocks : ~On(n, b)'
        /\ Number(n)' = Number(parent) + 1 /\ Parent(n)' = parent
        /\ \A a : On(a, n)' <=> a = n \/ On(a, parent)
        /\ \A k \in 1..Number(parent) : blocks'[n].chain[k] = blocks[parent].chain[k]
        /\ blocks'[n].chain[Number(parent) + 1] = n
    BY <1>1, NewBlockBranches
  <1>4. \A b \in DOMAIN blocks' : b \in DOMAIN blocks \/ b = n
    BY <1>2
  <1>5. ASSUME NEW b \in DOMAIN blocks
        PROVE  /\ Number(b)' \in 1..b /\ blocks'[b].chain[Number(b)'] = b
               /\ blocks'[b].market.version <= b /\ blocks'[b].epoch <= b
               /\ \A k \in 1..Number(b)' :
                     blocks'[b].chain[k] \in 1..b /\ Number(blocks[b].chain[k])' = k
               /\ \A a \in DOMAIN blocks' :
                     On(a, b)' /\ a # b => Number(b)' > 1 /\ On(a, Parent(b))'
    <2>1. /\ Number(b) \in 1..b /\ blocks[b].chain[Number(b)] = b
          /\ blocks[b].market.version <= b /\ blocks[b].epoch <= b
          /\ \A k \in 1..Number(b) : blocks[b].chain[k] \in 1..b /\ Number(blocks[b].chain[k]) = k
          /\ \A a \in DOMAIN blocks : On(a, b) /\ a # b => Number(b) > 1 /\ On(a, Parent(b))
      BY DEF Tree
    <2>2. \A k \in 1..Number(b)' :
             blocks'[b].chain[k] \in 1..b /\ Number(blocks[b].chain[k])' = k
      <3> SUFFICES ASSUME NEW k \in 1..Number(b)
                   PROVE  blocks'[b].chain[k] \in 1..b /\ Number(blocks[b].chain[k])' = k
        BY <1>3
      <3>1. PICK a : a = blocks[b].chain[k]
        OBVIOUS
      <3>2. blocks'[b].chain[k] = a /\ a \in 1..b /\ Number(a) = k /\ a \in DOMAIN blocks
        BY <1>2, <2>1, <3>1
      <3>3. Number(a)' = k
        BY <1>3, <3>2
      <3> QED  BY <3>2, <3>3 DEF Number
    <2>3. ASSUME NEW a \in DOMAIN blocks', On(a, b)', a # b
          PROVE  Number(b)' > 1 /\ On(a, Parent(b))'
      <3>1. a \in DOMAIN blocks
        BY <1>3, <1>4, <2>3
      <3>2. Number(b) > 1 /\ On(a, Parent(b))
        BY <1>3, <2>1, <2>3, <3>1
      <3>3. PICK p : p = Parent(b)
        OBVIOUS
      <3>4. p \in DOMAIN blocks /\ Parent(b)' = p
        BY <1>3, <3>2, <3>3, ParentIsBlock
      <3>5. On(a, p)'
        BY <1>3, <3>1, <3>2, <3>3, <3>4
      <3>6. Number(b)' > 1
        BY <1>3, <3>2
      <3> QED  BY <3>4, <3>5, <3>6 DEF On
    <2> QED  BY <1>2, <1>3, <2>1, <2>2, <2>3
  <1>6. /\ Number(n)' \in 1..n /\ blocks'[n].chain[Number(n)'] = n
        /\ blocks'[n].market.version <= n /\ blocks'[n].epoch <= n
        /\ \A k \in 1..Number(n)' :
              blocks'[n].chain[k] \in 1..n /\ Number(blocks[n].chain[k])' = k
        /\ \A a \in DOMAIN blocks' : On(a, n)' /\ a # n => Number(n)' > 1 /\ On(a, Parent(n))'
    <2>1. /\ Number(parent) \in 1..parent /\ parent \in 1..Len(blocks)
          /\ blocks[parent].market.version <= parent
          /\ \A k \in 1..Number(parent) :
                blocks[parent].chain[k] \in 1..parent /\ Number(blocks[parent].chain[k]) = k
      BY <1>2 DEF Tree
    <2>2. Number(n)' \in 1..n /\ blocks'[n].chain[Number(n)'] = n
      BY <1>2, <1>3, <2>1
    <2>3. m.version <= n /\ e <= n
      BY <1>2, <2>1, BlockShape DEF Extension, Markets
    <2>4. ASSUME NEW k \in 1..Number(n)'
          PROVE  blocks'[n].chain[k] \in 1..n /\ Number(blocks[n].chain[k])' = k
      <3>1. CASE k \in 1..Number(parent)
        <4>1. PICK a : a = blocks[parent].chain[k]
          OBVIOUS
        <4>2. a \in DOMAIN blocks /\ Number(a) = k /\ blocks'[n].chain[k] = a /\ a \in 1..n
          BY <1>2, <1>3, <2>1, <3>1, <4>1
        <4>3. Number(a)' = k
          BY <1>3, <4>2
        <4> QED  BY <4>2, <4>3 DEF Number
      <3>2. CASE k = Number(parent) + 1
        <4>1. blocks'[n].chain[k] = n /\ Number(n)' = k
          BY <1>3, <3>2
        <4> QED  BY <1>2, <4>1 DEF Number
      <3> QED  BY <1>3, <2>1, <3>1, <3>2
    <2>5. ASSUME NEW a \in DOMAIN blocks', On(a, n)', a # n
          PROVE  Number(n)' > 1 /\ On(a, Parent(n))'
      <3>1. On(a, parent) /\ a \in DOMAIN blocks
        BY <1>3, <1>4, <2>5
      <3>2. On(a, parent)'
        BY <1>3, <3>1
      <3>3. Number(n)' > 1
        BY <1>3, <2>1
      <3> QED  BY <1>3, <3>2, <3>3 DEF On
    <2> QED  BY <1>2, <2>2, <2>3, <2>4, <2>5
  <1> QED  BY <1>4, <1>5, <1>6 DEF Tree

LEMMA ExtensionKeepsGrows ==
    ASSUME TypeOK, Tree, Grows, NEW parent \in DOMAIN blocks, NEW m, NEW e, NEW x,
           Extension(parent, m, e, x)
    PROVE  Grows'
  <1> PICK n : n = Len(blocks) + 1
    OBVIOUS
  <1>1. NewBlock(parent, m, e, x)
    BY DEF Extension
  <1>2. /\ Len(blocks) \in Nat /\ DOMAIN blocks = 1..Len(blocks) /\ DOMAIN blocks' = 1..n
        /\ \A b \in DOMAIN blocks : blocks'[b] = blocks[b]
        /\ blocks'[n].market = m
    BY <1>1, NewBlockShape
  <1>3. /\ \A a, b \in DOMAIN blocks : On(a, b)' <=> On(a, b)
        /\ \A b \in DOMAIN blocks : ~On(n, b)'
        /\ \A a : On(a, n)' <=> a = n \/ On(a, parent)
    BY <1>1, NewBlockBranches
  <1>4. \A b \in DOMAIN blocks' : b \in DOMAIN blocks \/ b = n
    BY <1>2
  <1> SUFFICES ASSUME NEW b \in DOMAIN blocks', NEW a \in DOMAIN blocks', On(a, b)'
               PROVE  /\ blocks'[a].market.version <= blocks'[b].market.version
                      /\ blocks'[a].market.version = blocks'[b].market.version
                         => blocks'[a].market = blocks'[b].market
    BY DEF Grows
  <1>5. CASE b \in DOMAIN blocks
    <2>1. a \in DOMAIN blocks /\ On(a, b)
      BY <1>3, <1>4, <1>5
    <2> QED  BY <1>2, <1>5, <2>1 DEF Grows
  <1>6. CASE b = n /\ a = n
    <2>1. m.version \in Nat
      BY DEF Extension, Markets
    <2> QED  BY <1>2, <1>6, <2>1
  <1>7. CASE b = n /\ a # n
    <2>1. a \in DOMAIN blocks /\ On(a, parent)
      BY <1>3, <1>4, <1>7
    <2>2. /\ blocks[a].market.version <= blocks[parent].market.version
          /\ blocks[a].market.version = blocks[parent].market.version
             => blocks[a].market = blocks[parent].market
      BY <2>1 DEF Grows
    <2>3. m = blocks[parent].market \/ m.version = blocks[parent].market.version + 1
      BY DEF Extension
    <2>4. blocks[a].market.version \in Nat /\ blocks[parent].market.version \in Nat
      BY <2>1, BlockShape DEF Markets
    <2>5. blocks'[a].market = blocks[a].market /\ blocks'[b].market = m
      BY <1>2, <1>7, <2>1
    <2> QED  BY <2>2, <2>3, <2>4, <2>5
  <1> QED  BY <1>4, <1>5, <1>6, <1>7

\* Executed changes stay, and a new one stands on the version and epoch of the review.
LEMMA ExtensionKeepsExecuted ==
    ASSUME TypeOK, Tree, Run, Executed, NEW parent \in DOMAIN blocks, NEW m, NEW e, NEW x,
           Extension(parent, m, e, x), UNCHANGED reviewed
    PROVE  Executed'
  <1> PICK n : n = Len(blocks) + 1
    OBVIOUS
  <1>1. NewBlock(parent, m, e, x)
    BY DEF Extension
  <1>2. /\ Len(blocks) \in Nat /\ DOMAIN blocks = 1..Len(blocks) /\ DOMAIN blocks' = 1..n
        /\ \A b \in DOMAIN blocks : blocks'[b] = blocks[b]
        /\ blocks'[n].market = m /\ blocks'[n].executes = x
    BY <1>1, NewBlockShape
  <1>3. /\ \A b \in DOMAIN blocks : Number(b)' = Number(b) /\ Parent(b)' = Parent(b)
        /\ Number(n)' = Number(parent) + 1 /\ Parent(n)' = parent
    BY <1>1, NewBlockBranches
  <1> SUFFICES ASSUME NEW b \in DOMAIN blocks', blocks'[b].executes
               PROVE  /\ Number(b)' > 1 /\ reviewed' # NoPreflight
                      /\ VersionAndEpoch(Parent(b))' = reviewed'.expects
                      /\ blocks'[b].market.version = blocks'[Parent(b)'].market.version + 1
    BY DEF Executed
  <1>4. CASE b \in DOMAIN blocks
    <2>1. /\ Number(b) > 1 /\ reviewed # NoPreflight
          /\ VersionAndEpoch(Parent(b)) = reviewed.expects
          /\ blocks[b].market.version = blocks[Parent(b)].market.version + 1
      BY <1>2, <1>4 DEF Executed
    <2>2. PICK p : p = Parent(b)
      OBVIOUS
    <2>3. p \in DOMAIN blocks /\ Parent(b)' = p
      BY <1>3, <1>4, <2>1, <2>2, ParentIsBlock
    <2>4. blocks'[p] = blocks[p] /\ blocks'[b] = blocks[b]
      BY <1>2, <1>4, <2>3
    <2>5. Number(b)' > 1 /\ VersionAndEpoch(p)' = VersionAndEpoch(p)
      BY <1>3, <1>4, <2>1, <2>4 DEF VersionAndEpoch
    <2>6. VersionAndEpoch(Parent(b))' = VersionAndEpoch(p)'
      BY <2>3 DEF VersionAndEpoch
    <2> QED  BY <2>1, <2>2, <2>3, <2>4, <2>5, <2>6
  <1>5. CASE b = n
    <2>1. x /\ approved # NoBlock
      BY <1>2, <1>5 DEF Extension
    <2>2. /\ VersionAndEpoch(parent) = reviewed.expects
          /\ m.version = blocks[parent].market.version + 1
      BY <2>1 DEF Extension
    <2>3. reviewed # NoPreflight
      BY <2>1 DEF Run
    <2>4. Number(n)' > 1
      BY <1>3, BlockShape
    <2>5. VersionAndEpoch(Parent(n))' = VersionAndEpoch(parent)
      BY <1>2, <1>3 DEF VersionAndEpoch
    <2> QED  BY <1>2, <1>3, <1>5, <2>2, <2>3, <2>4, <2>5
  <1> QED  BY <1>2, <1>4, <1>5

Extends == reorgs' = reorgs /\ \A b \in DOMAIN blocks : On(b, head)' <=> On(b, head)
FirstReorg == reorgs = 0 /\ reorgs' = 1

\* A step of the chain keeps the blocks; while an operation reads, it either extends
\* the branch or is the first to leave it.
LEMMA ChainMoves ==
    ASSUME TypeOK, Tree, MaxReorgs <= 1, Chain
    PROVE  /\ DOMAIN blocks \subseteq DOMAIN blocks'
           /\ \A b \in DOMAIN blocks : blocks'[b] = blocks[b]
           /\ pc \in Quiet \/ Extends \/ FirstReorg
  <1>1. MaxReorgs \in Nat /\ reorgs \in 0..MaxReorgs /\ head \in DOMAIN blocks
    BY ReviewedAssumption DEF TypeOK
  <1>2. Reorganised => pc \in Quiet \/ FirstReorg
    BY <1>1 DEF Reorganised, FirstReorg
  <1>3. CASE Flip
    BY <1>2, <1>3 DEF Flip
  <1>4. ASSUME NEW parent \in DOMAIN blocks, NEW m, NEW e, NEW x, NewBlock(parent, m, e, x)
        PROVE  /\ DOMAIN blocks \subseteq DOMAIN blocks'
               /\ \A b \in DOMAIN blocks : blocks'[b] = blocks[b]
               /\ pc \in Quiet \/ Extends \/ FirstReorg
    <2> PICK n : n = Len(blocks) + 1
      OBVIOUS
    <2>1. /\ Len(blocks) \in Nat /\ DOMAIN blocks = 1..Len(blocks) /\ DOMAIN blocks' = 1..n
          /\ \A b \in DOMAIN blocks : blocks'[b] = blocks[b]
          /\ head' = n
      BY <1>4, NewBlockShape
    <2>2. \A a : On(a, n)' <=> a = n \/ On(a, parent)
      BY <1>4, NewBlockBranches
    <2>3. \A a : On(a, head)' <=> a = n \/ On(a, parent)
      BY <2>1, <2>2 DEF On
    <2>4. \A b \in DOMAIN blocks : b # n
      BY <2>1
    <2>5. parent = head => \A b \in DOMAIN blocks : On(b, head)' <=> On(b, head)
      BY <2>3, <2>4
    <2>6. (parent = head /\ reorgs' = reorgs) \/ Reorganised
      <3>1. IF parent = head THEN UNCHANGED reorgs ELSE Reorganised
        BY <1>4 DEF NewBlock
      <3> QED  BY <3>1
    <2> QED  BY <1>2, <2>1, <2>5, <2>6 DEF Extends
  <1> QED  BY <1>3, <1>4, ChainStep DEF Extension

\* A block that an operation has found and that is on the branch after a step was on
\* it before, since the node leaves its branch only once in the operation.
LEMMA ChainStays ==
    ASSUME TypeOK, Tree, OneBranch, MaxReorgs <= 1, Chain,
           pc \in FreshFound => fresh \in DOMAIN blocks,
           pc \in LiveFound => live \in DOMAIN blocks
    PROVE  /\ DOMAIN blocks \subseteq DOMAIN blocks'
           /\ \A b \in DOMAIN blocks : blocks'[b] = blocks[b]
           /\ pc \in FreshFound /\ On(fresh, head)' => On(fresh, head)
           /\ pc \in LiveFound /\ On(live, head)' => On(live, head)
           /\ OneBranch'
  <1>1. /\ DOMAIN blocks \subseteq DOMAIN blocks'
        /\ \A b \in DOMAIN blocks : blocks'[b] = blocks[b]
        /\ pc \in Quiet \/ Extends \/ FirstReorg
    BY ChainMoves
  <1>2. pc' = pc /\ fresh' = fresh /\ live' = live
    BY DEF Chain, localVars
  <1>3. \A b : /\ b = fresh => (On(fresh, head)' <=> On(b, head)')
               /\ b = live => (On(live, head)' <=> On(b, head)')
    BY <1>2 DEF On
  <1>4. CASE pc \in Quiet
    <2>1. pc \notin FreshFound /\ pc \notin LiveFound
      BY <1>4 DEF Quiet, FreshFound, LiveFound
    <2> QED  BY <1>1, <1>2, <2>1 DEF OneBranch
  <1>5. CASE Extends
    <2>1. /\ pc \in FreshFound => (On(fresh, head)' <=> On(fresh, head))
          /\ pc \in LiveFound => (On(live, head)' <=> On(live, head))
      BY <1>3, <1>5 DEF Extends
    <2> QED  BY <1>1, <1>2, <1>5, <2>1 DEF OneBranch, Extends
  <1>6. CASE FirstReorg
    BY <1>1, <1>6 DEF OneBranch, FirstReorg
  <1> QED  BY <1>1, <1>4, <1>5, <1>6

LEMMA ChainKeepsIInv ==
    ASSUME IInv, MaxReorgs <= 1, Chain
    PROVE  IInv'
  <1>1. TypeOK /\ Tree /\ Grows /\ OneBranch /\ Run /\ Executed
    BY DEF IInv
  <1>2. /\ task' = task /\ pc' = pc /\ fresh' = fresh /\ claim' = claim /\ live' = live
        /\ seen' = seen /\ canonical' = canonical /\ headSeen' = headSeen
        /\ reviewed' = reviewed /\ review' = review /\ approved' = approved
    BY DEF Chain, localVars, grantVars
  <1>3. /\ DOMAIN blocks \subseteq DOMAIN blocks'
        /\ \A b \in DOMAIN blocks : blocks'[b] = blocks[b]
        /\ pc \in FreshFound /\ On(fresh, head)' => On(fresh, head)
        /\ pc \in LiveFound /\ On(live, head)' => On(live, head)
        /\ OneBranch'
    <2>1. /\ pc \in FreshFound => fresh \in DOMAIN blocks
          /\ pc \in LiveFound => live \in DOMAIN blocks
      BY DEF IInv, Snapshot, SnapshotTaken, Vouched, LiveState, FreshFound, LiveFound
    <2> QED  BY <1>1, <2>1, ChainStays
  <1>4. TypeOK' /\ Tree' /\ Grows' /\ Executed'
    <2>1. CASE Flip
      <3>1. blocks' = blocks /\ head' \in DOMAIN blocks /\ reorgs' \in 0..MaxReorgs
        BY <1>1, <2>1, ReviewedAssumption DEF Flip, Reorganised, TypeOK
      <3>2. TypeOK'
        BY <1>1, <1>2, <3>1 DEF TypeOK
      <3>3. Tree' /\ Grows' /\ Executed'
        BY <1>1, <1>2, <3>1 DEF Tree, Grows, Executed, On, Number, Parent, VersionAndEpoch
      <3> QED  BY <3>2, <3>3
    <2>2. ASSUME NEW parent \in DOMAIN blocks, NEW m, NEW e, NEW x, Extension(parent, m, e, x)
          PROVE  TypeOK' /\ Tree' /\ Grows' /\ Executed'
      <3>1. UNCHANGED <<task, pc, localVars, grantVars>> /\ UNCHANGED reviewed
        BY <1>2 DEF Chain
      <3> QED  BY <1>1, <2>2, <3>1, ExtensionKeepsType, ExtensionKeepsTree,
                  ExtensionKeepsGrows, ExtensionKeepsExecuted
    <2> QED  BY <1>1, <2>1, <2>2, ChainStep
  <1>5. {fresh, live, approved} \subseteq {NoBlock} \cup DOMAIN blocks
    BY <1>1 DEF TypeOK
  <1>6. /\ fresh \in DOMAIN blocks => blocks'[fresh] = blocks[fresh]
        /\ live \in DOMAIN blocks => blocks'[live] = blocks[live]
    BY <1>3
  <1>7. live \in DOMAIN blocks => (On(fresh, live)' <=> On(fresh, live))
    BY <1>2, <1>6 DEF On
  <1>8. live \in DOMAIN blocks => VersionAndEpoch(live)' = VersionAndEpoch(live)
    BY <1>2, <1>6 DEF VersionAndEpoch
  <1>9. Snapshot'
    <2>1. Snapshot
      BY DEF IInv
    <2>2. pc \in SnapshotTaken => fresh \in DOMAIN blocks
      BY <2>1 DEF Snapshot
    <2>3. fresh' \in DOMAIN blocks' \/ ~(pc \in SnapshotTaken)
      BY <1>2, <1>3, <2>2
    <2>4. /\ pc \in {"positions", "blockAgain"} => pc \in SnapshotTaken
          /\ pc \in Vouched => pc \in SnapshotTaken
      BY DEF SnapshotTaken
    <2>5. /\ pc \in SnapshotTaken => blocks'[fresh'] = blocks[fresh]
          /\ pc \in {"positions", "blockAgain"} /\ On(fresh, head)' => On(fresh, head)
      BY <1>2, <1>3, <1>6, <2>2 DEF FreshFound
    <2> QED  BY <1>2, <2>1, <2>3, <2>4, <2>5 DEF Snapshot, Checking
  <1>10. LiveState'
    <2>1. LiveState
      BY DEF IInv
    <2>2. pc \in {"read", "latestAgain", "end"} => live \in DOMAIN blocks /\ live' \in DOMAIN blocks'
      BY <1>2, <1>3, <2>1 DEF LiveState
    <2>3. pc \in {"read", "latestAgain", "end"} /\ On(fresh, head)' => On(fresh, live)'
      <3>1. Snapshot /\ (pc \in {"read", "latestAgain", "end"} => fresh \in DOMAIN blocks)
        BY DEF IInv, Snapshot, SnapshotTaken, Vouched
      <3> QED  BY <1>3, <1>7, <2>1, <2>2, <3>1 DEF LiveState, FreshFound, LiveFound
    <2>4. /\ pc \in {"latestAgain", "end"} => VersionAndEpoch(live)' = VersionAndEpoch(live)
          /\ pc \in {"latestAgain", "end"} /\ On(live, head)' => On(live, head)
          /\ pc \in {"latestAgain", "end"} => (On(fresh, live)' <=> On(fresh, live))
      BY <1>3, <1>7, <1>8, <2>2 DEF LiveFound
    <2> QED  BY <1>2, <2>1, <2>2, <2>3, <2>4 DEF LiveState
  <1>11. Run'
    BY <1>1, <1>2 DEF Run, Checking
  <1>12. PassesOnReviewedState'
    <2>1. approved # NoBlock => approved \in DOMAIN blocks
      BY <1>5
    <2>2. approved # NoBlock => State(approved)' = State(approved)
      BY <1>2, <1>3, <2>1 DEF State
    <2>3. ReviewedOne' = ReviewedOne
      BY <1>2 DEF ReviewedOne
    <2> QED  BY <1>2, <2>2, <2>3 DEF PassesOnReviewedState, IInv
  <1> QED  BY <1>3, <1>4, <1>9, <1>10, <1>11, <1>12 DEF IInv

(***************************************************************************)
(* Steps of the console                                                    *)
(***************************************************************************)

\* A step of the console does not move the chain.
LEMMA QuietChain ==
    ASSUME IInv, UNCHANGED <<blocks, head>>
    PROVE  /\ Tree' /\ Grows'
           /\ UNCHANGED reviewed => Executed'
           /\ UNCHANGED <<reviewed, approved>> => PassesOnReviewedState'
           /\ \A b, c : On(b, c)' <=> On(b, c)
           /\ \A b : VersionAndEpoch(b)' = VersionAndEpoch(b)
  <1>1. blocks' = blocks /\ head' = head
    OBVIOUS
  <1>2. Tree'
    BY <1>1 DEF IInv, Tree, On, Number, Parent
  <1>3. Grows'
    BY <1>1 DEF IInv, Grows, On
  <1>4. UNCHANGED reviewed => Executed'
    BY <1>1 DEF IInv, Executed, VersionAndEpoch, Number, Parent
  <1>5. UNCHANGED <<reviewed, approved>> => PassesOnReviewedState'
    BY <1>1 DEF IInv, PassesOnReviewedState, State, ReviewedOne
  <1> QED  BY <1>1, <1>2, <1>3, <1>4, <1>5 DEF On, VersionAndEpoch

\* The local variables of an operation that is over say nothing any more.
LEMMA ForgetKeepsType ==
    ASSUME TypeOK, Tree, Forget, UNCHANGED <<blocks, head>>, reorgs' \in 0..MaxReorgs,
           task' \in Tasks, review' \in BOOLEAN,
           approved' \in {NoBlock} \cup DOMAIN blocks,
           reviewed' = NoPreflight \/ reviewed' \in [block: DOMAIN blocks, market: Markets, expects: Seen]
    PROVE  TypeOK'
  <1>1. blocks[1].market \in Markets
    <2>1. head \in DOMAIN blocks
      BY DEF TypeOK
    <2>2. 1 \in DOMAIN blocks
      BY <2>1, BlockShape DEF TypeOK
    <2> QED  BY <2>2, BlockShape
  <1>2. MaxBlocks \in Nat
    BY ReviewedAssumption
  <1> QED  BY <1>1, <1>2 DEF Forget, TypeOK

LEMMA ConsoleKeepsChain ==
    ASSUME TypeOK, Console
    PROVE  UNCHANGED <<blocks, head>> /\ reorgs' \in 0..MaxReorgs
  <1>1. UNCHANGED <<blocks, head>> /\ reorgs' \in {0, reorgs}
    BY DEF Console, Begin, Go, ReviewedBlock, BlockNumber, Graph, CorroborateBlock,
           CorroborateMarket, CorroboratePositions, Validate, Latest, Read, LatestAgain, Bind,
           RunAccepted, EndOfCheck, Pass, Record, Throw, chainVars
  <1> QED  BY <1>1, ReviewedAssumption DEF TypeOK

\* What an operation has found stays found until the operation ends.
LEMMA ConsoleKeepsOneBranch ==
    ASSUME IInv, Console
    PROVE  OneBranch'
  <1>1. TypeOK /\ Tree /\ OneBranch /\ Snapshot /\ head \in DOMAIN blocks
    BY DEF IInv, TypeOK
  <1>2. blocks' = blocks /\ head' = head
    BY <1>1, ConsoleKeepsChain
  <1>3. \A b : On(b, head)' <=> On(b, head)
    BY <1>2 DEF On
  <1>4. LiveFound \subseteq FreshFound
    BY DEF FreshFound
  <1>5. CASE \/ \E t \in Tasks : Begin(t)
             \/ ReviewedBlock \/ BlockNumber \/ Graph \/ Bind \/ RunAccepted \/ Pass \/ Record \/ Throw
    <2>1. pc' \notin FreshFound
      <3>1. CASE Pass
        <4>1. pc' = After[task] /\ task \in Tasks /\ pc = "end"
          BY <1>1, <3>1 DEF Pass, Go, TypeOK
        <4>2. Checking
          BY <4>1 DEF IInv, Run
        <4>3. After[task] \in {"record", "idle", "sent"}
          BY <4>1, <4>2 DEF After, Tasks, Checking
        <4> QED  BY <4>1, <4>3 DEF FreshFound, LiveFound
      <3> QED  BY <1>5, <3>1 DEF Begin, Go, ReviewedBlock, BlockNumber, Graph, Bind, RunAccepted,
                    Record, Throw, FreshFound, LiveFound
    <2> QED  BY <1>4, <2>1 DEF OneBranch
  <1>6. CASE CorroborateBlock
    <2>1. /\ Canonical(Number(fresh)) = fresh /\ fresh' = fresh /\ live' = live
          /\ pc' \in {"market", "validate"} /\ fresh \in DOMAIN blocks
      BY <1>1, <1>6 DEF CorroborateBlock, Go, localVars, Snapshot, SnapshotTaken
    <2>2. On(fresh, head)
      BY <1>1, <2>1, CanonicalIsOn
    <2>3. On(fresh, head)'
      BY <1>2, <2>1, <2>2 DEF On
    <2> QED  BY <2>1, <2>3 DEF OneBranch, LiveFound
  <1>7. CASE Latest
    <2>1. live' = head /\ fresh' = fresh /\ pc = "latest" /\ pc' = "read" /\ reorgs' = reorgs
      BY <1>7 DEF Latest, Go, Quiet
    <2>2. On(head, head)
      <3>1. Number(head) \in 1..Number(head) /\ blocks[head].chain[Number(head)] = head
        BY <1>1, BlockShape DEF Tree
      <3> QED  BY <3>1 DEF On, Contains, Number
    <2>3. On(live, head)' /\ (On(fresh, head)' <=> On(fresh, head))
      BY <1>2, <2>1, <2>2 DEF On
    <2> QED  BY <1>1, <2>1, <2>3 DEF OneBranch, FreshFound
  <1>8. CASE \/ CorroborateMarket \/ CorroboratePositions \/ Validate \/ Read \/ LatestAgain
             \/ EndOfCheck("fresh", fresh) \/ EndOfCheck("live", live)
    <2>1. /\ fresh' = fresh /\ live' = live /\ pc \in FreshFound
          /\ pc' \in LiveFound => pc \in LiveFound
      BY <1>8 DEF CorroborateMarket, CorroboratePositions, Validate, Read, LatestAgain, EndOfCheck,
         Go, localVars, FreshFound, LiveFound
    <2>2. pc' \in FreshFound => reorgs' = reorgs
      BY <1>8 DEF CorroborateMarket, CorroboratePositions, Validate, Read, LatestAgain, EndOfCheck,
         Go, Quiet, FreshFound, LiveFound
    <2>3. (On(fresh, head)' <=> On(fresh, head)) /\ (On(live, head)' <=> On(live, head))
      BY <1>2, <2>1 DEF On
    <2> QED  BY <1>1, <1>4, <2>1, <2>2, <2>3 DEF OneBranch
  <1> QED  BY <1>5, <1>6, <1>7, <1>8 DEF Console

LEMMA ConsoleKeepsIInv ==
    ASSUME IInv, Console
    PROVE  IInv'
  <1> USE DEF NoBlock
  <1>1. TypeOK /\ Tree /\ Grows /\ Snapshot /\ LiveState /\ Run /\ PassesOnReviewedState
    BY DEF IInv
  <1>2. UNCHANGED <<blocks, head>> /\ reorgs' \in 0..MaxReorgs
    BY <1>1, ConsoleKeepsChain
  <1>3. /\ blocks' = blocks /\ head' = head /\ reorgs' \in 0..MaxReorgs
        /\ Tree' /\ Grows' /\ OneBranch'
        /\ UNCHANGED reviewed => Executed'
        /\ UNCHANGED <<reviewed, approved>> => PassesOnReviewedState'
        /\ \A b, c : On(b, c)' <=> On(b, c)
        /\ \A b : VersionAndEpoch(b)' = VersionAndEpoch(b)
    BY <1>2, QuietChain, ConsoleKeepsOneBranch
  <1>4. /\ Height \in 0..MaxBlocks /\ head \in DOMAIN blocks
        /\ \A b \in DOMAIN blocks : Canonical(Number(b)) = b <=> On(b, head)
        /\ \A b \in DOMAIN blocks : b # NoBlock /\ VersionAndEpoch(b) \in Seen
    <2>1. head \in DOMAIN blocks
      BY <1>1 DEF TypeOK
    <2>2. Number(head) \in 1..head /\ head \in 1..Len(blocks) /\ Len(blocks) \in Nat
      BY <1>1, <2>1, BlockShape DEF Tree
    <2>3. blocks[head].chain[Number(head)] \in 1..MaxBlocks /\ blocks[head].chain[Number(head)] = head
      <3>1. blocks[head].chain \in Seq(1..MaxBlocks) /\ Number(head) \in DOMAIN blocks[head].chain
        BY <1>1, <2>1, <2>2, BlockShape
      <3>2. PICK c : c = blocks[head].chain
        OBVIOUS
      <3>3. c[Number(head)] \in 1..MaxBlocks
        <4> DEFINE N == 1..MaxBlocks
        <4>1. c \in Seq(N) /\ Number(head) \in DOMAIN c
          BY <3>1, <3>2
        <4> HIDE DEF N
        <4>2. c[Number(head)] \in N
          BY <4>1
        <4> QED  BY <4>2 DEF N
      <3>4. blocks[head].chain[Number(head)] = head
        BY <1>1, <2>1 DEF Tree
      <3> QED  BY <3>2, <3>3, <3>4
    <2>4. Height \in 0..MaxBlocks
      BY <2>2, <2>3, ReviewedAssumption DEF Height
    <2>5. \A b \in DOMAIN blocks : b # NoBlock /\ VersionAndEpoch(b) \in Seen
      BY <1>1, BlockShape DEF VersionAndEpoch, Seen, Markets
    <2> QED  BY <1>1, <2>1, <2>4, <2>5, CanonicalIsOn
  <1>5. ASSUME UNCHANGED <<task, grantVars, localVars>>
        PROVE  TypeOK'
    BY <1>1, <1>3, <1>5 DEF TypeOK, localVars, grantVars
  <1>6. CASE \E t \in Tasks : Begin(t)
    <2> PICK t \in Tasks : Begin(t)
      BY <1>6
    <2>1. TypeOK'
      BY <1>1, <1>3 DEF Begin, TypeOK, localVars, grantVars
    <2>2. Snapshot' /\ LiveState'
      BY <1>1, <1>3 DEF Begin, Snapshot, SnapshotTaken, Vouched, LiveState, localVars, grantVars
    <2>3. Run'
      BY <1>1 DEF Begin, Run, Checking, grantVars
    <2>4. UNCHANGED <<reviewed, approved>>
      BY DEF Begin, grantVars
    <2> QED  BY <1>3, <2>1, <2>2, <2>3, <2>4 DEF IInv
  <1>7. CASE ReviewedBlock
    <2>1. TypeOK'
      BY <1>5, <1>7 DEF ReviewedBlock, Go
    <2>2. Snapshot'
      BY <1>1, <1>3, <1>4, <1>7 DEF ReviewedBlock, Snapshot, SnapshotTaken, Vouched, Checking,
         localVars, grantVars, Go
    <2>3. LiveState'
      BY <1>1, <1>3, <1>4, <1>7 DEF ReviewedBlock, LiveState, Checking, localVars, grantVars, Go,
         TypeOK
    <2>4. Run'
      BY <1>1, <1>3, <1>7 DEF ReviewedBlock, Run, Checking, localVars, grantVars, Go, TypeOK
    <2>5. UNCHANGED <<reviewed, approved>>
      BY <1>7 DEF ReviewedBlock, grantVars
    <2> QED  BY <1>3, <2>1, <2>2, <2>3, <2>4, <2>5 DEF IInv
  <1>8. CASE BlockNumber
    <2>1. TypeOK'
      BY <1>1, <1>3, <1>4, <1>8 DEF BlockNumber, Go, TypeOK, localVars, grantVars
    <2>2. Snapshot'
      BY <1>1, <1>3, <1>4, <1>8 DEF BlockNumber, Snapshot, SnapshotTaken, Vouched, Checking,
         localVars, grantVars, Go
    <2>3. LiveState'
      BY <1>1, <1>3, <1>4, <1>8 DEF BlockNumber, LiveState, Checking, localVars, grantVars, Go,
         TypeOK
    <2>4. Run'
      BY <1>1, <1>3, <1>8 DEF BlockNumber, Run, Checking, localVars, grantVars, Go, TypeOK
    <2>5. UNCHANGED <<reviewed, approved>>
      BY <1>8 DEF BlockNumber, grantVars
    <2> QED  BY <1>3, <2>1, <2>2, <2>3, <2>4, <2>5 DEF IInv
  <1>9. CASE Graph
    <2>1. TypeOK'
      BY <1>1, <1>3, <1>4, <1>9 DEF Graph, Go, TypeOK, localVars, grantVars
    <2>2. Snapshot'
      BY <1>1, <1>3, <1>4, <1>9 DEF Graph, Snapshot, SnapshotTaken, Vouched, Checking, localVars,
         grantVars, Go
    <2>3. LiveState'
      BY <1>1, <1>3, <1>4, <1>9 DEF Graph, LiveState, Checking, localVars, grantVars, Go, TypeOK
    <2>4. Run'
      BY <1>1, <1>3, <1>9 DEF Graph, Run, Checking, localVars, grantVars, Go, TypeOK
    <2>5. UNCHANGED <<reviewed, approved>>
      BY <1>9 DEF Graph, grantVars
    <2> QED  BY <1>3, <2>1, <2>2, <2>3, <2>4, <2>5 DEF IInv
  <1>10. CASE CorroborateBlock
    <2>1. TypeOK'
      BY <1>5, <1>10 DEF CorroborateBlock, Go
    <2>2. Snapshot'
      BY <1>1, <1>3, <1>4, <1>10 DEF CorroborateBlock, Snapshot, SnapshotTaken, Vouched,
         Checking, localVars, grantVars, Go
    <2>3. LiveState'
      BY <1>1, <1>3, <1>4, <1>10 DEF CorroborateBlock, LiveState, Checking, localVars, grantVars,
         Go, TypeOK
    <2>4. Run'
      BY <1>1, <1>3, <1>10 DEF CorroborateBlock, Run, Checking, localVars, grantVars, Go, TypeOK
    <2>5. UNCHANGED <<reviewed, approved>>
      BY <1>10 DEF CorroborateBlock, grantVars
    <2> QED  BY <1>3, <2>1, <2>2, <2>3, <2>4, <2>5 DEF IInv
  <1>11. CASE CorroborateMarket
    <2>0. On(fresh, head) => Indexed = blocks[fresh].market
      BY <1>1, <1>4, <1>11 DEF CorroborateMarket, Go, Indexed, Snapshot, SnapshotTaken
    <2>1. TypeOK'
      BY <1>5, <1>11 DEF CorroborateMarket, Go
    <2>2. Snapshot'
      BY <1>1, <1>3, <1>4, <1>11, <2>0 DEF CorroborateMarket, Snapshot, SnapshotTaken, Vouched,
         Checking, localVars, grantVars, Go
    <2>3. LiveState'
      BY <1>1, <1>3, <1>4, <1>11, <2>0 DEF CorroborateMarket, LiveState, Checking, localVars,
         grantVars, Go, TypeOK
    <2>4. Run'
      BY <1>1, <1>3, <1>11 DEF CorroborateMarket, Run, Checking, localVars, grantVars, Go, TypeOK
    <2>5. UNCHANGED <<reviewed, approved>>
      BY <1>11 DEF CorroborateMarket, grantVars
    <2> QED  BY <1>3, <2>1, <2>2, <2>3, <2>4, <2>5 DEF IInv
  <1>12. CASE CorroboratePositions
    <2>0. On(fresh, head) => Indexed = blocks[fresh].market
      BY <1>1, <1>4, <1>12 DEF CorroboratePositions, Go, Indexed, Snapshot, SnapshotTaken
    <2>a. /\ claim \in Markets /\ fresh \in DOMAIN blocks
          /\ blocks[fresh].market \in Markets
      BY <1>1, BlockShape, <1>12 DEF TypeOK, CorroboratePositions, Go, Snapshot, SnapshotTaken
    <2>b. \A p \in Markets, q \in Markets : p.version = q.version /\ p.content = q.content => p = q
      BY DEF Markets
    <2>c. On(fresh, head) => claim = blocks[fresh].market
      <3>1. On(fresh, head) => claim.version = blocks[fresh].market.version
        BY <1>1, <1>12 DEF CorroboratePositions, Go, Snapshot
      <3>2. On(fresh, head) => claim.content = blocks[fresh].market.content
        BY <2>0, <1>12 DEF CorroboratePositions
      <3> QED  BY <2>a, <2>b, <3>1, <3>2
    <2>1. TypeOK'
      BY <1>5, <1>12 DEF CorroboratePositions, Go
    <2>2. Snapshot'
      BY <1>1, <1>3, <1>4, <1>12, <2>0, <2>c DEF CorroboratePositions, Snapshot, SnapshotTaken,
         Vouched, Checking, localVars, grantVars, Go
    <2>3. LiveState'
      BY <1>1, <1>3, <1>4, <1>12, <2>0, <2>c DEF CorroboratePositions, LiveState, Checking,
         localVars, grantVars, Go, TypeOK
    <2>4. Run'
      BY <1>1, <1>3, <1>12 DEF CorroboratePositions, Run, Checking, localVars, grantVars, Go,
         TypeOK
    <2>5. UNCHANGED <<reviewed, approved>>
      BY <1>12 DEF CorroboratePositions, grantVars
    <2> QED  BY <1>3, <2>1, <2>2, <2>3, <2>4, <2>5 DEF IInv
  <1>13. CASE Validate
    <2>1. TypeOK'
      BY <1>5, <1>13 DEF Validate, Go
    <2>2. Snapshot'
      BY <1>1, <1>3, <1>4, <1>13 DEF Validate, SameMarketState, Snapshot, SnapshotTaken, Vouched,
         Checking, localVars, grantVars, Go
    <2>3. LiveState'
      BY <1>1, <1>3, <1>4, <1>13 DEF Validate, LiveState, Checking, localVars, grantVars, Go,
         TypeOK
    <2>4. Run'
      BY <1>1, <1>3, <1>13 DEF Validate, Run, Checking, localVars, grantVars, Go, TypeOK
    <2>5. UNCHANGED <<reviewed, approved>>
      BY <1>13 DEF Validate, grantVars
    <2> QED  BY <1>3, <2>1, <2>2, <2>3, <2>4, <2>5 DEF IInv
  <1>14. CASE Latest
    <2>1. TypeOK'
      BY <1>1, <1>3, <1>4, <1>14 DEF Latest, Go, TypeOK, localVars, grantVars
    <2>2. Snapshot'
      BY <1>1, <1>3, <1>4, <1>14 DEF Latest, Snapshot, SnapshotTaken, Vouched, Checking,
         localVars, grantVars, Go
    <2>3. LiveState'
      BY <1>1, <1>3, <1>4, <1>14 DEF Latest, LiveState, Checking, localVars, grantVars, Go, TypeOK
    <2>4. Run'
      BY <1>1, <1>3, <1>14 DEF Latest, Run, Checking, localVars, grantVars, Go, TypeOK
    <2>5. UNCHANGED <<reviewed, approved>>
      BY <1>14 DEF Latest, grantVars
    <2> QED  BY <1>3, <2>1, <2>2, <2>3, <2>4, <2>5 DEF IInv
  <1>15. CASE Read
    <2>0. live \in DOMAIN blocks /\ fresh \in DOMAIN blocks
      BY <1>1, <1>15 DEF Read, Go, LiveState, Snapshot, SnapshotTaken, Vouched
    <2>a. /\ Canonical(Number(live)) \in DOMAIN blocks
          /\ seen' = VersionAndEpoch(Canonical(Number(live)))
      <3>1. Number(live) \in 1..Number(head)
        BY <1>1, <1>4, <2>0, <1>15, BlockShape DEF Read, Height
      <3>2. blocks[head].chain[Number(live)] \in 1..head
        BY <1>1, <1>4, <3>1 DEF Tree
      <3>3. DOMAIN blocks = 1..Len(blocks) /\ head \in 1..Len(blocks) /\ Len(blocks) \in Nat
        BY <1>1, <1>4 DEF TypeOK
      <3> QED  BY <3>1, <3>2, <3>3, <1>15 DEF Read, Canonical, Height, VersionAndEpoch
    <2>b. seen' \in Seen /\ (On(live, head) => seen' = VersionAndEpoch(live))
      BY <1>4, <2>0, <2>a
    <2>1. TypeOK'
      BY <1>1, <1>3, <2>b, <1>15 DEF Read, Go, TypeOK, localVars, grantVars
    <2>2. Snapshot'
      BY <1>1, <1>3, <1>4, <1>15, <2>0, <2>b DEF Read, Snapshot, SnapshotTaken, Vouched,
         Checking, localVars, grantVars, Go
    <2>3. LiveState'
      BY <1>1, <1>3, <1>4, <1>15, <2>0, <2>b DEF Read, LiveState, Checking, localVars, grantVars,
         Go, TypeOK
    <2>4. Run'
      BY <1>1, <1>3, <1>15 DEF Read, Run, Checking, localVars, grantVars, Go, TypeOK
    <2>5. UNCHANGED <<reviewed, approved>>
      BY <1>15 DEF Read, grantVars
    <2> QED  BY <1>3, <2>1, <2>2, <2>3, <2>4, <2>5 DEF IInv
  <1>16. CASE LatestAgain
    <2>1. TypeOK'
      BY <1>5, <1>16 DEF LatestAgain, Go
    <2>2. Snapshot'
      BY <1>1, <1>3, <1>4, <1>16 DEF LatestAgain, Snapshot, SnapshotTaken, Vouched, Checking,
         localVars, grantVars, Go
    <2>3. LiveState'
      BY <1>1, <1>3, <1>4, <1>16 DEF LatestAgain, LiveState, Checking, localVars, grantVars, Go,
         TypeOK
    <2>4. Run'
      BY <1>1, <1>3, <1>16 DEF LatestAgain, Run, Checking, localVars, grantVars, Go, TypeOK
    <2>5. UNCHANGED <<reviewed, approved>>
      BY <1>16 DEF LatestAgain, grantVars
    <2> QED  BY <1>3, <2>1, <2>2, <2>3, <2>4, <2>5 DEF IInv
  <1>17. CASE Bind
    <2>1. TypeOK'
      BY <1>5, <1>17 DEF Bind, Go
    <2>2. Snapshot'
      BY <1>1, <1>3, <1>4, <1>17 DEF Bind, Snapshot, SnapshotTaken, Vouched, Checking, localVars,
         grantVars, Go
    <2>3. LiveState'
      BY <1>1, <1>3, <1>4, <1>17 DEF Bind, Bound, LiveState, Checking, localVars, grantVars, Go,
         TypeOK
    <2>4. Run'
      BY <1>1, <1>3, <1>17 DEF Bind, Run, Checking, localVars, grantVars, Go, TypeOK
    <2>5. UNCHANGED <<reviewed, approved>>
      BY <1>17 DEF Bind, grantVars
    <2> QED  BY <1>3, <2>1, <2>2, <2>3, <2>4, <2>5 DEF IInv
  <1>18. CASE RunAccepted
    <2>1. /\ pc = "runner" /\ pc' = "idle" /\ task' = task /\ Forget /\ UNCHANGED <<review, approved>>
          /\ reviewed' = [block |-> fresh, market |-> claim, expects |-> seen]
      BY <1>18 DEF RunAccepted, Go
    <2>2. /\ fresh \in DOMAIN blocks /\ seen \in Seen /\ claim.version = seen.version
          /\ task = "analyze" /\ reviewed = NoPreflight /\ approved = NoBlock
      BY <1>1, <2>1 DEF Snapshot, SnapshotTaken, Vouched, LiveState, Run
    <2>3. reviewed' \in [block: DOMAIN blocks, market: Markets, expects: Seen]
      BY <1>1, <2>1, <2>2 DEF TypeOK
    <2>4. TypeOK'
      BY <1>1, <1>2, <2>1, <2>3, ForgetKeepsType DEF TypeOK
    <2>5. Snapshot' /\ LiveState'
      BY <2>1 DEF Snapshot, SnapshotTaken, Vouched, LiveState, Forget
    <2>6. reviewed' # NoPreflight /\ reviewed'.market.version = reviewed'.expects.version
      BY <1>4, <2>1, <2>2 DEF NoPreflight
    <2>7. Run'
      BY <2>1, <2>2, <2>6 DEF Run
    <2>8. Executed'
      BY <1>3, <2>2 DEF Executed, IInv
    <2>9. PassesOnReviewedState'
      BY <2>1, <2>2 DEF PassesOnReviewedState
    <2> QED  BY <1>3, <2>4, <2>5, <2>7, <2>8, <2>9 DEF IInv
  <1>19. CASE EndOfCheck("fresh", fresh)
    <2>0. /\ fresh \in DOMAIN blocks /\ live \in DOMAIN blocks /\ pc = "end"
          /\ (On(fresh, head) => On(fresh, live))
      BY <1>1, <1>19 DEF EndOfCheck, Go, Snapshot, SnapshotTaken, Vouched, LiveState
    <2>1. TypeOK'
      BY <1>1, <1>3, <1>4, <1>19 DEF EndOfCheck, Go, TypeOK, localVars, grantVars
    <2>2. Snapshot'
      BY <1>1, <1>3, <1>4, <1>19, <2>0 DEF EndOfCheck, Snapshot, SnapshotTaken, Vouched,
         Checking, localVars, grantVars, Go
    <2>3. LiveState'
      BY <1>1, <1>3, <1>4, <1>19, <2>0 DEF EndOfCheck, LiveState, Checking, localVars, grantVars,
         Go, TypeOK
    <2>4. Run'
      BY <1>1, <1>3, <1>19 DEF EndOfCheck, Run, Checking, localVars, grantVars, Go, TypeOK
    <2>5. UNCHANGED <<reviewed, approved>>
      BY <1>19 DEF EndOfCheck, grantVars
    <2> QED  BY <1>3, <2>1, <2>2, <2>3, <2>4, <2>5 DEF IInv
  <1>20. CASE EndOfCheck("live", live)
    <2>0. /\ fresh \in DOMAIN blocks /\ live \in DOMAIN blocks /\ pc = "end"
          /\ (On(fresh, head) => On(fresh, live))
      BY <1>1, <1>20 DEF EndOfCheck, Go, Snapshot, SnapshotTaken, Vouched, LiveState
    <2>1. TypeOK'
      BY <1>1, <1>3, <1>4, <1>20 DEF EndOfCheck, Go, TypeOK, localVars, grantVars
    <2>2. Snapshot'
      BY <1>1, <1>3, <1>4, <1>20, <2>0 DEF EndOfCheck, Snapshot, SnapshotTaken, Vouched,
         Checking, localVars, grantVars, Go
    <2>3. LiveState'
      BY <1>1, <1>3, <1>4, <1>20, <2>0 DEF EndOfCheck, LiveState, Checking, localVars, grantVars,
         Go, TypeOK
    <2>4. Run'
      BY <1>1, <1>3, <1>20 DEF EndOfCheck, Run, Checking, localVars, grantVars, Go, TypeOK
    <2>5. UNCHANGED <<reviewed, approved>>
      BY <1>20 DEF EndOfCheck, grantVars
    <2> QED  BY <1>3, <2>1, <2>2, <2>3, <2>4, <2>5 DEF IInv
  <1>21. CASE Pass
    <2>1. /\ pc = "end" /\ canonical = {"fresh", "live"} /\ pc' = After[task] /\ task' = task
          /\ approved' = live /\ Forget /\ UNCHANGED <<reviewed, review>>
      BY <1>21 DEF Pass, Go
    <2>2. /\ fresh \in DOMAIN blocks /\ live \in DOMAIN blocks /\ On(fresh, live)
          /\ seen = VersionAndEpoch(live) /\ seen = reviewed.expects
          /\ Checking /\ reviewed # NoPreflight
          /\ claim = blocks[fresh].market /\ claim = reviewed.market
          /\ reviewed.market.version = reviewed.expects.version
      BY <1>1, <2>1 DEF Snapshot, SnapshotTaken, Vouched, LiveState, Run, Checking
    <2>3. blocks[live].market = reviewed.market /\ blocks[live].epoch = reviewed.expects.epoch
      <3>1. blocks[live].market.version = reviewed.expects.version
        BY <2>2 DEF VersionAndEpoch
      <3>2. blocks[live].epoch = reviewed.expects.epoch
        BY <2>2 DEF VersionAndEpoch
      <3> QED  BY <1>1, <2>2, <3>1, <3>2 DEF Grows
    <2>4. TypeOK'
      BY <1>1, <1>2, <2>1, <2>2, ForgetKeepsType DEF TypeOK
    <2>5. pc' \in {"record", "idle", "sent"}
      <3>1. task \in {"approve", "confirm", "execute"}
        BY <1>1, <2>2 DEF TypeOK, Tasks, Checking
      <3>2. After[task] \in {"record", "idle", "sent"}
        BY <3>1 DEF After
      <3> QED  BY <2>1, <3>2
    <2>6. Snapshot' /\ LiveState'
      BY <2>1, <2>5 DEF Snapshot, SnapshotTaken, Vouched, LiveState, Forget
    <2>7. Run'
      BY <1>1, <2>1, <2>2, <2>5 DEF Run, Checking
    <2>8. PassesOnReviewedState'
      BY <1>3, <2>1, <2>3 DEF PassesOnReviewedState, State, ReviewedOne
    <2> QED  BY <1>3, <2>1, <2>4, <2>6, <2>7, <2>8 DEF IInv
  <1>22. CASE Record
    <2>1. TypeOK'
      BY <1>1, <1>3, <1>22 DEF Record, TypeOK, Tasks, localVars
    <2>2. Snapshot'
      BY <1>1, <1>3, <1>4, <1>22 DEF Record, Snapshot, SnapshotTaken, Vouched, Checking,
         localVars, grantVars, Go
    <2>3. LiveState'
      BY <1>1, <1>3, <1>4, <1>22 DEF Record, LiveState, Checking, localVars, grantVars, Go, TypeOK
    <2>4. Run'
      BY <1>1, <1>3, <1>22 DEF Record, Run, Checking, localVars, grantVars, Go, TypeOK
    <2>5. UNCHANGED <<reviewed, approved>>
      BY <1>22 DEF Record, grantVars
    <2> QED  BY <1>3, <2>1, <2>2, <2>3, <2>4, <2>5 DEF IInv
  <1>23. CASE Throw
    <2>1. /\ pc' = "idle" /\ task' = task /\ Forget /\ UNCHANGED grantVars
      BY <1>23 DEF Throw, Go
    <2>2. TypeOK'
      BY <1>1, <1>2, <2>1, ForgetKeepsType DEF TypeOK, grantVars
    <2>3. Snapshot' /\ LiveState'
      BY <2>1 DEF Snapshot, SnapshotTaken, Vouched, LiveState, Forget
    <2>4. Run'
      BY <1>1, <2>1 DEF Run, grantVars
    <2> QED  BY <1>3, <2>1, <2>2, <2>3, <2>4 DEF IInv, grantVars
  <1> QED  BY <1>6, <1>7, <1>8, <1>9, <1>10, <1>11, <1>12, <1>13, <1>14, <1>15,
             <1>16, <1>17, <1>18, <1>19, <1>20, <1>21, <1>22, <1>23 DEF Console

LEMMA InitIInv ==
    ASSUME Init
    PROVE  IInv
  <1> USE DEF NoBlock
  <1> PICK c \in Contents :
          /\ blocks = <<[chain |-> <<1>>, market |-> [version |-> 1, content |-> c],
                         epoch |-> 1, executes |-> FALSE]>>
          /\ claim = [version |-> 1, content |-> c]
    BY DEF Init
  <1>1. /\ DOMAIN blocks = {1} /\ Len(blocks) = 1 /\ head = 1
        /\ blocks[1].chain = <<1>> /\ Number(1) = 1 /\ blocks[1].epoch = 1
        /\ blocks[1].market = [version |-> 1, content |-> c] /\ ~blocks[1].executes
    BY DEF Init, Number
  <1>2. On(1, 1)
    BY <1>1 DEF On, Contains
  <1>3. 1 \in 1..MaxBlocks
    BY ReviewedAssumption
  <1>4. <<1>> \in Seq(1..MaxBlocks)
    BY <1>3
  <1>5. [version |-> 1, content |-> c] \in Markets
    BY <1>3 DEF Markets
  <1>6. TypeOK
    <2> DEFINE B == [chain: Seq(1..MaxBlocks), market: Markets, epoch: 1..MaxBlocks,
                     executes: BOOLEAN]
               b == [chain |-> <<1>>, market |-> [version |-> 1, content |-> c],
                     epoch |-> 1, executes |-> FALSE]
    <2>1. b \in B
      BY <1>3, <1>4, <1>5
    <2>2. blocks \in Seq(B)
      <3> HIDE DEF B, b
      <3>1. blocks = <<b>>
        BY DEF b
      <3>2. <<b>> \in Seq(B)
        BY <2>1
      <3> QED  BY <3>1, <3>2
    <2>3. MaxReorgs \in Nat /\ MaxBlocks \in Nat
      BY ReviewedAssumption
    <2>4. /\ fresh = 0 /\ live = 0 /\ approved = 0 /\ headSeen = 0 /\ canonical = {} /\ reorgs = 0
          /\ reviewed = NoPreflight /\ seen = Zero /\ review = FALSE /\ task = "analyze"
      BY DEF Init
    <2>5. /\ head \in DOMAIN blocks /\ reorgs \in 0..MaxReorgs /\ headSeen \in 0..MaxBlocks
          /\ {fresh, live, approved} \subseteq {NoBlock} \cup DOMAIN blocks
          /\ canonical \subseteq {"fresh", "live"}
      BY <1>1, <2>3, <2>4
    <2>6. task \in Tasks /\ claim \in Markets /\ seen \in {Zero} \cup Seen /\ review \in BOOLEAN
      BY <1>5, <2>4 DEF Tasks
    <2> HIDE DEF B
    <2>7. blocks \in Seq([chain: Seq(1..MaxBlocks), market: Markets, epoch: 1..MaxBlocks,
                          executes: BOOLEAN])
      BY <2>2 DEF B
    <2> QED  BY <2>4, <2>5, <2>6, <2>7 DEF TypeOK
  <1>7. Tree
    BY <1>1 DEF Tree
  <1>8. Grows /\ OneBranch
    BY <1>1, <1>2 DEF Init, Grows, OneBranch, FreshFound, LiveFound
  <1>9. Snapshot /\ LiveState /\ Run
    BY DEF Init, Snapshot, SnapshotTaken, Vouched, LiveState, Run
  <1>10. Executed /\ PassesOnReviewedState
    BY <1>1 DEF Init, Executed, PassesOnReviewedState
  <1> QED  BY <1>6, <1>7, <1>8, <1>9, <1>10 DEF IInv

LEMMA NextIInv ==
    ASSUME MaxReorgs <= 1, IInv, [Next]_vars
    PROVE  IInv'
  <1>1. CASE Chain
    BY <1>1, ChainKeepsIInv
  <1>2. CASE Console
    BY <1>2, ConsoleKeepsIInv
  <1>3. CASE UNCHANGED vars
    <2>1. /\ UNCHANGED chainVars /\ UNCHANGED <<reviewed, approved>>
          /\ UNCHANGED <<task, pc, localVars, grantVars>>
      BY <1>3 DEF vars, grantVars
    <2>2. /\ Tree' /\ Grows' /\ Executed' /\ PassesOnReviewedState'
          /\ \A b, c : On(b, c)' <=> On(b, c)
          /\ \A b : VersionAndEpoch(b)' = VersionAndEpoch(b)
      BY <2>1, QuietChain DEF chainVars
    <2>0. OneBranch'
      BY <2>1 DEF IInv, OneBranch, On, chainVars, localVars
    <2>3. TypeOK' /\ Run'
      BY <2>1 DEF IInv, TypeOK, Run, Checking, chainVars, localVars, grantVars
    <2>4. Snapshot'
      BY <2>1, <2>2 DEF IInv, Snapshot, Checking, chainVars, localVars, grantVars
    <2>5. LiveState'
      BY <2>1, <2>2 DEF IInv, LiveState, chainVars, localVars, grantVars
    <2> QED  BY <2>0, <2>2, <2>3, <2>4, <2>5 DEF IInv
  <1> QED  BY <1>1, <1>2, <1>3 DEF Next

(***************************************************************************)
(* The theorems                                                            *)
(***************************************************************************)

\* Every reachable state, at every await of every operation, satisfies the
\* invariant (v2-context.ts, scoped-authorization.ts), with at most one change of branch
\* in an operation.
THEOREM Invariance ==
    ASSUME MaxReorgs <= 1
    PROVE  Spec => []IInv
  <1>1. Init => IInv
    BY InitIInv
  <1>2. IInv /\ [Next]_vars => IInv'
    BY NextIInv
  <1> QED  BY <1>1, <1>2, PTL DEF Spec

\* Snapshot, reads, review and approval of the console have their types.
THEOREM TypeCorrect ==
    ASSUME MaxReorgs <= 1
    PROVE  Spec => []TypeOK
  <1>1. IInv => TypeOK
    BY DEF IInv
  <1> QED  BY <1>1, Invariance, PTL

\* checkScopedAuthorization passes only where the market and the epoch are those
\* that were analysed, if the node changes its branch at most once while an operation
\* reads (scoped-authorization.ts).
THEOREM PassesOnReviewed ==
    ASSUME MaxReorgs <= 1
    PROVE  Spec => []PassesOnReviewedState
  <1>1. IInv => PassesOnReviewedState
    BY DEF IInv
  <1> QED  BY <1>1, Invariance, PTL

\* The gate, which compares a version and an epoch, executes a change on no other
\* state than the reviewed one, on every branch with the block of the last check, under
\* the same condition.
THEOREM ExecutesReviewed ==
    ASSUME MaxReorgs <= 1
    PROVE  Spec => []ExecutesReviewedState
  <1>1. IInv => ExecutesReviewedState
    BY GateIsEnough DEF IInv
  <1> QED  BY <1>1, Invariance, PTL
=============================================================================
