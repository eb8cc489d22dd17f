------------------------- MODULE DurableStateProofs -------------------------
(***************************************************************************)
(* What outlives the process that wrote it: the records of the store on    *)
(* the host's disk, and the marker and the copies of a flow in the         *)
(* browser.                                                                *)
(*                                                                         *)
(* Of DurableStore, for any number of writers and updates: no reader finds *)
(* a torn record and no acknowledged update is lost.  The inductive        *)
(* invariant says what each writer inside the lock knows, and that there   *)
(* is at most one of them.                                                 *)
(*                                                                         *)
(* Of BrowserConsole, for any tabs, requests and saves: no page is taken   *)
(* back, and where the browser has locks the authority is asked once and   *)
(* no hash is lost.  PageInv puts all copies of the flow in order and      *)
(* gives each request to one task; LockedInv ties the marker to the wallet *)
(* and to the service.                                                     *)
(***************************************************************************)
EXTENDS BrowserConsole, DurableStore, FiniteSetTheorems, TLAPS

(***************************************************************************)
(* The store                                                               *)
(***************************************************************************)

Holding(w) == pc[w] # "idle"

\* Between its read and its write a writer has what the record holds, and its
\* temporary file is as far as its steps have taken it.
WriterKnows(w) ==
    /\ pc[w] \in {"read", "opened", "written", "synced"} =>
          seen[w] = file.data
    /\ pc[w] \in {"written", "synced"} => temp[w].data = seen[w] \cup {adds[w]}
    /\ pc[w] = "synced" => temp[w].flushed
    /\ pc[w] = "renamed" => adds[w] \in file.data

\* One writer at a time, and only under the lock directory.
Exclusive ==
    /\ \A w \in Writers : Holding(w) => locked
    /\ \A v, w \in Writers : Holding(v) /\ Holding(w) => v = w

\* Whatever has the name of the record has reached the disk.
Flushed == \A f \in Left : f.flushed

StoreInv ==
    /\ StoreTypeOK /\ NeverTorn /\ AcknowledgedSurvive
    /\ Exclusive /\ Flushed /\ \A w \in Writers : WriterKnows(w)

(***************************************************************************)
(* One lemma for the steps of a writer, one for the rest                   *)
(***************************************************************************)

LEMMA FileTypes ==
    /\ Empty \in Files /\ [data |-> Torn, flushed |-> FALSE] \in Files
    /\ \A f \in Files : f.data # Torn => f.data \in SUBSET Updates
<1>1. {} \in Contents /\ Torn \in Contents
    BY DEF Contents
<1>2. \A f \in Files : f.data \in Contents
    BY DEF Files
<1>3. Empty \in Files /\ [data |-> Torn, flushed |-> FALSE] \in Files
    BY <1>1 DEF Files, Empty
<1>4. \A f \in Files : f.data # Torn => f.data \in SUBSET Updates
    BY <1>2 DEF Contents
<1> QED BY <1>3, <1>4

\* What a writer does to its own variables and to the lock leaves the others'
\* knowledge alone, as long as the record is as it was or no other is inside.
LEMMA Others ==
    ASSUME StoreInv, NEW w \in Writers, Holding(w),
           \A v \in Writers : v # w => /\ pc'[v] = pc[v] /\ seen'[v] = seen[v]
                                       /\ adds'[v] = adds[v] /\ temp'[v] = temp[v]
    PROVE  \A v \in Writers : v # w => pc'[v] = "idle" /\ WriterKnows(v)'
<1> SUFFICES ASSUME NEW v \in Writers, v # w
             PROVE  pc'[v] = "idle" /\ WriterKnows(v)'
    OBVIOUS
<1>1. pc[v] = "idle"
    BY DEF StoreInv, Exclusive, Holding
<1> QED BY <1>1 DEF WriterKnows

\* A step of writer w inside the lock that does not release it.
LEMMA Inside ==
    ASSUME StoreInv, NEW w \in Writers, pc[w] # "idle",
           ReadRecord(w) \/ OpenTemp(w) \/ WriteTemp(w) \/ Sync(w) \/ Rename(w)
              \/ SyncDirectory(w) \/ WriteFails(w)
    PROVE  StoreInv'
<1> USE DEF At, Left
<1>t. StoreTypeOK /\ file.data # Torn /\ durable.data # Torn
    BY DEF StoreInv, NeverTorn
<1>0. file.data \in SUBSET Updates
    BY <1>t, FileTypes DEF StoreTypeOK
<1>1. pc[w] \in {"read", "opened", "written", "synced"} =>
          seen[w] \in SUBSET Updates /\ seen[w] \cup {adds[w]} \in SUBSET Updates
    BY <1>0, <1>t DEF StoreInv, WriterKnows, StoreTypeOK
<1>2. /\ locked' = locked /\ pc'[w] # "idle"
      /\ \A v \in Writers : v # w => /\ pc'[v] = pc[v] /\ seen'[v] = seen[v]
                                     /\ adds'[v] = adds[v] /\ temp'[v] = temp[v]
    BY DEF StoreTypeOK, StoreInv, ReadRecord, OpenTemp, WriteTemp, Sync, Rename, SyncDirectory,
       WriteFails
<1>3. \A v \in Writers : v # w => pc'[v] = "idle" /\ WriterKnows(v)'
    BY <1>2, Others DEF Holding
<1>4. Exclusive'
    BY <1>2, <1>3 DEF StoreInv, Exclusive, Holding
<1>5. CASE ReadRecord(w)
    <2>1. StoreTypeOK'
        <3>1. file.data \in Contents
            BY <1>0 DEF Contents
        <3> QED BY <1>5, <1>t, <3>1 DEF ReadRecord, StoreTypeOK, Steps
    <2>2. WriterKnows(w)'
        BY <1>5, <1>t DEF ReadRecord, StoreTypeOK, WriterKnows
    <2> QED BY <1>3, <1>4, <1>5, <2>1, <2>2 DEF ReadRecord, StoreInv, NeverTorn,
       AcknowledgedSurvive, Flushed
<1>6. CASE OpenTemp(w)
    <2>1. StoreTypeOK'
        BY <1>6, <1>t, FileTypes DEF OpenTemp, StoreTypeOK, Steps
    <2>2. WriterKnows(w)'
        BY <1>6, <1>t DEF OpenTemp, StoreTypeOK, WriterKnows, StoreInv
    <2> QED BY <1>3, <1>4, <1>6, <2>1, <2>2 DEF OpenTemp, StoreInv, NeverTorn,
       AcknowledgedSurvive, Flushed
<1>7. CASE WriteTemp(w)
    <2>1. StoreTypeOK'
        BY <1>1, <1>7, <1>t DEF WriteTemp, StoreTypeOK, Steps, Files, Contents, Empty
    <2>2. WriterKnows(w)'
        BY <1>7, <1>t DEF WriteTemp, StoreTypeOK, Files, WriterKnows, StoreInv
    <2> QED BY <1>3, <1>4, <1>7, <2>1, <2>2 DEF WriteTemp, StoreInv, NeverTorn,
       AcknowledgedSurvive, Flushed
<1>8. CASE Sync(w)
    <2>1. StoreTypeOK'
        BY <1>8, <1>t DEF Sync, StoreTypeOK, Steps, Files, Contents, Empty
    <2>2. WriterKnows(w)'
        BY <1>8, <1>t DEF Sync, StoreTypeOK, Files, WriterKnows, StoreInv
    <2> QED BY <1>3, <1>4, <1>8, <2>1, <2>2 DEF Sync, StoreInv, NeverTorn, AcknowledgedSurvive,
       Flushed
<1>9. CASE Rename(w)
    <2>1. StoreTypeOK'
        BY <1>9, <1>t DEF Rename, StoreTypeOK, Steps, Files, Contents, Empty
    <2>2. /\ temp[w].data = seen[w] \cup {adds[w]} /\ temp[w].flushed
          /\ seen[w] = file.data
        BY <1>9 DEF Rename, StoreInv, WriterKnows
    <2>3. /\ file'.data = file.data \cup {adds[w]} /\ file'.flushed
          /\ durable' = durable /\ between' = between \cup {file} /\ acked' = acked
        BY <1>9, <2>2 DEF Rename
    <2>4. file'.data # Torn
        BY <1>0, <1>t, <2>3, TornAssumption DEF StoreTypeOK
    <2>5. WriterKnows(w)'
        BY <1>9, <1>t, <2>3 DEF Rename, StoreTypeOK, WriterKnows
    <2> QED BY <1>3, <1>4, <1>9, <2>1, <2>3, <2>4, <2>5
            DEF Rename, StoreInv, NeverTorn, AcknowledgedSurvive, Flushed
<1>10. CASE SyncDirectory(w)
    <2>1. StoreTypeOK'
        BY <1>10, <1>t DEF SyncDirectory, StoreTypeOK, Steps
    <2>2. adds[w] \in file.data
        BY <1>10 DEF SyncDirectory, StoreInv, WriterKnows
    <2>3. WriterKnows(w)'
        BY <1>10, <1>t DEF SyncDirectory, StoreTypeOK, WriterKnows
    <2> QED BY <1>3, <1>4, <1>10, <2>1, <2>2, <2>3
            DEF SyncDirectory, StoreInv, NeverTorn, AcknowledgedSurvive, Flushed
<1>11. CASE WriteFails(w)
    <2>1. StoreTypeOK'
        BY <1>11, <1>t DEF WriteFails, StoreTypeOK, Steps, Files, Contents, Empty
    <2>2. WriterKnows(w)'
        BY <1>11, <1>t DEF WriteFails, StoreTypeOK, WriterKnows
    <2> QED BY <1>3, <1>4, <1>11, <2>1, <2>2
            DEF WriteFails, StoreInv, NeverTorn, AcknowledgedSurvive, Flushed
<1> QED BY <1>5, <1>6, <1>7, <1>8, <1>9, <1>10, <1>11

\* A step that begins or ends a hold of the lock directory.
LEMMA Around ==
    ASSUME StoreInv, NEW w \in Writers, Acquire(w) \/ Release(w) \/ Kill(w)
    PROVE  StoreInv'
<1> USE DEF At, Left
<1>t. StoreTypeOK
    BY DEF StoreInv
<1>1. file' = file /\ durable' = durable /\ between' = between /\ acked' = acked
    BY DEF Acquire, Release, Kill
<1>2. StoreTypeOK'
    BY <1>t, FileTypes DEF Acquire, Release, Kill, StoreTypeOK, Steps
<1>3. Exclusive'
    BY <1>t DEF Acquire, Release, Kill, StoreInv, Exclusive, Holding, StoreTypeOK
<1>4. ASSUME NEW v \in Writers PROVE WriterKnows(v)'
    <2>1. CASE v = w
        BY <1>t, <2>1 DEF Acquire, Release, Kill, StoreTypeOK, WriterKnows
    <2>2. CASE v # w
        BY <1>t, <1>1, <2>2 DEF Acquire, Release, Kill, StoreTypeOK, WriterKnows, StoreInv
    <2> QED BY <2>1, <2>2
<1> QED BY <1>1, <1>2, <1>3, <1>4 DEF StoreInv, NeverTorn, AcknowledgedSurvive, Flushed

LEMMA World ==
    ASSUME StoreInv, PowerLoss \/ RemoveAbandonedLock
    PROVE  StoreInv'
<1> USE DEF Left
<1>t. StoreTypeOK
    BY DEF StoreInv
<1>1. CASE PowerLoss
    <2>1. PICK f \in Left :
             /\ file' = [f EXCEPT !.data = IF f.flushed THEN @ ELSE Torn, !.flushed = TRUE]
             /\ durable' = file' /\ between' = {}
        BY <1>1 DEF PowerLoss
    <2>2. f.flushed /\ f \in Files /\ f.data # Torn /\ acked \subseteq f.data
        BY <1>t DEF StoreInv, Flushed, NeverTorn, AcknowledgedSurvive, StoreTypeOK
    <2>3. file' = f /\ durable' = f /\ between' = {}
        BY <2>1, <2>2 DEF Files
    <2>4. StoreTypeOK'
        BY <1>1, <1>t, <2>2, <2>3 DEF PowerLoss, StoreTypeOK, Steps, Files, Contents, Empty
    <2> QED BY <1>1, <2>2, <2>3, <2>4 DEF PowerLoss, StoreInv, Flushed, NeverTorn,
       AcknowledgedSurvive,
                                          Exclusive, Holding, WriterKnows
<1>2. CASE RemoveAbandonedLock
    BY <1>2 DEF RemoveAbandonedLock, StoreInv, StoreTypeOK, Flushed, NeverTorn,
       AcknowledgedSurvive,
                Exclusive, Holding, WriterKnows
<1> QED BY <1>1, <1>2

(***************************************************************************)
(* The invariant and the theorems                                          *)
(***************************************************************************)

\* Every reachable state of the store satisfies the inductive invariant.
THEOREM StoreInvariance == StoreSpec => []StoreInv
<1>1. StoreInit => StoreInv
    <2> SUFFICES ASSUME StoreInit PROVE StoreInv
        OBVIOUS
    <2>1. StoreTypeOK
        BY FileTypes DEF StoreInit, StoreTypeOK, Steps, Contents
    <2>2. NeverTorn /\ AcknowledgedSurvive /\ Flushed
        BY TornAssumption DEF StoreInit, Left, NeverTorn, AcknowledgedSurvive, Flushed, Empty
    <2> QED BY <2>1, <2>2 DEF StoreInit, StoreInv, Exclusive, Holding, WriterKnows
<1>2. StoreInv /\ [StoreNext]_storeVars => StoreInv'
    <2> SUFFICES ASSUME StoreInv, [StoreNext]_storeVars PROVE StoreInv'
        OBVIOUS
    <2>1. ASSUME NEW w \in Writers, WriterStep(w) \/ Kill(w) PROVE StoreInv'
        <3>1. CASE Acquire(w) \/ Release(w) \/ Kill(w)
            BY <3>1, Around
        <3>2. CASE ~(Acquire(w) \/ Release(w) \/ Kill(w))
            <4>1. ReadRecord(w) \/ OpenTemp(w) \/ WriteTemp(w) \/ Sync(w) \/ Rename(w)
                     \/ SyncDirectory(w) \/ WriteFails(w)
                BY <2>1, <3>2 DEF WriterStep
            <4>2. pc[w] # "idle"
                BY <4>1 DEF At, InWrite, ReadRecord, OpenTemp, WriteTemp, Sync, Rename,
                   SyncDirectory,
                            WriteFails
            <4> QED BY <4>1, <4>2, Inside
        <3> QED BY <3>1, <3>2
    <2>2. CASE UNCHANGED storeVars
        BY <2>2 DEF storeVars, Left, StoreInv, StoreTypeOK, NeverTorn, AcknowledgedSurvive, Exclusive,
           Holding,
                    Flushed, WriterKnows
    <2> QED BY <2>1, <2>2, World DEF StoreNext
<1> QED BY <1>1, <1>2, PTL DEF StoreSpec

\* StoreTypeOK, and with it that no temporary file outlives the write that made it.
THEOREM StoreTypeCorrect == StoreSpec => []StoreTypeOK
<1>1. StoreInv => StoreTypeOK
    BY DEF StoreInv
<1> QED BY <1>1, StoreInvariance, PTL

\* No reader of durable-store.ts ever finds a record half written: NeverTorn.
THEOREM RecordsAreWhole == StoreSpec => []NeverTorn
<1>1. StoreInv => NeverTorn
    BY DEF StoreInv
<1> QED BY <1>1, StoreInvariance, PTL

\* An update whose write() returned is never lost: AcknowledgedSurvive.
THEOREM UpdatesSurvive == StoreSpec => []AcknowledgedSurvive
<1>1. StoreInv => AcknowledgedSurvive
    BY DEF StoreInv
<1> QED BY <1>1, StoreInvariance, PTL

\* One step of the store is one step of the record: the writer that renames has read
\* the record as it still is, and its file is whole and flushed.
LEMMA RecordStep ==
    ASSUME StoreInv, [StoreNext]_storeVars
    PROVE  [Record!Next]_(Record!recordVars)
<1> USE DEF Record!recordVars
<1>1. ASSUME NEW w \in Writers, Rename(w) PROVE Record!Next
    <2>1. /\ file' = temp[w] /\ durable' = durable /\ acked' = acked
          /\ between' = between \cup {file}
          /\ temp[w].data = file.data \cup {adds[w]} /\ adds[w] \in Updates
        BY <1>1 DEF Rename, At, StoreInv, StoreTypeOK, WriterKnows
    <2>2. {f.data : f \in between}' = {f.data : f \in between} \cup {file.data}
        BY <2>1
    <2> QED BY <2>1, <2>2 DEF Record!Next, Record!Update
<1>2. ASSUME NEW w \in Writers, SyncDirectory(w) PROVE Record!Next
    <2>1. /\ durable' = file /\ file' = file /\ between' = {} /\ acked' = acked \cup {adds[w]}
          /\ adds[w] \in file.data /\ adds[w] \in Updates
        BY <1>2 DEF SyncDirectory, At, StoreInv, StoreTypeOK, WriterKnows
    <2> QED BY <2>1 DEF Record!Next, Record!Tell
<1>3. CASE PowerLoss
    <2>1. PICK f \in Left : /\ file' = [f EXCEPT !.data = IF f.flushed THEN @ ELSE Torn,
                                                !.flushed = TRUE]
                            /\ durable' = file' /\ between' = {} /\ acked' = acked
        BY <1>3 DEF PowerLoss
    <2>2. f \in Files /\ f.flushed
        BY DEF StoreInv, StoreTypeOK, Flushed, Left
    <2>3. file'.data = f.data
        BY <2>1, <2>2 DEF Files
    <2>4. f.data \in {file.data, durable.data} \cup {g.data : g \in between}
        BY DEF Left
    <2> QED BY <2>1, <2>3, <2>4 DEF Record!Next, Record!LosePower
<1>4. ASSUME NEW w \in Writers,
             \/ Acquire(w) \/ ReadRecord(w) \/ OpenTemp(w) \/ WriteTemp(w) \/ Sync(w)
             \/ WriteFails(w) \/ Release(w) \/ Kill(w)
      PROVE  UNCHANGED <<file, durable, between, acked>>
    BY <1>4 DEF Acquire, ReadRecord, OpenTemp, WriteTemp, Sync, WriteFails, Release, Kill
<1>5. CASE RemoveAbandonedLock \/ UNCHANGED storeVars
    BY <1>5 DEF RemoveAbandonedLock, storeVars
<1> QED BY <1>1, <1>2, <1>3, <1>4, <1>5 DEF StoreNext, WriterStep

\* What the modules above take the store for: every behaviour of its files, locks and
\* system calls is one of a record updated atomically.
THEOREM StoreIsAtomic == StoreSpec => ImplementsAtomicRecord
<1>1. StoreInit => Record!Init
    BY DEF StoreInit, Record!Init, Empty
<1> QED BY <1>1, RecordStep, StoreInvariance, PTL
        DEF StoreSpec, Record!Spec, ImplementsAtomicRecord

(***************************************************************************)
(* The pages: what a page knows of the flow                                *)
(***************************************************************************)

Flows == [revision: 1 .. MaxRevision, stage: Stages, active: BOOLEAN, error: BOOLEAN,
          prepared: SUBSET Legs, hash: {0} \cup Ids]

\* TypeOK without its last conjunct, the record of the service in full, and that an
\* answer has what it is read for.
Ranges ==
    /\ server \in Flows
    /\ busy \in Requests \cup {NoRequest} /\ posts \subseteq Requests
    /\ stored \in Markers \cup {NoMarker} /\ nextId \in 1 .. MaxOperations + 1
    /\ tab \in [Tabs -> Tasks]
    /\ \A t \in Tabs : /\ tab[t].reply.kind = "view" => tab[t].reply.view \in Views
                       /\ tab[t].reply.kind = "payload" => tab[t].id \in Ids
    /\ view \in [Tabs -> Views \cup {NoView}] /\ reads \in [Tabs -> SUBSET Views]
    /\ prompts \subseteq Ids /\ sent \subseteq Ids /\ received \subseteq sent

\* Every copy of the flow: the saved one, those the pages show, and those on their way.
Held(t) == {view[t], tab[t].reply.view} \cup reads[t]
Copies == {Shown} \cup {v \in UNION {Held(t) : t \in Tabs} : v.revision # 0}

\* The later of two copies has come at least as far, and no later save revives a run.
Ordered(v, w) ==
    /\ v.revision <= w.revision => CompletedSteps(v.stage) <= CompletedSteps(w.stage)
    /\ v.revision < w.revision /\ ~v.active => ~w.active

\* No copy is ahead of the service, and any two copies are in order.
CopiesAgree ==
    /\ \A v \in Copies : v.revision <= server.revision /\ (~v.active => ~server.active)
    /\ \A v, w \in Copies : Ordered(v, w)

\* While the service works on a request, the flow waits for it.
BusyStage ==
    busy # NoRequest =>
        \/ busy.call = "propose" /\ server.stage \in {"REVIEWED", "PROPOSING"}
        \/ busy.call = "execute" /\ server.stage \in {"DECIDED", "EXECUTING"}
        \/ busy.call = "receipt" /\ server.stage = "DECISION_PENDING"

\* Each request on its way belongs to the one task that waits for it, unless that
\* task is gone.
Waits(m) ==
    \/ m.from = Nobody
    \/ /\ tab[m.from].at = "request"
       /\ m.call = "payload" => m.id = tab[m.from].id /\ m.id \in Ids
PostsHaveTasks ==
    /\ \A m \in posts : Waits(m)
    /\ \A m, n \in posts : m.from = n.from => m.from = Nobody \/ m = n
    /\ busy # NoRequest => Waits(busy) /\ \A m \in posts : m.from = busy.from => m.from = Nobody

Alone == HasLocks => \A t, u \in Tabs : Working(t) /\ Working(u) => t = u

PageInv == Ranges /\ CopiesAgree /\ BusyStage /\ PostsHaveTasks /\ Alone

\* What storage refuses is of some tab, and of a decision that was sent.
Refusals == broken \subseteq Tabs /\ lost \subseteq sent

USE DEF storageVars

(***************************************************************************)
(* The marker, where there are locks                                       *)
(***************************************************************************)

\* The authority's decision is confirmed.
Decided == CompletedSteps(server.stage) >= 3

\* The marker waits for decision id.
Marks(id) == stored.id = id /\ stored.kind = "decision"

\* Undecided, with nothing sent: a payload may be shown.
Open == server.stage = "DECISION_READY" /\ sent = {}

\* Ids are fresh, and the hash in a marker is that of its own decision.
MarkerInv ==
    /\ \A id \in prompts \cup sent \cup {stored.id} : id < nextId
    /\ stored.id # 0 /\ stored.hash # 0 => Marks(stored.hash) /\ stored.hash \in sent

\* What a task relies on, from the connection of the wallet to its prompt.
TaskInv(t) ==
    /\ tab[t].at = "connect" => stored.id \in {0, tab[t].previous}
    /\ tab[t].at = "reply" /\ tab[t].reply.kind = "payload" =>
          Open /\ prompts = {} /\ Marks(tab[t].id)
    /\ tab[t].at = "prompt" => tab[t].id \in prompts

\* A request for a payload is of an id that was never shown and that the marker
\* keeps until the decision is confirmed; a reported hash was sent.
PostInv(m) ==
    /\ m.call = "payload" /\ m.from # Nobody =>
          m.id \notin prompts \cup sent /\ (Marks(m.id) \/ Decided)
    /\ m.call = "receipt" => m.hash \in sent

\* What the wallet shows or has sent is the decision the marker waits for; once it
\* is confirmed the service has its hash.
WalletInv ==
    /\ \A id \in prompts : Open /\ Marks(id)
    /\ \A id \in sent : IF Decided THEN server.hash = id ELSE Marks(id)
    /\ \A id, other \in sent : id = other
    /\ server.hash \in {0} \cup sent
    /\ busy # NoRequest /\ busy.call = "receipt" => busy.hash \in sent /\ server.hash = busy.hash

\* A hash the page has stored is in the marker or at the service.
ReceivedKept ==
    \A id \in received : \/ stored.id # 0 /\ stored.hash = id
                         \/ server.hash = id

LockedInv ==
    /\ MarkerInv /\ WalletInv /\ ReceivedKept
    /\ \A t \in Tabs : TaskInv(t)
    /\ \A m \in posts : PostInv(m)

(***************************************************************************)
(* Copies of the flow                                                      *)
(***************************************************************************)

LEMMA StageSteps ==
    /\ \A stage \in Stages : CompletedSteps(stage) \in 1 .. 4
    /\ CompletedSteps("REVIEWED") = 1 /\ CompletedSteps("PROPOSING") = 1
    /\ CompletedSteps("PROPOSED") = 2 /\ CompletedSteps("DECISION_READY") = 2
    /\ CompletedSteps("DECISION_PENDING") = 2
    /\ CompletedSteps("DECIDED") = 3 /\ CompletedSteps("EXECUTING") = 3
    /\ CompletedSteps("EXECUTED") = 4
BY DEF Stages, CompletedSteps

LEMMA ShownFields ==
    ASSUME server \in Flows
    PROVE  /\ Shown \in Views
           /\ Shown.revision = server.revision /\ Shown.stage = server.stage
           /\ Shown.active = server.active
BY DEF Flows, Views, Shown

LEMMA NoneOfThem ==
    /\ NoView \notin Views /\ NoView.revision = 0
    /\ \A v \in Views : v.revision \in Nat \ {0}
BY BrowserAssumption DEF NoView, Views

LEMMA CopiesTyped ==
    ASSUME Ranges
    PROVE  Copies \subseteq Views
<1>1. Shown \in Views
    BY ShownFields DEF Ranges
<1>2. ASSUME NEW t \in Tabs PROVE Held(t) \subseteq Views \cup {NoView}
    BY DEF Ranges, Held, Tasks
<1> QED BY <1>1, <1>2, NoneOfThem DEF Copies

\* Whoever only forgets copies, or reads the flow as it is, leaves them in order.
LEMMA CopiesKept ==
    ASSUME CopiesAgree, server' = server,
           \A t \in Tabs : Held(t)' \subseteq Held(t) \cup {Shown, NoView}
    PROVE  CopiesAgree'
<1>1. Shown' = Shown
    BY DEF Shown
<1>2. Copies' \subseteq Copies
    <2> SUFFICES ASSUME NEW v \in Copies' PROVE v \in Copies
        OBVIOUS
    <2>1. CASE v = Shown'
        BY <1>1, <2>1 DEF Copies
    <2>2. CASE v # Shown'
        <3>1. PICK t \in Tabs : v \in Held(t)'
            BY <2>2 DEF Copies
        <3>2. v.revision # 0
            BY <2>2 DEF Copies
        <3> QED BY <3>1, <3>2, NoneOfThem DEF Copies
    <2> QED BY <2>1, <2>2
<1> QED BY <1>2 DEF CopiesAgree

\* The service saves the flow, or ends the run, and may answer with what it saved.
LEMMA CopiesSaved ==
    ASSUME Ranges, Ranges', CopiesAgree,
           \/ server'.revision > server.revision
           \/ server'.revision = server.revision /\ server'.stage = server.stage,
           CompletedSteps(server.stage) <= CompletedSteps(server'.stage),
           server'.active => server.active,
           \A t \in Tabs : Held(t)' \subseteq Held(t) \cup {Shown', NoView}
    PROVE  CopiesAgree'
<1>1. \A v \in Copies' : v \in Copies \/ v = Shown'
    <2> SUFFICES ASSUME NEW v \in Copies', v # Shown' PROVE v \in Copies
        OBVIOUS
    <2>1. PICK t \in Tabs : v \in Held(t)'
        BY DEF Copies
    <2>2. v.revision # 0
        BY DEF Copies
    <2> QED BY <2>1, <2>2, NoneOfThem DEF Copies
<1>2. /\ Shown.revision = server.revision /\ Shown.stage = server.stage
      /\ Shown \in Copies
    BY ShownFields DEF Ranges, Copies
<1>3. /\ Shown'.revision = server'.revision /\ Shown'.stage = server'.stage
      /\ Shown'.active = server'.active
    BY DEF Shown
<1>4. /\ server.revision \in Nat /\ server'.revision \in Nat
      /\ CompletedSteps(server.stage) \in Nat /\ CompletedSteps(server'.stage) \in Nat
    BY StageSteps DEF Ranges, Flows
<1>5. \A v \in Copies : v.revision \in Nat /\ CompletedSteps(v.stage) \in Nat
    BY CopiesTyped, NoneOfThem, StageSteps DEF Views
<1>6. \A v \in Copies : Ordered(v, Shown') /\ Ordered(Shown', v)
    <2> SUFFICES ASSUME NEW v \in Copies PROVE Ordered(v, Shown') /\ Ordered(Shown', v)
        OBVIOUS
    <2>1. v.revision <= server.revision /\ (~v.active => ~server.active)
        BY DEF CopiesAgree
    <2>2. CompletedSteps(v.stage) <= CompletedSteps(server.stage)
        BY <1>2, <2>1 DEF CopiesAgree, Ordered
    <2>3. server.revision <= v.revision => CompletedSteps(server.stage) <= CompletedSteps(v.stage)
        BY <1>2 DEF CopiesAgree, Ordered
    <2>4. Ordered(v, Shown')
        BY <1>3, <1>4, <1>5, <2>1, <2>2 DEF Ordered
    <2>5. Ordered(Shown', v)
        BY <1>3, <1>4, <1>5, <2>1, <2>3 DEF Ordered
    <2> QED BY <2>4, <2>5
<1>7. Ordered(Shown', Shown')
    BY <1>3, <1>4 DEF Ordered
<1>8. \A v \in Copies : v.revision <= server'.revision /\ (~v.active => ~server'.active)
    BY <1>4, <1>5 DEF CopiesAgree
<1>9. \A v, w \in Copies' : Ordered(v, w)
    BY <1>1, <1>6, <1>7 DEF CopiesAgree
<1>10. \A v \in Copies' : v.revision <= server'.revision /\ (~v.active => ~server'.active)
    BY <1>1, <1>3, <1>4, <1>8
<1> QED BY <1>9, <1>10 DEF CopiesAgree

\* What mergeHistory makes of a copy and an answer is in order with every other copy,
\* no less far than the copy, and revoked if the copy was.
LEMMA Merged ==
    ASSUME Ranges, CopiesAgree, NEW new \in Copies, NEW old, old = NoView \/ old \in Copies
    PROVE  LET merged == Merge(old, new)
           IN  /\ merged \in Views
               /\ merged.revision <= server.revision /\ (~merged.active => ~server.active)
               /\ \A v \in Copies : Ordered(merged, v) /\ Ordered(v, merged)
               /\ Ordered(merged, merged)
               /\ old # NoView => /\ CompletedSteps(old.stage) <= CompletedSteps(merged.stage)
                                  /\ ~old.active => ~merged.active
<1> DEFINE merged == Merge(old, new)
<1> HIDE DEF merged
<1>1. \A v \in Copies : /\ v \in Views /\ v.revision \in Nat \ {0} /\ v.active \in BOOLEAN
                        /\ CompletedSteps(v.stage) \in Nat
    BY CopiesTyped, NoneOfThem, StageSteps DEF Views
<1>2. \A v \in Copies : v.revision <= server.revision /\ (~v.active => ~server.active)
    BY DEF CopiesAgree
<1>3. \A v, w \in Copies : Ordered(v, w)
    BY DEF CopiesAgree
<1>4. CASE old \in Copies /\ new.revision < old.revision
    <2>1. merged = old
        BY <1>4 DEF merged, Merge
    <2> QED BY <1>1, <1>2, <1>3, <1>4, <2>1 DEF merged
<1>5. CASE old = NoView \/ old.revision < new.revision
    <2>1. merged = new
        BY <1>1, <1>5, NoneOfThem DEF merged, Merge
    <2>2. old # NoView => /\ CompletedSteps(old.stage) <= CompletedSteps(new.stage)
                          /\ ~old.active => ~new.active
        BY <1>1, <1>3, <1>5 DEF Ordered
    <2> QED BY <1>1, <1>2, <1>3, <2>1, <2>2 DEF merged
<1>6. CASE old \in Copies /\ new.revision = old.revision
    <2>1. merged = [new EXCEPT !.active = old.active /\ new.active]
        BY <1>1, <1>6 DEF merged, Merge
    <2>2. (old.active /\ new.active) \in BOOLEAN
        OBVIOUS
    <2>3. /\ merged \in Views /\ merged.revision = new.revision /\ merged.stage = new.stage
          /\ merged.active = (old.active /\ new.active)
        BY <1>1, <2>1, <2>2 DEF Views
    <2>4. CompletedSteps(old.stage) <= CompletedSteps(new.stage)
        BY <1>1, <1>3, <1>6 DEF Ordered
    <2>5. ASSUME NEW v \in Copies PROVE Ordered(merged, v) /\ Ordered(v, merged)
        <3>1. Ordered(new, v) /\ Ordered(v, new) /\ Ordered(old, v) /\ Ordered(v, old)
            BY <1>3, <1>6
        <3> QED BY <1>1, <1>6, <2>3, <3>1 DEF Ordered
    <2>6. Ordered(merged, merged)
        BY <1>1, <2>3 DEF Ordered
    <2>7. merged.revision <= server.revision /\ (~merged.active => ~server.active)
        BY <1>2, <1>6, <2>3
    <2> QED BY <2>3, <2>4, <2>5, <2>6, <2>7 DEF merged
<1> QED BY <1>1, <1>4, <1>5, <1>6

(***************************************************************************)
(* Tasks and requests on their way                                         *)
(***************************************************************************)

LEMMA TaskValues ==
    /\ Idle \in Tasks /\ Idle.at = "idle" /\ Idle.reply = NoReply
    /\ Waiting \in Tasks /\ Waiting.at = "request" /\ Waiting.reply = NoReply
    /\ NoReply.view = NoView /\ NoReply.kind = "none"
BY DEF Idle, Waiting, Tasks, NoReply

LEMMA NoRequestTyped == NoRequest.call = "none" /\ NoRequest \notin Requests
BY DEF NoRequest, Requests, Calls

\* A task moves on without a request, before or after.
LEMMA TaskMoves ==
    ASSUME Ranges, PostsHaveTasks, NEW t \in Tabs, NEW x \in Tasks,
           tab' = [tab EXCEPT ![t] = x], posts' = posts, busy' = busy,
           tab[t].at # "request"
    PROVE  PostsHaveTasks'
<1>1. ASSUME NEW m, m \in posts \cup {busy}, Waits(m), m.from \in Tabs \cup {Nobody}
      PROVE  Waits(m)'
    BY <1>1 DEF Ranges, Waits
<1>2. \A m \in posts : m.from \in Tabs \cup {Nobody}
    BY DEF Ranges, Requests
<1>3. busy # NoRequest => busy.from \in Tabs \cup {Nobody}
    BY DEF Ranges, Requests
<1> QED BY <1>1, <1>2, <1>3 DEF PostsHaveTasks

\* A task sends its request.
LEMMA TaskPosts ==
    ASSUME Ranges, PostsHaveTasks, NEW t \in Tabs, NEW x \in Tasks, x.at = "request",
           tab' = [tab EXCEPT ![t] = x], busy' = busy, tab[t].at # "request",
           NEW m \in Requests, m.from = t, posts' = posts \cup {m},
           m.call = "payload" => m.id = x.id /\ m.id \in Ids
    PROVE  PostsHaveTasks'
<1>1. ASSUME NEW n, n \in posts \cup {busy}, Waits(n), n.from \in Tabs \cup {Nobody}
      PROVE  Waits(n)' /\ (n.from = t => n.from = Nobody)
    BY <1>1 DEF Ranges, Waits
<1>2. \A n \in posts : n.from \in Tabs \cup {Nobody}
    BY DEF Ranges, Requests
<1>3. busy # NoRequest => busy.from \in Tabs \cup {Nobody}
    BY DEF Ranges, Requests
<1>4. Waits(m)'
    BY DEF Ranges, Waits
<1>5. \A n \in posts' : Waits(n)'
    BY <1>1, <1>2, <1>4 DEF PostsHaveTasks
<1>6. \A n, o \in posts' : n.from = o.from => n.from = Nobody \/ n = o
    BY <1>1, <1>2 DEF PostsHaveTasks
<1>7. busy' # NoRequest => Waits(busy)' /\ \A n \in posts' : n.from = busy'.from => n.from = Nobody
    BY <1>1, <1>3 DEF PostsHaveTasks
<1> QED BY <1>5, <1>6, <1>7 DEF PostsHaveTasks

\* A task is gone: its request is served for nobody.
Dropped(t) ==
    LET anonymous(m) == IF m.from = t THEN [m EXCEPT !.from = Nobody] ELSE m
    IN  /\ posts' = {anonymous(m) : m \in posts}
        /\ busy' = IF busy = NoRequest THEN busy ELSE anonymous(busy)

Anonymous(m, n, t) ==
    IF m.from = t THEN n = [m EXCEPT !.from = Nobody] ELSE n = m

LEMMA Dropping ==
    ASSUME Ranges, NEW t \in Tabs, Dropped(t)
    PROVE  /\ posts' \subseteq Requests /\ busy' \in Requests \cup {NoRequest}
           /\ \A n \in posts' : \E m \in posts : Anonymous(m, n, t)
           /\ IF busy = NoRequest THEN busy' = busy ELSE Anonymous(busy, busy', t)
<1> DEFINE anonymous(m) == IF m.from = t THEN [m EXCEPT !.from = Nobody] ELSE m
<1>1. /\ posts' = {anonymous(m) : m \in posts}
      /\ busy' = IF busy = NoRequest THEN busy ELSE anonymous(busy)
    BY DEF Dropped
<1>2. \A m \in Requests : anonymous(m) \in Requests
    BY DEF Requests
<1>3. \A m : Anonymous(m, anonymous(m), t)
    BY DEF Anonymous
<1> HIDE DEF anonymous
<1>4. posts' \subseteq Requests /\ busy' \in Requests \cup {NoRequest}
    BY <1>1, <1>2 DEF Ranges
<1> QED BY <1>1, <1>3, <1>4

LEMMA TaskDropped ==
    ASSUME Ranges, PostsHaveTasks, NEW t \in Tabs, Dropped(t), tab' = [tab EXCEPT ![t] = Idle]
    PROVE  PostsHaveTasks'
<1>1. ASSUME NEW m \in Requests, NEW n, Anonymous(m, n, t)
      PROVE  n.from = IF m.from = t THEN Nobody ELSE m.from
    BY <1>1 DEF Anonymous, Requests
<1>2. ASSUME NEW m \in Requests, NEW n, Anonymous(m, n, t), Waits(m)
      PROVE  Waits(n)'
    <2>1. m.from \in Tabs \cup {Nobody}
        BY DEF Requests
    <2> QED BY <1>1, <1>2, <2>1 DEF Waits, Ranges, Anonymous
<1>3. \A n \in posts' : \E m \in posts : m \in Requests /\ Anonymous(m, n, t)
    BY Dropping DEF Ranges
<1>4. \A n \in posts' : Waits(n)'
    BY <1>2, <1>3 DEF PostsHaveTasks
<1>5. ASSUME NEW n \in posts', NEW o \in posts', n.from = o.from PROVE n.from = Nobody \/ n = o
    <2>1. PICK m \in posts : m \in Requests /\ Anonymous(m, n, t)
        BY <1>3
    <2>2. PICK p \in posts : p \in Requests /\ Anonymous(p, o, t)
        BY <1>3
    <2>3. CASE m.from # t /\ p.from # t
        <3>1. n = m /\ o = p
            BY <2>1, <2>2, <2>3 DEF Anonymous
        <3> QED BY <1>5, <3>1 DEF PostsHaveTasks
    <2>4. CASE m.from = t \/ p.from = t
        BY <1>1, <1>5, <2>1, <2>2, <2>4
    <2> QED BY <2>3, <2>4
<1>6. ASSUME busy' # NoRequest
      PROVE  Waits(busy)' /\ \A n \in posts' : n.from = busy'.from => n.from = Nobody
    <2>1. busy \in Requests /\ busy # NoRequest /\ Anonymous(busy, busy', t)
        BY <1>6, Dropping DEF Ranges
    <2>2. Waits(busy)'
        BY <1>2, <2>1 DEF PostsHaveTasks, Waits
    <2>3. ASSUME NEW n \in posts', n.from = busy'.from PROVE n.from = Nobody
        <3>1. PICK m \in posts : m \in Requests /\ Anonymous(m, n, t)
            BY <1>3
        <3>2. m.from = busy.from => m.from = Nobody
            BY <2>1 DEF PostsHaveTasks
        <3> QED BY <1>1, <2>1, <2>3, <3>1, <3>2
    <2> QED BY <2>2, <2>3
<1> QED BY <1>4, <1>5, <1>6 DEF PostsHaveTasks

\* A request is taken off the queue and answered, or is the one that is worked on.
LEMMA RequestServed ==
    ASSUME Ranges, PostsHaveTasks, NEW m \in posts, posts' = posts \ {m}, busy' = busy,
           \A t \in Tabs : t # m.from => tab'[t] = tab[t], m.from = Nobody => tab' = tab
    PROVE  PostsHaveTasks'
<1>1. \A n \in posts : n.from \in Tabs \cup {Nobody}
    BY DEF Ranges, Requests
<1>2. busy # NoRequest => busy.from \in Tabs \cup {Nobody}
    BY DEF Ranges, Requests
<1>3. \A n \in posts' : Waits(n)'
    BY <1>1 DEF PostsHaveTasks, Waits
<1>4. busy' # NoRequest => Waits(busy)'
    BY <1>2 DEF PostsHaveTasks, Waits
<1> QED BY <1>3, <1>4 DEF PostsHaveTasks

LEMMA RequestTaken ==
    ASSUME Ranges, PostsHaveTasks, NEW m \in posts, posts' = posts \ {m}, busy' = m, tab' = tab
    PROVE  PostsHaveTasks'
<1>1. \A n \in posts' : Waits(n)'
    BY DEF PostsHaveTasks, Waits
<1>2. Waits(busy)'
    BY DEF PostsHaveTasks, Waits
<1> QED BY <1>1, <1>2 DEF PostsHaveTasks

\* The request that was worked on has ended.
LEMMA RequestEnded ==
    ASSUME Ranges, PostsHaveTasks, posts' = posts, busy' = NoRequest,
           busy = NoRequest => tab' = tab,
           busy # NoRequest =>
               /\ \A t \in Tabs : t # busy.from => tab'[t] = tab[t]
               /\ busy.from = Nobody => tab' = tab
    PROVE  PostsHaveTasks'
<1>1. \A n \in posts : n.from \in Tabs \cup {Nobody}
    BY DEF Ranges, Requests
<1>2. \A n \in posts' : Waits(n)'
    BY <1>1 DEF PostsHaveTasks, Waits
<1> QED BY <1>2 DEF PostsHaveTasks

(***************************************************************************)
(* Steps of a task                                                         *)
(***************************************************************************)

LEMMA AloneKept ==
    ASSUME Ranges, Alone, NEW t \in Tabs, NEW x \in Tasks, tab' = [tab EXCEPT ![t] = x],
           MayStart(t) \/ Working(t) \/ x.at = "idle"
    PROVE  Alone'
<1>1. \A u \in Tabs : u # t => Working(u)' = Working(u)
    BY DEF Ranges, Working
<1>2. Working(t)' => MayStart(t) \/ Working(t)
    BY DEF Ranges, Working
<1>3. ASSUME HasLocks, MayStart(t), NEW u \in Tabs PROVE ~Working(u)
    BY <1>3 DEF MayStart
<1> QED BY <1>1, <1>2, <1>3 DEF Alone

\* A task starts or goes on, with or without a request, and learns nothing of the flow.
LEMMA TaskStep ==
    ASSUME PageInv, NEW t \in Tabs, NEW x \in Tasks, tab' = [tab EXCEPT ![t] = x],
           x.reply = NoReply \/ (x.reply = tab[t].reply /\ x.id \in Ids),
           server' = server, busy' = busy, view' = view, reads' = reads,
           stored' \in Markers \cup {NoMarker}, nextId' \in 1 .. MaxOperations + 1,
           prompts' \subseteq Ids, sent' \subseteq Ids, received' \subseteq sent',
           MayStart(t) \/ tab[t].at \in {"connect", "reply", "prompt"},
           \/ posts' = posts
           \/ /\ x.at = "request"
              /\ \E m \in Requests : /\ m.from = t /\ posts' = posts \cup {m}
                                     /\ m.call = "payload" => m.id = x.id /\ m.id \in Ids
    PROVE  PageInv'
<1>1. Ranges'
    BY TaskValues DEF PageInv, Ranges
<1>2. tab[t].at # "request"
    BY DEF MayStart, Working
<1>3. CopiesAgree'
    <2>1. \A u \in Tabs : Held(u)' \subseteq Held(u) \cup {Shown, NoView}
        BY TaskValues DEF PageInv, Ranges, Held
    <2> QED BY <2>1, CopiesKept DEF PageInv
<1>4. BusyStage'
    BY DEF PageInv, BusyStage
<1>5. PostsHaveTasks'
    BY <1>2, TaskMoves, TaskPosts DEF PageInv
<1>6. Alone'
    BY AloneKept DEF PageInv, Working
<1> QED BY <1>1, <1>3, <1>4, <1>5, <1>6 DEF PageInv

Posted(t, call, id, hash) == [call |-> call, id |-> id, hash |-> hash, from |-> t]

LEMMA PostedFields ==
    ASSUME NEW t \in Tabs, NEW call \in Calls, NEW id \in {0} \cup Ids, NEW hash \in {0} \cup Ids
    PROVE  LET m == Posted(t, call, id, hash)
           IN  m \in Requests /\ m.from = t /\ m.call = call /\ m.id = id /\ m.hash = hash
BY DEF Requests, Posted

LEMMA BeginTyped ==
    ASSUME Ranges, NEW t \in Tabs, NEW leg \in Legs, Begin(t, TRUE, leg)
    PROVE  /\ stored' \in Markers /\ stored'.id = nextId /\ stored'.kind = leg
           /\ stored'.hash = 0 /\ nextId \in Ids
           /\ nextId' = nextId + 1 /\ nextId' \in 1 .. MaxOperations + 1
<1> USE DEF Persist
<1>1. view[t].revision \in 0 .. MaxRevision
    BY BrowserAssumption DEF Ranges, Views, NoView
<1>2. nextId \in Ids /\ nextId' \in 1 .. MaxOperations + 1
    BY BrowserAssumption DEF Begin, Ranges, Ids
<1>3. stored' = [id |-> nextId, kind |-> leg, phase |-> "request",
                 base |-> view[t].revision, hash |-> 0]
    BY DEF Begin
<1> QED BY <1>1, <1>2, <1>3 DEF Begin, Markers

\* A refused write changes nothing but what the page shows of it.
LEMMA NothingPage ==
    ASSUME PageInv, UNCHANGED <<server, busy, posts, stored, nextId, tab, view, reads,
                                prompts, sent, received>>
    PROVE  PageInv'
BY DEF PageInv, Ranges, CopiesAgree, Copies, Held, Shown, BusyStage, PostsHaveTasks, Waits, Alone,
       Working

LEMMA SubmitPage ==
    ASSUME PageInv, NEW t \in Tabs, NEW leg \in Legs, Submit(t, leg)
    PROVE  PageInv'
<1>1. leg \in Calls /\ leg # "payload"
    BY DEF Submit, Calls
<1>a. CASE Begin(t, FALSE, leg) /\ UNCHANGED <<posts, tab>>
    BY <1>a, NothingPage DEF Submit, Begin, Persist, serverVars, walletVars
<1>b. SUFFICES ASSUME Begin(t, TRUE, leg), Post(t, leg, nextId, 0),
                      tab' = [tab EXCEPT ![t] = Waiting]
               PROVE  PageInv'
    BY <1>a DEF Submit
<1>2. Begin(t, TRUE, leg) /\ Post(t, leg, nextId, 0) /\ MayStart(t)
    BY <1>b DEF Submit, MayClick
<1>3. nextId \in Ids /\ stored' \in Markers /\ nextId' \in 1 .. MaxOperations + 1
    BY <1>2, BeginTyped DEF PageInv
<1> DEFINE m == Posted(t, leg, nextId, 0)
<1> HIDE DEF m
<1>4. m \in Requests /\ m.from = t /\ m.call = leg /\ posts' = posts \cup {m}
    BY <1>1, <1>2, <1>3, PostedFields DEF m, Post, Posted
<1>5. Waiting \in Tasks /\ Waiting.at = "request" /\ Waiting.reply = NoReply
    BY TaskValues
<1> QED BY <1>1, <1>b, <1>2, <1>3, <1>4, <1>5, TaskStep
        DEF Submit, serverVars, walletVars, PageInv, Ranges

\* Where a connection, a rejection and an answer leave their task.
LEMMA ConnectPage ==
    ASSUME PageInv, NEW t \in Tabs, NEW goal \in {"connect", "payload"}, Connect(t, goal)
    PROVE  PageInv'
<1> DEFINE x == [Idle EXCEPT !.at = "connect", !.goal = goal, !.previous = stored.id]
<1>1. stored.id \in {0} \cup Ids
    BY DEF PageInv, Ranges, Markers, NoMarker
<1>2. x \in Tasks /\ x.reply = NoReply
    BY <1>1, TaskValues DEF Idle, Tasks
<1>3. MayStart(t)
    BY DEF Connect, MayClick
<1>4. tab' = [tab EXCEPT ![t] = x] /\ posts' = posts
    BY DEF Connect
<1> HIDE DEF x
<1> QED BY <1>2, <1>3, <1>4, TaskStep DEF Connect, serverVars, walletVars, PageInv, Ranges

LEMMA ConnectedPage ==
    ASSUME PageInv, NEW t \in Tabs, Connected(t)
    PROVE  PageInv'
<1>1. tab[t].at = "connect" /\ tab[t] \in Tasks
    BY DEF Connected, PageInv, Ranges
<1>2. CASE tab[t].goal = "payload" /\ stored = NoMarker
    <2> DEFINE x == [tab[t] EXCEPT !.at = "request", !.goal = "none", !.id = nextId]
    <2>a. CASE Begin(t, FALSE, "decision") /\ tab' = [tab EXCEPT ![t] = Idle] /\ UNCHANGED posts
        <3>1. UNCHANGED <<stored, nextId>>
            BY <2>a DEF Begin, Persist
        <3> QED BY <1>1, <2>a, <3>1, TaskValues, TaskStep
                DEF Connected, serverVars, walletVars, PageInv, Ranges
    <2>b. SUFFICES ASSUME Begin(t, TRUE, "decision"), Post(t, "payload", nextId, 0),
                          tab' = [tab EXCEPT ![t].at = "request", ![t].goal = "none",
                                             ![t].id = nextId]
                   PROVE  PageInv'
        BY <1>2, <2>a DEF Connected
    <2>1. Begin(t, TRUE, "decision") /\ Post(t, "payload", nextId, 0)
        BY <2>b
    <2>2. nextId \in Ids /\ stored' \in Markers /\ nextId' \in 1 .. MaxOperations + 1
        BY <2>1, BeginTyped DEF PageInv, Legs
    <2> DEFINE m == Posted(t, "payload", nextId, 0)
    <2> HIDE DEF m
    <2>3. m \in Requests /\ m.from = t /\ m.id = nextId /\ posts' = posts \cup {m}
        BY <2>1, <2>2, PostedFields DEF Calls, m, Post, Posted
    <2>4. x \in Tasks /\ x.at = "request" /\ x.reply = tab[t].reply /\ x.id = nextId
        BY <1>1, <2>2 DEF Tasks
    <2>5. tab' = [tab EXCEPT ![t] = x]
        BY <2>b DEF PageInv, Ranges
    <2>6. UNCHANGED <<server, busy, view, reads, prompts, sent, received>>
        BY DEF Connected, serverVars, walletVars
    <2> HIDE DEF x
    <2>7. PICK y \in Tasks : y = x
        BY <2>4
    <2>8. \E n \in Requests : /\ n.from = t /\ posts' = posts \cup {n}
                              /\ n.call = "payload" => n.id = y.id /\ n.id \in Ids
        BY <2>2, <2>3, <2>4, <2>7
    <2> QED BY <1>1, <2>2, <2>4, <2>5, <2>6, <2>7, <2>8, TaskStep DEF PageInv, Ranges
<1>3. CASE ~(tab[t].goal = "payload" /\ stored = NoMarker)
    <2>1. tab' = [tab EXCEPT ![t] = Idle] /\ UNCHANGED <<posts, stored, nextId>>
        BY <1>3 DEF Connected
    <2> QED BY <1>1, <2>1, TaskValues, TaskStep
            DEF Connected, serverVars, walletVars, PageInv, Ranges
<1> QED BY <1>2, <1>3

LEMMA RejectedTyped ==
    ASSUME Ranges, NEW t \in Tabs, Rejected(t)
    PROVE  /\ stored' \in {stored, NoMarker} /\ stored' \in Markers \cup {NoMarker}
           /\ tab' = [tab EXCEPT ![t] = Idle]
BY DEF Rejected, Persist, Ranges

LEMMA ConnectRejectedPage ==
    ASSUME PageInv, NEW t \in Tabs, ConnectRejected(t)
    PROVE  PageInv'
<1>1. Rejected(t) /\ tab[t].at = "connect"
    BY DEF ConnectRejected
<1>2. stored' \in Markers \cup {NoMarker} /\ tab' = [tab EXCEPT ![t] = Idle]
    BY <1>1, RejectedTyped DEF PageInv
<1> QED BY <1>1, <1>2, TaskValues, TaskStep
        DEF ConnectRejected, serverVars, walletVars, PageInv, Ranges

LEMMA RecoverPage ==
    ASSUME PageInv, NEW t \in Tabs, Recover(t)
    PROVE  PageInv'
<1>1. MayStart(t) /\ RecoveryLeg(view[t].stage) \in Legs
    BY DEF Recover, RecoveryLeg, Legs
<1>2. PICK hash \in IF stored.id # 0 /\ stored.hash # 0 THEN {stored.hash} ELSE {0} \cup sent :
          LET call == IF hash # 0 /\ view[t].stage \in {"DECISION_READY", "DECISION_PENDING"}
                      THEN "receipt" ELSE RecoverCall[RecoveryLeg(view[t].stage)]
          IN  /\ Post(t, call, 0, IF call = "receipt" THEN hash ELSE 0)
              /\ tab' = [tab EXCEPT ![t] = Waiting]
    BY DEF Recover
<1> DEFINE call == IF hash # 0 /\ view[t].stage \in {"DECISION_READY", "DECISION_PENDING"}
                   THEN "receipt" ELSE RecoverCall[RecoveryLeg(view[t].stage)]
<1>3. hash \in {0} \cup Ids
    BY DEF PageInv, Ranges, Markers, NoMarker
<1>4. call \in Calls /\ call # "payload"
    BY <1>1 DEF RecoverCall, Calls, Legs
<1>5. Post(t, call, 0, IF call = "receipt" THEN hash ELSE 0) /\ tab' = [tab EXCEPT ![t] = Waiting]
    BY <1>2
<1> HIDE DEF call
<1> DEFINE m == Posted(t, call, 0, IF call = "receipt" THEN hash ELSE 0)
<1> HIDE DEF m
<1>6. m \in Requests /\ m.from = t /\ m.call = call /\ posts' = posts \cup {m}
    BY <1>3, <1>4, <1>5, PostedFields DEF m, Post, Posted
<1> QED BY <1>1, <1>4, <1>5, <1>6, TaskValues, TaskStep
        DEF Recover, serverVars, walletVars, PageInv, Ranges

LEMMA PatchTyped ==
    ASSUME Ranges, NEW phase \in {"wallet", "submitted"}, NEW hash \in {0} \cup Ids,
           NEW t, NEW ok \in BOOLEAN, Patch(t, ok, phase, hash)
    PROVE  /\ stored' \in Markers \cup {NoMarker} /\ stored'.id = stored.id
           /\ stored.id # 0 =>
                 stored'.kind = stored.kind /\ stored'.hash = IF ok THEN hash ELSE stored.hash
<1>0. CASE ~ok
    BY <1>0 DEF Patch, Persist, Ranges
<1> SUFFICES ASSUME ok PROVE /\ stored' \in Markers \cup {NoMarker} /\ stored'.id = stored.id
                             /\ stored.id # 0 => stored'.kind = stored.kind /\ stored'.hash = hash
    BY <1>0
<1> USE DEF Persist
<1>1. CASE stored.id # 0
    <2>1. stored \in Markers
        BY <1>1 DEF Ranges, NoMarker
    <2>2. stored' = [stored EXCEPT !.phase = phase, !.hash = hash]
        BY <1>1 DEF Patch
    <2> QED BY <2>1, <2>2 DEF Markers
<1>2. CASE stored.id = 0
    BY <1>2 DEF Patch, Ranges
<1> QED BY <1>1, <1>2

(***************************************************************************)
(* Answers                                                                 *)
(***************************************************************************)

\* A page merges a copy it holds and forgets others.
LEMMA Accepted ==
    ASSUME PageInv, NEW t \in Tabs, NEW v \in Copies, NEW ok \in BOOLEAN, Accept(t, ok, v),
           server' = server,
           \A u \in Tabs : /\ tab'[u].reply.view \in {tab[u].reply.view, NoView}
                           /\ reads'[u] \subseteq reads[u]
    PROVE  /\ CopiesAgree'
           /\ view' \in [Tabs -> Views \cup {NoView}] /\ stored' \in Markers \cup {NoMarker}
<1> DEFINE merged == Merge(view[t], v)
<1>1. view[t] = NoView \/ view[t] \in Copies
    BY NoneOfThem DEF PageInv, Ranges, Copies, Held
<1>2. /\ merged \in Views
      /\ merged.revision <= server.revision /\ (~merged.active => ~server.active)
      /\ \A w \in Copies : Ordered(merged, w) /\ Ordered(w, merged)
      /\ Ordered(merged, merged)
    BY <1>1, Merged DEF PageInv
<1>3. view' = [view EXCEPT ![t] = merged] /\ stored' \in {stored, NoMarker}
    BY DEF Accept, Persist, Reconcile
<1> HIDE DEF merged
<1>4. \A u \in Tabs : Held(u)' \subseteq Held(u) \cup {NoView, merged}
    BY <1>3 DEF Held, PageInv, Ranges
<1>5. Shown' = Shown
    BY DEF Shown
<1>6. Copies' \subseteq Copies \cup {merged}
    <2> SUFFICES ASSUME NEW w \in Copies', w # merged PROVE w \in Copies
        OBVIOUS
    <2>1. CASE w = Shown'
        BY <1>5, <2>1 DEF Copies
    <2>2. CASE w # Shown'
        <3>1. PICK u \in Tabs : w \in Held(u)'
            BY <2>2 DEF Copies
        <3>2. w.revision # 0
            BY <2>2 DEF Copies
        <3> QED BY <1>4, <3>1, <3>2, NoneOfThem DEF Copies
    <2> QED BY <2>1, <2>2
<1>7. CopiesAgree'
    BY <1>2, <1>6 DEF CopiesAgree, PageInv
<1> QED BY <1>2, <1>3, <1>7 DEF PageInv, Ranges

LEMMA AnswerPage ==
    ASSUME PageInv, NEW t \in Tabs, Answer(t)
    PROVE  PageInv'
<1>1. tab[t].at = "reply" /\ tab[t] \in Tasks
    BY DEF Answer, PageInv, Ranges
<1>2. CASE tab[t].reply.kind = "error"
    <2>1. tab' = [tab EXCEPT ![t] = Idle] /\ UNCHANGED <<stored, view, prompts>>
        BY <1>2 DEF Answer
    <2> QED BY <1>1, <2>1, TaskValues, TaskStep DEF Answer, serverVars, PageInv, Ranges
<1>3. CASE tab[t].reply.kind = "payload"
    <2> DEFINE x == [tab[t] EXCEPT !.at = "prompt", !.reply = NoReply]
    <2>a. PICK ok, noted \in BOOLEAN :
              /\ Patch(t, ok, "wallet", 0)
              /\ IF ok /\ noted
                 THEN /\ prompts' = prompts \cup {tab[t].id}
                      /\ tab' = [tab EXCEPT ![t].at = "prompt", ![t].reply = NoReply]
                 ELSE tab' = [tab EXCEPT ![t] = Idle] /\ UNCHANGED prompts
        BY <1>3 DEF Answer
    <2>2. stored' \in Markers \cup {NoMarker} /\ UNCHANGED view
        BY <1>3, <2>a, PatchTyped DEF PageInv, Answer
    <2>b. CASE ~(ok /\ noted)
        BY <1>1, <2>a, <2>b, <2>2, TaskValues, TaskStep DEF Answer, serverVars, PageInv, Ranges
    <2>c. SUFFICES ASSUME ok, noted PROVE PageInv'
        BY <2>b
    <2>1. /\ prompts' = prompts \cup {tab[t].id}
          /\ tab' = [tab EXCEPT ![t].at = "prompt", ![t].reply = NoReply]
        BY <2>a, <2>c
    <2>3. x \in Tasks /\ x.reply = NoReply
        BY <1>1, TaskValues DEF Tasks, Idle, Waiting
    <2>4. tab' = [tab EXCEPT ![t] = x]
        BY <2>1 DEF PageInv, Ranges
    <2>5. tab[t].id \in Ids
        BY <1>3 DEF PageInv, Ranges
    <2>6. /\ UNCHANGED <<server, busy, posts, nextId, reads, sent, received>>
          /\ prompts' \subseteq Ids /\ view' = view
        BY <2>1, <2>2, <2>5 DEF Answer, serverVars, PageInv, Ranges
    <2> HIDE DEF x
    <2> QED BY <1>1, <2>2, <2>3, <2>4, <2>6, TaskStep DEF PageInv, Ranges
<1>4. CASE tab[t].reply.kind = "view"
    <2>1. PICK ok \in BOOLEAN : /\ tab' = [tab EXCEPT ![t] = Idle] /\ UNCHANGED prompts
                               /\ Accept(t, ok, tab[t].reply.view)
        BY <1>4 DEF Answer
    <2>2. UNCHANGED <<serverVars, posts, nextId, reads, sent, received>>
        BY DEF Answer
    <2>3. tab[t].reply.view \in Copies
        BY <1>4, NoneOfThem DEF PageInv, Ranges, Copies, Held
    <2>4. \A u \in Tabs : tab'[u].reply.view \in {tab[u].reply.view, NoView}
        BY <2>1, TaskValues DEF PageInv, Ranges
    <2>5. /\ CopiesAgree' /\ view' \in [Tabs -> Views \cup {NoView}]
          /\ stored' \in Markers \cup {NoMarker}
        BY <2>1, <2>2, <2>3, <2>4, Accepted DEF serverVars
    <2>6. Ranges'
        BY <2>1, <2>2, <2>5, TaskValues DEF PageInv, Ranges, serverVars
    <2>7. PostsHaveTasks'
        BY <1>1, <2>1, <2>2, TaskValues, TaskMoves DEF PageInv, serverVars
    <2>8. Alone'
        BY <2>1, TaskValues, AloneKept DEF PageInv
    <2>9. BusyStage'
        BY <2>2 DEF PageInv, BusyStage, serverVars
    <2> QED BY <2>5, <2>6, <2>7, <2>8, <2>9 DEF PageInv
<1> QED BY <1>2, <1>3, <1>4 DEF Answer

\* A page that goes away, or its task that gives up, forgets.
LEMMA GiveUpPage ==
    ASSUME PageInv, NEW t \in Tabs, GiveUp(t) \/ Reload(t)
    PROVE  PageInv'
<1>1. Dropped(t) /\ tab' = [tab EXCEPT ![t] = Idle]
    BY DEF GiveUp, Reload, Dropped
<1>2. /\ UNCHANGED <<server, stored, nextId, walletVars>>
      /\ view' \in {view, [view EXCEPT ![t] = NoView]}
      /\ reads' \in {reads, [reads EXCEPT ![t] = {}]}
    BY DEF GiveUp, Reload
<1>3. posts' \subseteq Requests /\ busy' \in Requests \cup {NoRequest}
    BY <1>1, Dropping DEF PageInv
<1>4. Ranges'
    BY <1>1, <1>2, <1>3, TaskValues DEF PageInv, Ranges, walletVars
<1>5. CopiesAgree'
    <2>1. \A u \in Tabs : Held(u)' \subseteq Held(u) \cup {Shown, NoView}
        BY <1>1, <1>2, TaskValues DEF PageInv, Ranges, Held
    <2> QED BY <1>2, <2>1, CopiesKept DEF PageInv
<1>6. BusyStage'
    <2>1. busy' # NoRequest => busy # NoRequest /\ busy'.call = busy.call
        <3>1. IF busy = NoRequest THEN busy' = busy ELSE Anonymous(busy, busy', t)
            BY <1>1, Dropping DEF PageInv
        <3> QED BY <3>1 DEF Anonymous, PageInv, Ranges, Requests
    <2> QED BY <1>2, <2>1 DEF PageInv, BusyStage
<1>7. PostsHaveTasks'
    BY <1>1, TaskDropped DEF PageInv
<1>8. Alone'
    BY <1>1, TaskValues, AloneKept DEF PageInv
<1> QED BY <1>4, <1>5, <1>6, <1>7, <1>8 DEF PageInv

LEMMA ReadPage ==
    ASSUME PageInv, NEW t \in Tabs, Read(t)
    PROVE  PageInv'
<1>1. /\ UNCHANGED <<server, busy, posts, stored, nextId, tab, view, prompts, sent, received>>
      /\ reads' = [reads EXCEPT ![t] = @ \cup {Shown}]
    BY DEF Read, serverVars, walletVars
<1>2. Ranges'
    BY <1>1, ShownFields DEF PageInv, Ranges
<1>3. CopiesAgree'
    <2>1. \A u \in Tabs : Held(u)' \subseteq Held(u) \cup {Shown, NoView}
        BY <1>1 DEF PageInv, Ranges, Held
    <2> QED BY <1>1, <2>1, CopiesKept DEF PageInv
<1> QED BY <1>1, <1>2, <1>3 DEF PageInv, BusyStage, PostsHaveTasks, Waits, Alone, Working

LEMMA LoadedPage ==
    ASSUME PageInv, NEW t \in Tabs, Loaded(t)
    PROVE  PageInv'
<1>1. PICK v \in reads[t], ok \in BOOLEAN :
          Accept(t, ok, v) /\ reads' = [reads EXCEPT ![t] = @ \ {v}]
    BY DEF Loaded
<1>2. UNCHANGED <<server, busy, posts, nextId, tab, prompts, sent, received>>
    BY DEF Loaded, serverVars, walletVars
<1>3. v \in Copies
    BY NoneOfThem DEF PageInv, Ranges, Copies, Held
<1>4. \A u \in Tabs : /\ tab'[u].reply.view \in {tab[u].reply.view, NoView}
                      /\ reads'[u] \subseteq reads[u]
    BY <1>1, <1>2 DEF PageInv, Ranges
<1>5. /\ CopiesAgree'
      /\ view' \in [Tabs -> Views \cup {NoView}] /\ stored' \in Markers \cup {NoMarker}
    BY <1>1, <1>2, <1>3, <1>4, Accepted
<1>6. Ranges'
    BY <1>1, <1>2, <1>5 DEF PageInv, Ranges
<1> QED BY <1>2, <1>5, <1>6 DEF PageInv, BusyStage, PostsHaveTasks, Waits, Alone, Working

LEMMA ApprovePage ==
    ASSUME PageInv, NEW id \in Ids, Approve(id)
    PROVE  PageInv'
<1>1. /\ UNCHANGED <<server, busy, nextId, view, reads>>
      /\ prompts' \subseteq Ids /\ sent' = sent \cup {id} /\ sent' \subseteq Ids
    BY DEF Approve, serverVars, PageInv, Ranges
<1>2. CASE Asking(id) = {}
    <2>1. UNCHANGED <<posts, stored, tab, received>>
        BY <1>2 DEF Approve
    <2>2. Ranges'
        BY <1>1, <2>1 DEF PageInv, Ranges
    <2> QED BY <1>1, <2>1, <2>2 DEF PageInv, BusyStage, PostsHaveTasks, Waits, Alone, Working,
                                    CopiesAgree, Copies, Held, Shown
<1>3. CASE Asking(id) # {}
    <2>a. PICK t \in Asking(id), ok, noted \in BOOLEAN :
              /\ Patch(t, ok, "submitted", id)
              /\ received' = IF ok THEN received \cup {id} ELSE received
              /\ IF ok /\ noted
                 THEN Post(t, "receipt", id, id) /\ tab' = [tab EXCEPT ![t] = Waiting]
                 ELSE tab' = [tab EXCEPT ![t] = Idle] /\ UNCHANGED posts
        BY <1>3 DEF Approve
    <2>2. t \in Tabs /\ tab[t].at = "prompt"
        BY DEF Asking
    <2>3. stored' \in Markers \cup {NoMarker} /\ received' \subseteq sent'
        BY <1>1, <2>a, PatchTyped DEF PageInv, Ranges
    <2>b. CASE ~(ok /\ noted)
        BY <1>1, <2>a, <2>b, <2>2, <2>3, TaskValues, TaskStep DEF PageInv, Ranges
    <2>c. SUFFICES ASSUME ok, noted PROVE PageInv'
        BY <2>b
    <2>1. Post(t, "receipt", id, id) /\ tab' = [tab EXCEPT ![t] = Waiting]
        BY <2>a, <2>c
    <2> DEFINE m == Posted(t, "receipt", id, id)
    <2> HIDE DEF m
    <2>4. m \in Requests /\ m.from = t /\ m.call = "receipt" /\ posts' = posts \cup {m}
        BY <2>1, <2>2, PostedFields DEF Calls, m, Post, Posted
    <2> QED BY <1>1, <2>1, <2>2, <2>3, <2>4, TaskValues, TaskStep DEF PageInv, Ranges
<1> QED BY <1>2, <1>3

LEMMA RefusePage ==
    ASSUME PageInv, NEW id \in Ids, Refuse(id)
    PROVE  PageInv'
<1>1. /\ UNCHANGED <<server, busy, posts, nextId, view, reads, sent, received>>
      /\ prompts' \subseteq Ids
    BY DEF Refuse, serverVars, PageInv, Ranges
<1>2. CASE Asking(id) = {}
    <2>1. UNCHANGED <<stored, tab>>
        BY <1>2 DEF Refuse
    <2>2. Ranges'
        BY <1>1, <2>1 DEF PageInv, Ranges
    <2> QED BY <1>1, <2>1, <2>2 DEF PageInv, BusyStage, PostsHaveTasks, Waits, Alone, Working,
                                    CopiesAgree, Copies, Held, Shown
<1>3. CASE Asking(id) # {}
    <2>1. PICK t \in Asking(id) : Rejected(t)
        BY <1>3 DEF Refuse
    <2>2. t \in Tabs /\ tab[t].at = "prompt"
        BY DEF Asking
    <2>3. stored' \in Markers \cup {NoMarker} /\ tab' = [tab EXCEPT ![t] = Idle]
        BY <2>1, <2>2, RejectedTyped DEF PageInv
    <2> QED BY <1>1, <2>2, <2>3, TaskValues, TaskStep DEF PageInv, Ranges
<1> QED BY <1>2, <1>3

(***************************************************************************)
(* Steps of the service                                                    *)
(***************************************************************************)

\* The service changes nothing of the browser but the task that waits for its answer.
LEMMA ReplyTyped ==
    ASSUME Ranges, NEW m \in Requests, NEW kind \in {"error", "payload", "view"},
           NEW v \in Views \cup {NoView}, Reply(m, kind, v),
           kind = "view" => v \in Views,
           kind = "payload" => m.from = Nobody \/ tab[m.from].id \in Ids
    PROVE  /\ tab' \in [Tabs -> Tasks]
           /\ \A t \in Tabs : /\ tab'[t].reply.kind = "view" => tab'[t].reply.view \in Views
                              /\ tab'[t].reply.kind = "payload" => tab'[t].id \in Ids
                              /\ tab'[t].reply.view \in {tab[t].reply.view, v}
           /\ \A t \in Tabs : t # m.from => tab'[t] = tab[t]
           /\ m.from = Nobody => tab' = tab
           /\ m.from # Nobody => /\ tab'[m.from].at = "reply" /\ tab'[m.from].reply.kind = kind
                                 /\ tab'[m.from].id = tab[m.from].id
<1>1. CASE m.from = Nobody
    BY <1>1 DEF Reply, Ranges
<1>2. CASE m.from # Nobody
    <2>1. m.from \in Tabs
        BY <1>2 DEF Requests
    <2> DEFINE r == [kind |-> kind, view |-> v]
               x == [tab[m.from] EXCEPT !.at = "reply", !.reply = r]
    <2>r. /\ r \in [kind: {"none", "error", "payload", "view"}, view: Views \cup {NoView}]
          /\ r.kind = kind /\ r.view = v
        OBVIOUS
    <2>x. tab[m.from] \in Tasks
        BY <2>1 DEF Ranges
    <2>3. tab' = [tab EXCEPT ![m.from] = x]
        BY <1>2, <2>1 DEF Reply, Ranges
    <2> HIDE DEF r
    <2>2. /\ x \in Tasks /\ x.at = "reply" /\ x.reply.kind = kind /\ x.reply.view = v
          /\ x.id = tab[m.from].id
        BY <2>r, <2>x DEF Tasks
    <2> HIDE DEF x
    <2> QED BY <1>2, <2>1, <2>2, <2>3 DEF Ranges
<1> QED BY <1>1, <1>2

\* A working task goes on working.
LEMMA ReplyAlone ==
    ASSUME Ranges, Alone, NEW m \in Requests, Waits(m), tab' \in [Tabs -> Tasks],
           \A t \in Tabs : t # m.from => tab'[t] = tab[t], m.from = Nobody => tab' = tab
    PROVE  Alone'
<1>1. \A t \in Tabs : Working(t)' => Working(t)
    BY DEF Waits, Working
<1> QED BY <1>1 DEF Alone

\* A save keeps what it does not name; no leg of the flow goes back.
Advances(new) ==
    /\ new \in Flows /\ new.revision > server.revision /\ (new.active => server.active)
    /\ CompletedSteps(server.stage) <= CompletedSteps(new.stage)

LEMMA Saving ==
    ASSUME Ranges, NEW new \in Flows, MaySave(1),
           new.revision = server.revision, new.active = server.active,
           CompletedSteps(server.stage) <= CompletedSteps(new.stage)
    PROVE  /\ Advances(Saved(new))
           /\ Saved(new).stage = new.stage /\ Saved(new).hash = new.hash
<1>1. server.revision \in Nat /\ server.revision + 1 \in 1 .. MaxRevision
    BY BrowserAssumption DEF Ranges, Flows, MaySave
<1>2. Saved(new) = [new EXCEPT !.revision = server.revision + 1]
    BY DEF Saved
<1>3. /\ Saved(new) \in Flows /\ Saved(new).revision = server.revision + 1
      /\ Saved(new).stage = new.stage /\ Saved(new).active = server.active
      /\ Saved(new).hash = new.hash
    BY <1>1, <1>2 DEF Flows
<1> QED BY <1>1, <1>3 DEF Advances

\* A save that answers nobody, or that answers with what was saved.
LEMMA SavedPage ==
    ASSUME PageInv, Advances(server'), UNCHANGED <<stored, nextId, view, reads, walletVars>>,
           busy' \in Requests \cup {NoRequest}, posts' \subseteq posts, tab' \in [Tabs -> Tasks],
           \A t \in Tabs : /\ tab'[t].reply.kind = "view" => tab'[t].reply.view \in Views
                           /\ tab'[t].reply.kind = "payload" => tab'[t].id \in Ids
                           /\ tab'[t].reply.view \in {tab[t].reply.view, NoView, Shown'}
    PROVE  Ranges' /\ CopiesAgree'
<1>1. Ranges'
    BY DEF PageInv, Ranges, Advances, walletVars
<1>2. \A t \in Tabs : Held(t)' \subseteq Held(t) \cup {Shown', NoView}
    BY DEF Held
<1>3. CopiesAgree'
    BY <1>1, <1>2, CopiesSaved DEF PageInv, Advances
<1> QED BY <1>1, <1>3

LEMMA AnsweredTyped ==
    ASSUME Ranges, NEW m \in Requests, NEW new \in Flows, Answered(m, new)
    PROVE  server' = new /\ Shown' \in Views /\ Reply(m, "view", Shown')
BY DEF Answered, Shown, Flows, Views

\* What a failed call saves.
LEMMA Failing ==
    ASSUME Ranges, NEW m \in Requests, FailsWith(m)
    PROVE  /\ Advances(server') /\ server'.stage = server.stage /\ server'.hash = server.hash
           /\ Shown' \in Views /\ Reply(m, "view", Shown')
<1> DEFINE new == [server EXCEPT !.error = TRUE]
<1>1. /\ new \in Flows /\ new.revision = server.revision /\ new.active = server.active
      /\ new.stage = server.stage /\ new.hash = server.hash
    BY DEF Ranges, Flows
<1>2. CompletedSteps(server.stage) \in Nat
    BY StageSteps DEF Ranges, Flows
<1>3. MaySave(1) /\ Answered(m, Saved(new))
    BY DEF FailsWith
<1> HIDE DEF new
<1>4. Advances(Saved(new)) /\ Saved(new).stage = server.stage /\ Saved(new).hash = server.hash
    BY <1>1, <1>2, <1>3, Saving
<1>5. server' = Saved(new) /\ Shown' \in Views /\ Reply(m, "view", Shown')
    BY <1>3, <1>4, AnsweredTyped DEF Advances
<1> QED BY <1>4, <1>5

\* What each request makes of the flow.
LEMMA Accepting ==
    ASSUME Ranges, NEW m \in Requests, Accepts(m)
    PROVE  /\ Advances(server') /\ server'.stage = server.stage /\ server'.hash = server.hash
           /\ \/ m.call = "propose" /\ server.stage = "REVIEWED"
              \/ m.call = "execute" /\ server.stage = "DECIDED"
<1>1. server \in Flows /\ CompletedSteps(server.stage) \in Nat
    BY StageSteps DEF Ranges, Flows
<1>2. MaySave(1)
    BY <1>1, BrowserAssumption DEF Accepts, MaySave, Flows
<1>3. /\ Advances(Saved(server))
      /\ Saved(server).stage = server.stage /\ Saved(server).hash = server.hash
    BY <1>1, <1>2, Saving
<1>4. /\ \/ m.call = "propose" /\ server.stage = "REVIEWED"
         \/ m.call = "execute" /\ server.stage = "DECIDED"
      /\ server' = Saved(server)
    BY DEF Accepts, From
<1> QED BY <1>3, <1>4

LEMMA AcceptingHash ==
    ASSUME Ranges, NEW m \in Requests, AcceptsHash(m)
    PROVE  /\ Advances(server') /\ server'.stage = "DECISION_PENDING" /\ server'.hash = m.hash
           /\ server.stage \in {"DECISION_READY", "DECISION_PENDING"}
           /\ server.hash \in {0, m.hash} /\ m.call = "receipt"
<1> DEFINE new == [server EXCEPT !.hash = m.hash, !.stage = "DECISION_PENDING"]
<1>1. server \in Flows /\ m.hash \in {0} \cup Ids
    BY DEF Ranges, Requests
<1>2. /\ new \in Flows /\ new.revision = server.revision /\ new.active = server.active
      /\ new.stage = "DECISION_PENDING" /\ new.hash = m.hash
    BY <1>1 DEF Flows, Stages
<1>3. CompletedSteps(server.stage) = CompletedSteps("DECISION_PENDING") /\ MaySave(1)
    BY <1>1, StageSteps, BrowserAssumption DEF AcceptsHash, MaySave, Flows
<1>4. server' = Saved(new)
    BY DEF AcceptsHash
<1> HIDE DEF new
<1>5. CompletedSteps("DECISION_PENDING") \in Nat
    BY StageSteps
<1>6. Advances(Saved(new)) /\ Saved(new).stage = "DECISION_PENDING" /\ Saved(new).hash = m.hash
    BY <1>2, <1>3, <1>5, Saving
<1> QED BY <1>4, <1>6 DEF AcceptsHash

LEMMA Issuing ==
    ASSUME Ranges, NEW m \in Requests, IssuesPayload(m)
    PROVE  /\ Advances(server') /\ server'.stage = "DECISION_READY" /\ server'.hash = server.hash
           /\ server.stage \in {"PROPOSED", "DECISION_READY"} /\ sent = {}
           /\ m.call = "payload" /\ Reply(m, "payload", NoView)
<1> DEFINE new == [server EXCEPT !.stage = "DECISION_READY", !.prepared = @ \cup {"decision"}]
<1>1. server \in Flows
    BY DEF Ranges
<1>2. /\ new \in Flows /\ new.revision = server.revision /\ new.active = server.active
      /\ new.stage = "DECISION_READY" /\ new.hash = server.hash
    BY <1>1 DEF Flows, Stages, Legs
<1>3. CompletedSteps(server.stage) = CompletedSteps("DECISION_READY") /\ MaySave(1)
    BY <1>1, StageSteps DEF IssuesPayload
<1>4. server' = Saved(new)
    BY DEF IssuesPayload
<1> HIDE DEF new
<1>5. CompletedSteps("DECISION_READY") \in Nat
    BY StageSteps
<1>6. Advances(Saved(new)) /\ Saved(new).stage = "DECISION_READY" /\ Saved(new).hash = server.hash
    BY <1>2, <1>3, <1>5, Saving
<1> QED BY <1>4, <1>6 DEF IssuesPayload

LEMMA Recovering ==
    ASSUME Ranges, NEW m \in Requests, Recovers(m)
    PROVE  /\ Advances(server') /\ server'.hash = server.hash
           /\ Shown' \in Views /\ Reply(m, "view", Shown')
           /\ \/ server'.stage = "PROPOSED" /\ server.stage \in {"PROPOSING", "PROPOSED"}
              \/ server'.stage = "DECIDED" /\ server.stage = "DECIDED"
              \/ /\ server'.stage = "DECIDED" /\ server.hash # 0
                 /\ server.stage \in {"DECISION_READY", "DECISION_PENDING"}
              \/ server'.stage = "EXECUTED" /\ server.stage = "EXECUTING"
<1> DEFINE stage == Confirmed(LegOf(m))
           new == [server EXCEPT !.stage = Confirmed(LegOf(m)), !.error = FALSE]
<1>1. server \in Flows /\ CompletedSteps(server.stage) \in Nat
    BY StageSteps DEF Ranges, Flows
<1>2. \/ stage = "PROPOSED" /\ server.stage \in {"PROPOSING", "PROPOSED"}
      \/ stage = "DECIDED" /\ server.stage = "DECIDED"
      \/ /\ stage = "DECIDED" /\ server.hash # 0
         /\ server.stage \in {"DECISION_READY", "DECISION_PENDING"}
      \/ stage = "EXECUTED" /\ server.stage = "EXECUTING"
    BY DEF Recovers, LegOf, Confirmed
<1>3. stage \in Stages /\ CompletedSteps(server.stage) <= CompletedSteps(stage)
    BY <1>1, <1>2, StageSteps DEF Stages
<1>4. MaySave(1) /\ Answered(m, Saved(new))
    BY DEF Recovers
<1>5. new = [server EXCEPT !.stage = stage, !.error = FALSE]
    OBVIOUS
<1> HIDE DEF stage, new
<1>6. /\ new \in Flows /\ new.revision = server.revision /\ new.active = server.active
      /\ new.stage = stage /\ new.hash = server.hash
    BY <1>1, <1>3, <1>5 DEF Flows
<1>7. Advances(Saved(new)) /\ Saved(new).stage = stage /\ Saved(new).hash = server.hash
    BY <1>3, <1>4, <1>6, Saving
<1>8. server' = Saved(new) /\ Shown' \in Views /\ Reply(m, "view", Shown')
    BY <1>4, <1>7, AnsweredTyped DEF Advances
<1> QED BY <1>2, <1>7, <1>8

LEMMA ServePage ==
    ASSUME PageInv, NEW m \in posts, Serve(m)
    PROVE  PageInv'
<1>1. m \in Requests /\ Waits(m) /\ Ranges
    BY DEF PageInv, Ranges, PostsHaveTasks
<1>2. posts' = posts \ {m} /\ UNCHANGED <<stored, nextId, view, reads, walletVars>>
    BY DEF Serve
<1>3. m.call = "payload" => m.from = Nobody \/ tab[m.from].id \in Ids
    BY <1>1 DEF Waits
<1>4. busy = NoRequest => BusyStage
    BY DEF BusyStage
<1>5. NoView \in Views \cup {NoView} /\ \A t \in Tabs : tab[t] \in Tasks
    BY <1>1 DEF Ranges
<1>a. ASSUME UNCHANGED serverVars, Reply(m, "error", NoView)
      PROVE  PageInv'
    <2>1. /\ tab' \in [Tabs -> Tasks]
          /\ \A t \in Tabs : /\ tab'[t].reply.kind = "view" => tab'[t].reply.view \in Views
                             /\ tab'[t].reply.kind = "payload" => tab'[t].id \in Ids
                             /\ tab'[t].reply.view \in {tab[t].reply.view, NoView}
          /\ \A t \in Tabs : t # m.from => tab'[t] = tab[t]
          /\ m.from = Nobody => tab' = tab
        BY <1>1, <1>a, ReplyTyped
    <2>2. server' = server /\ busy' = busy
        BY <1>a DEF serverVars
    <2>3. Ranges'
        BY <1>1, <1>2, <2>1, <2>2 DEF Ranges, walletVars
    <2>4. \A t \in Tabs : Held(t)' \subseteq Held(t) \cup {Shown, NoView}
        BY <1>2, <2>1 DEF Held
    <2>5. CopiesAgree'
        BY <2>2, <2>4, CopiesKept DEF PageInv
    <2>6. PostsHaveTasks'
        BY <1>1, <1>2, <2>1, <2>2, RequestServed DEF PageInv
    <2>7. Alone'
        BY <1>1, <2>1, ReplyAlone DEF PageInv
    <2> QED BY <2>2, <2>3, <2>5, <2>6, <2>7 DEF PageInv, BusyStage
<1>b. ASSUME busy = NoRequest, UNCHANGED busy, Advances(server'), Shown' \in Views,
             \/ Reply(m, "view", Shown')
             \/ m.call = "payload" /\ Reply(m, "payload", NoView)
      PROVE  PageInv'
    <2>1. /\ tab' \in [Tabs -> Tasks]
          /\ \A t \in Tabs : /\ tab'[t].reply.kind = "view" => tab'[t].reply.view \in Views
                             /\ tab'[t].reply.kind = "payload" => tab'[t].id \in Ids
                             /\ tab'[t].reply.view \in {tab[t].reply.view, NoView, Shown'}
          /\ \A t \in Tabs : t # m.from => tab'[t] = tab[t]
          /\ m.from = Nobody => tab' = tab
        <3>1. PICK v : v = Shown'
            OBVIOUS
        <3>2. CASE Reply(m, "view", Shown')
            <4>1. v \in Views /\ Reply(m, "view", v)
                BY <1>b, <3>1, <3>2
            <4> QED BY <1>1, <3>1, <4>1, ReplyTyped
        <3>3. CASE m.call = "payload" /\ Reply(m, "payload", NoView)
            BY <1>1, <1>3, <3>3, NoneOfThem, ReplyTyped
        <3> QED BY <1>b, <3>2, <3>3
    <2>2. Ranges' /\ CopiesAgree'
        BY <1>1, <1>2, <1>b, <2>1, SavedPage DEF Ranges
    <2>3. PostsHaveTasks'
        BY <1>1, <1>2, <1>b, <2>1, RequestServed DEF PageInv
    <2>4. Alone'
        BY <1>1, <2>1, ReplyAlone DEF PageInv
    <2> QED BY <1>b, <2>2, <2>3, <2>4 DEF PageInv, BusyStage
<1>c. ASSUME busy = NoRequest, busy' = m, UNCHANGED tab, Accepts(m) \/ AcceptsHash(m)
      PROVE  PageInv'
    <2>1. /\ Advances(server')
          /\ \/ m.call = "propose" /\ server'.stage = "REVIEWED"
             \/ m.call = "execute" /\ server'.stage = "DECIDED"
             \/ m.call = "receipt" /\ server'.stage = "DECISION_PENDING"
        BY <1>1, <1>c, Accepting, AcceptingHash
    <2>2. Ranges' /\ CopiesAgree'
        BY <1>1, <1>2, <1>c, <2>1, SavedPage DEF Ranges
    <2>3. BusyStage'
        BY <1>c, <2>1 DEF BusyStage
    <2>4. PostsHaveTasks'
        BY <1>1, <1>2, <1>c, RequestTaken DEF PageInv
    <2>5. Alone'
        BY <1>c DEF PageInv, Alone, Working
    <2> QED BY <2>2, <2>3, <2>4, <2>5 DEF PageInv
<1>6. CASE Reply(m, "error", NoView) /\ UNCHANGED serverVars
    BY <1>6, <1>a
<1>7. CASE busy = NoRequest /\ busy' = m /\ UNCHANGED tab /\ (Accepts(m) \/ AcceptsHash(m))
    BY <1>7, <1>c
<1>8. CASE busy = NoRequest /\ UNCHANGED busy /\ IssuesPayload(m)
    <2>1. Advances(server') /\ m.call = "payload" /\ Reply(m, "payload", NoView)
        BY <1>1, <1>8, Issuing
    <2>2. Shown' \in Views
        BY <2>1 DEF Advances, Shown, Flows, Views
    <2> QED BY <1>8, <1>b, <2>1, <2>2
<1>9. CASE busy = NoRequest /\ UNCHANGED busy /\ (Recovers(m) \/ FailsWith(m))
    <2>1. Advances(server') /\ Shown' \in Views /\ Reply(m, "view", Shown')
        BY <1>1, <1>9, Recovering, Failing
    <2> QED BY <1>9, <1>b, <2>1
<1> QED BY <1>6, <1>7, <1>8, <1>9 DEF Serve

LEMMA Planning ==
    ASSUME PageInv, Plans
    PROVE  /\ Advances(server') /\ server'.hash = server.hash
           /\ \/ /\ busy.call = "propose" /\ server'.stage = "PROPOSING"
                 /\ server.stage \in {"REVIEWED", "PROPOSING"}
              \/ /\ busy.call = "execute" /\ server'.stage = "EXECUTING"
                 /\ server.stage \in {"DECIDED", "EXECUTING"}
<1> DEFINE stage == Sending(busy.call)
           prepared == server.prepared \cup {busy.call}
           new == [server EXCEPT !.stage = Sending(busy.call), !.prepared = @ \cup {busy.call}]
<1>1. server \in Flows /\ CompletedSteps(server.stage) \in Nat
    BY StageSteps DEF PageInv, Ranges, Flows
<1>2. \/ /\ busy.call = "propose" /\ stage = "PROPOSING"
         /\ server.stage \in {"REVIEWED", "PROPOSING"}
      \/ /\ busy.call = "execute" /\ stage = "EXECUTING"
         /\ server.stage \in {"DECIDED", "EXECUTING"}
    BY NoRequestTyped DEF Plans, Sending, PageInv, BusyStage
<1>3. stage \in Stages /\ CompletedSteps(server.stage) <= CompletedSteps(stage)
    BY <1>1, <1>2, StageSteps DEF Stages
<1>4. prepared \in SUBSET Legs
    BY <1>1, <1>2 DEF Flows, Legs
<1>5. MaySave(1) /\ server' = Saved(new)
    BY <1>1, BrowserAssumption DEF Plans, MaySave, Flows
<1>6. new = [server EXCEPT !.stage = stage, !.prepared = prepared]
    BY <1>1 DEF Flows
<1> HIDE DEF stage, prepared, new
<1>7. /\ new \in Flows /\ new.revision = server.revision /\ new.active = server.active
      /\ new.stage = stage /\ new.hash = server.hash
    BY <1>1, <1>3, <1>4, <1>6 DEF Flows
<1>8. Advances(Saved(new)) /\ Saved(new).stage = stage /\ Saved(new).hash = server.hash
    BY <1>3, <1>5, <1>7, Saving DEF PageInv
<1> QED BY <1>2, <1>5, <1>8

LEMMA PlansPage ==
    ASSUME PageInv, Plans
    PROVE  PageInv'
<1>1. UNCHANGED <<busy, posts, stored, nextId, tab, view, reads, walletVars>>
    BY DEF Plans
<1>2. Advances(server')
    BY Planning
<1>3. Ranges' /\ CopiesAgree'
    BY <1>1, <1>2, SavedPage DEF PageInv, Ranges
<1>4. BusyStage'
    BY <1>1, Planning DEF BusyStage
<1> QED BY <1>1, <1>3, <1>4 DEF PageInv, PostsHaveTasks, Waits, Alone, Working

\* What the end of the running request makes of the flow.
LEMMA Finishing ==
    ASSUME PageInv, Finishes
    PROVE  /\ Advances(server') /\ server'.hash = server.hash /\ busy \in Requests
           /\ Shown' \in Views /\ Reply(busy, "view", Shown')
           /\ \/ server'.stage = server.stage
              \/ busy.call = "propose" /\ server'.stage = "PROPOSED"
              \/ busy.call = "execute" /\ CompletedSteps(server.stage) = 3
              \/ busy.call = "receipt" /\ server.stage = "DECISION_PENDING"
<1>1. server \in Flows /\ CompletedSteps(server.stage) \in Nat
    BY StageSteps DEF PageInv, Ranges, Flows
<1>2. busy \in Requests /\ busy # NoRequest /\ BusyStage
    BY DEF Finishes, PageInv, Ranges
<1>3. CASE FailsWith(busy)
    BY <1>2, <1>3, Failing DEF PageInv
<1>4. CASE MaySave(1) /\ Answered(busy, Saved([server EXCEPT !.stage = Confirmed(LegOf(busy)),
                                                             !.error = FALSE]))
    <2> DEFINE stage == Confirmed(LegOf(busy))
               new == [server EXCEPT !.stage = Confirmed(LegOf(busy)), !.error = FALSE]
    <2>1. \/ /\ busy.call = "propose" /\ stage = "PROPOSED"
             /\ server.stage \in {"REVIEWED", "PROPOSING"}
          \/ /\ busy.call = "execute" /\ stage = "EXECUTED"
             /\ server.stage \in {"DECIDED", "EXECUTING"}
          \/ /\ busy.call = "receipt" /\ stage = "DECIDED"
             /\ server.stage = "DECISION_PENDING"
        BY <1>2 DEF BusyStage, LegOf, Confirmed
    <2>2. stage \in Stages /\ CompletedSteps(server.stage) <= CompletedSteps(stage)
        BY <1>1, <2>1, StageSteps DEF Stages
    <2>3. new = [server EXCEPT !.stage = stage, !.error = FALSE]
        OBVIOUS
    <2>4. MaySave(1) /\ Answered(busy, Saved(new))
        BY <1>4
    <2> HIDE DEF stage, new
    <2>5. /\ new \in Flows /\ new.revision = server.revision /\ new.active = server.active
          /\ new.stage = stage /\ new.hash = server.hash
        BY <1>1, <2>2, <2>3 DEF Flows
    <2>6. Advances(Saved(new)) /\ Saved(new).stage = stage /\ Saved(new).hash = server.hash
        BY <2>2, <2>4, <2>5, Saving DEF PageInv
    <2>7. server' = Saved(new) /\ Shown' \in Views /\ Reply(busy, "view", Shown')
        BY <1>2, <2>4, <2>6, AnsweredTyped DEF Advances, PageInv
    <2> QED BY <1>2, <2>1, <2>6, <2>7, StageSteps
<1> QED BY <1>3, <1>4 DEF Finishes

LEMMA FinishesPage ==
    ASSUME PageInv, Finishes
    PROVE  PageInv'
<1>1. /\ busy # NoRequest /\ busy' = NoRequest
      /\ UNCHANGED <<posts, stored, nextId, view, reads, walletVars>>
    BY DEF Finishes
<1>2. /\ Advances(server') /\ busy \in Requests /\ Waits(busy) /\ Ranges
      /\ Shown' \in Views /\ Reply(busy, "view", Shown')
    BY <1>1, Finishing DEF PageInv, PostsHaveTasks
<1>3. PICK b, v : b = busy /\ v = Shown'
    OBVIOUS
<1>4. b \in Requests /\ v \in Views /\ Reply(b, "view", v)
    BY <1>2, <1>3
<1>5. /\ tab' \in [Tabs -> Tasks]
      /\ \A t \in Tabs : /\ tab'[t].reply.kind = "view" => tab'[t].reply.view \in Views
                         /\ tab'[t].reply.kind = "payload" => tab'[t].id \in Ids
                         /\ tab'[t].reply.view \in {tab[t].reply.view, NoView, v}
      /\ \A t \in Tabs : t # b.from => tab'[t] = tab[t]
      /\ b.from = Nobody => tab' = tab
    BY <1>2, <1>4, ReplyTyped
<1>6. Ranges' /\ CopiesAgree'
    BY <1>1, <1>2, <1>3, <1>5, SavedPage
<1>7. PostsHaveTasks'
    BY <1>1, <1>2, <1>3, <1>5, RequestEnded DEF PageInv
<1>8. Alone'
    BY <1>2, <1>3, <1>5, ReplyAlone DEF PageInv
<1> QED BY <1>1, <1>6, <1>7, <1>8 DEF PageInv, BusyStage

LEMMA RestartPage ==
    ASSUME PageInv, Restart
    PROVE  PageInv'
<1>1. /\ server' = [server EXCEPT !.active = FALSE] /\ busy' = NoRequest
      /\ UNCHANGED <<posts, stored, nextId, view, reads, walletVars>>
    BY DEF Restart
<1>0. server \in Flows
    BY DEF PageInv, Ranges
<1>a. CompletedSteps(server.stage) \in Nat
    BY <1>0, StageSteps DEF Flows
<1>b. server' \in Flows /\ server'.revision = server.revision /\ server'.stage = server.stage
    BY <1>0, <1>1 DEF Flows
<1>c. server'.active = FALSE
    BY <1>0, <1>1 DEF Flows
<1>2. /\ server' \in Flows /\ server'.revision = server.revision /\ server'.stage = server.stage
      /\ server'.active = FALSE /\ CompletedSteps(server.stage) \in Nat
    BY <1>a, <1>b, <1>c
<1>3. /\ tab' \in [Tabs -> Tasks]
      /\ \A t \in Tabs : /\ tab'[t].reply.kind = "view" => tab'[t].reply.view \in Views
                         /\ tab'[t].reply.kind = "payload" => tab'[t].id \in Ids
                         /\ tab'[t].reply.view \in {tab[t].reply.view, NoView}
      /\ busy = NoRequest => tab' = tab
      /\ busy # NoRequest => /\ \A t \in Tabs : t # busy.from => tab'[t] = tab[t]
                             /\ busy.from = Nobody => tab' = tab
    <2>1. CASE busy = NoRequest
        BY <2>1 DEF Restart, PageInv, Ranges
    <2>2. CASE busy # NoRequest
        <3>1. busy \in Requests /\ Reply(busy, "error", NoView)
            BY <2>2 DEF Restart, Reply, PageInv, Ranges
        <3>2. PICK b : b = busy
            OBVIOUS
        <3>3. b \in Requests /\ Reply(b, "error", NoView)
            BY <3>1, <3>2
        <3> QED BY <2>2, <3>2, <3>3, ReplyTyped DEF PageInv
    <2> QED BY <2>1, <2>2
<1>4. Ranges'
    BY <1>1, <1>2, <1>3 DEF PageInv, Ranges, walletVars
<1>5. \A t \in Tabs : Held(t)' \subseteq Held(t) \cup {Shown', NoView}
    BY <1>1, <1>3 DEF Held
<1>6. CopiesAgree'
    BY <1>2, <1>4, <1>5, CopiesSaved DEF PageInv
<1>7. PostsHaveTasks'
    BY <1>1, <1>3, RequestEnded DEF PageInv
<1>8. Alone'
    <2>1. \A t \in Tabs : Working(t)' => Working(t)
        BY <1>3 DEF Working, PageInv, PostsHaveTasks, Waits
    <2> QED BY <2>1 DEF PageInv, Alone
<1> QED BY <1>1, <1>4, <1>6, <1>7, <1>8 DEF PageInv, BusyStage

(***************************************************************************)
(* The invariant of the pages                                              *)
(***************************************************************************)

LEMMA InitPage == Init => PageInv
<1> SUFFICES ASSUME Init PROVE PageInv
    OBVIOUS
<1>1. PICK start \in Starts :
          server = [revision |-> 1, stage |-> start, active |-> TRUE, error |-> FALSE,
                    prepared |-> {leg \in Legs : Requires(leg) < CompletedSteps(start)}, hash |-> 0]
    BY DEF Init
<1>2. server \in Flows
    BY <1>1, BrowserAssumption DEF Flows, Stages
<1>3. 1 \in 1 .. MaxOperations + 1
    BY BrowserAssumption
<1>4. Ranges
    BY <1>2, <1>3, TaskValues DEF Init, Ranges
<1>5. Copies = {Shown}
    BY TaskValues, NoneOfThem DEF Init, Copies, Held
<1>6. /\ Shown.revision = server.revision /\ Shown.stage = server.stage
      /\ Shown.active = server.active
      /\ server.revision \in Nat /\ CompletedSteps(server.stage) \in Nat
    BY <1>2, ShownFields, StageSteps DEF Flows
<1>7. CopiesAgree
    BY <1>5, <1>6 DEF CopiesAgree, Ordered
<1>8. BusyStage /\ PostsHaveTasks /\ Alone
    BY TaskValues DEF Init, BusyStage, PostsHaveTasks, Alone, Working
<1> QED BY <1>4, <1>7, <1>8 DEF PageInv

LEMMA NextPage == PageInv /\ [Next]_vars => PageInv'
<1> SUFFICES ASSUME PageInv, [Next]_vars PROVE PageInv'
    OBVIOUS
<1>1. ASSUME NEW t \in Tabs, NEW leg \in Legs, Submit(t, leg) PROVE PageInv'
    BY <1>1, SubmitPage
<1>2. ASSUME NEW t \in Tabs, NEW goal \in {"connect", "payload"}, Connect(t, goal) PROVE PageInv'
    BY <1>2, ConnectPage
<1>3. ASSUME NEW t \in Tabs,
             \/ Connected(t) \/ ConnectRejected(t) \/ Recover(t) \/ Answer(t)
             \/ GiveUp(t) \/ Reload(t) \/ Read(t) \/ Loaded(t)
      PROVE  PageInv'
    BY <1>3, ConnectedPage, ConnectRejectedPage, RecoverPage, AnswerPage, GiveUpPage, ReadPage,
       LoadedPage
<1>4. ASSUME NEW id \in Ids, Approve(id) \/ Refuse(id) PROVE PageInv'
    BY <1>4, ApprovePage, RefusePage
<1>5. ASSUME NEW m \in posts, Serve(m) PROVE PageInv'
    BY <1>5, ServePage
<1>6. CASE UNCHANGED vars
    BY <1>6 DEF vars, serverVars, walletVars, PageInv, Ranges, CopiesAgree, Copies, Held, Shown,
                BusyStage, PostsHaveTasks, Waits, Alone, Working
<1> QED BY <1>1, <1>2, <1>3, <1>4, <1>5, <1>6, PlansPage, FinishesPage, RestartPage DEF Next

\* Whatever is delayed, lost or reloaded, with or without locks.
THEOREM PageInvariance == Spec => []PageInv
<1> QED BY InitPage, NextPage, PTL DEF Spec

\* Storage refuses a write of some tab, and hashes of decisions that were sent.
LEMMA RefusalsKept == Spec => []Refusals
<1>1. Init => Refusals
    BY DEF Init, Refusals
<1>2. ASSUME Refusals, [Next]_vars PROVE Refusals'
    <2> USE DEF Refusals, walletVars, Persist
    <2>1. ASSUME NEW t \in Tabs, NEW leg \in Legs, Submit(t, leg) PROVE Refusals'
        BY <1>2, <2>1 DEF Submit, Begin
    <2>2. ASSUME NEW t \in Tabs, NEW goal \in {"connect", "payload"}, Connect(t, goal)
          PROVE  Refusals'
        BY <1>2, <2>2 DEF Connect
    <2>3. ASSUME NEW t \in Tabs, Connected(t) \/ ConnectRejected(t) \/ Recover(t) PROVE Refusals'
        BY <1>2, <2>3 DEF Connected, Begin, ConnectRejected, Rejected, Recover
    <2>4. ASSUME NEW t \in Tabs, Answer(t) PROVE Refusals'
        BY <1>2, <2>4 DEF Answer, Patch, Accept
    <2>5. ASSUME NEW t \in Tabs, GiveUp(t) \/ Reload(t) \/ Read(t) \/ Loaded(t) PROVE Refusals'
        BY <1>2, <2>5 DEF GiveUp, Reload, Read, Loaded, Accept
    <2>6. ASSUME NEW id \in Ids, Approve(id) PROVE Refusals'
        BY <1>2, <2>6 DEF Approve, Patch, Asking
    <2>7. ASSUME NEW id \in Ids, Refuse(id) PROVE Refusals'
        BY <1>2, <2>7 DEF Refuse, Rejected, Asking
    <2>8. ASSUME NEW m \in posts, Serve(m) PROVE Refusals'
        BY <1>2, <2>8 DEF Serve
    <2>9. CASE Plans \/ Finishes \/ Restart \/ UNCHANGED vars
        BY <1>2, <2>9 DEF Plans, Finishes, Restart, vars
    <2> QED BY <1>2, <2>1, <2>2, <2>3, <2>4, <2>5, <2>6, <2>7, <2>8, <2>9 DEF Next
<1> QED BY <1>1, <1>2, PTL DEF Spec

\* TypeOK of the pages: with locks at most one task runs in all tabs.
THEOREM PageTypes == Spec => []TypeOK
<1>1. PageInv /\ Refusals => TypeOK
    <2> SUFFICES ASSUME PageInv, Refusals PROVE TypeOK
        OBVIOUS
    <2>1. Shown \in Views /\ server.hash \in {0} \cup Ids
        BY ShownFields DEF PageInv, Ranges, Flows
    <2>2. HasLocks => Cardinality({t \in Tabs : Working(t)}) <= 1
        <3> SUFFICES ASSUME HasLocks PROVE Cardinality({t \in Tabs : Working(t)}) <= 1
            OBVIOUS
        <3>1. CASE {t \in Tabs : Working(t)} = {}
            BY <3>1, FS_EmptySet
        <3>2. CASE {t \in Tabs : Working(t)} # {}
            <4>1. PICK t \in Tabs : Working(t)
                BY <3>2
            <4>2. {u \in Tabs : Working(u)} = {t}
                BY <4>1 DEF PageInv, Alone
            <4> QED BY <4>2, FS_Singleton
        <3> QED BY <3>1, <3>2
    <2> QED BY <2>1, <2>2 DEF PageInv, Ranges, Refusals, TypeOK
<1> QED BY <1>1, PageInvariance, RefusalsKept, PTL

\* A page's copy changes only when it merges another copy, or is forgotten.
LEMMA PageMerges ==
    ASSUME PageInv, [Next]_vars, NEW t \in Tabs
    PROVE  view'[t] \in {view[t], NoView} \/ \E v \in Copies : view'[t] = Merge(view[t], v)
<1> DEFINE Goal == view'[t] \in {view[t], NoView}
                   \/ \E v \in Copies : view'[t] = Merge(view[t], v)
<1> SUFFICES Goal
    OBVIOUS
<1>0. view \in [Tabs -> Views \cup {NoView}]
    BY DEF PageInv, Ranges
<1>1. view' = view => Goal
    OBVIOUS
<1>2. ASSUME NEW u \in Tabs, NEW v \in Copies, NEW ok \in BOOLEAN, Accept(u, ok, v) PROVE Goal
    BY <1>0, <1>2 DEF Accept
<1> HIDE DEF Goal
<1>3. ASSUME NEW u \in Tabs, NEW leg \in Legs, Submit(u, leg) PROVE Goal
    BY <1>1, <1>3 DEF Submit
<1>4. ASSUME NEW u \in Tabs, NEW goal \in {"connect", "payload"}, Connect(u, goal) PROVE Goal
    BY <1>1, <1>4 DEF Connect
<1>5. ASSUME NEW u \in Tabs,
             Connected(u) \/ ConnectRejected(u) \/ Recover(u) \/ GiveUp(u) \/ Read(u)
      PROVE  Goal
    BY <1>1, <1>5 DEF Connected, ConnectRejected, Recover, GiveUp, Read
<1>6. ASSUME NEW u \in Tabs, Answer(u) PROVE Goal
    <2>1. \/ view' = view
          \/ tab[u].reply.kind = "view" /\ \E ok \in BOOLEAN : Accept(u, ok, tab[u].reply.view)
        BY <1>6 DEF Answer
    <2>2. tab[u].reply.kind = "view" => tab[u].reply.view \in Copies
        BY NoneOfThem DEF PageInv, Ranges, Copies, Held
    <2>3. CASE tab[u].reply.kind = "view" /\ \E ok \in BOOLEAN : Accept(u, ok, tab[u].reply.view)
        <3>1. PICK v \in Copies : v = tab[u].reply.view
            BY <2>2, <2>3
        <3> QED BY <1>2, <2>3, <3>1
    <2> QED BY <1>1, <2>1, <2>3
<1>7. ASSUME NEW u \in Tabs, Loaded(u) PROVE Goal
    <2>1. PICK v \in reads[u], ok \in BOOLEAN : Accept(u, ok, v)
        BY <1>7 DEF Loaded
    <2>2. v \in Copies
        BY NoneOfThem DEF PageInv, Ranges, Copies, Held
    <2> QED BY <1>2, <2>1, <2>2
<1>8. ASSUME NEW u \in Tabs, Reload(u) PROVE Goal
    BY <1>0, <1>8 DEF Reload, Goal
<1>9. ASSUME NEW id \in Ids, Approve(id) \/ Refuse(id) PROVE Goal
    BY <1>1, <1>9 DEF Approve, Refuse
<1>10. ASSUME NEW m \in posts, Serve(m) PROVE Goal
    BY <1>1, <1>10 DEF Serve
<1>11. CASE Plans \/ Finishes \/ Restart \/ UNCHANGED vars
    BY <1>1, <1>11 DEF Plans, Finishes, Restart, vars
<1> QED BY <1>3, <1>4, <1>5, <1>6, <1>7, <1>8, <1>9, <1>10, <1>11 DEF Next

LEMMA PageGoesForward ==
    ASSUME PageInv, [Next]_vars, NEW t \in Tabs, view[t].revision # 0, view'[t].revision # 0
    PROVE  /\ ~view[t].active => ~view'[t].active
           /\ CompletedSteps(view'[t].stage) >= CompletedSteps(view[t].stage)
<1>1. view[t] \in Views /\ view[t] # NoView /\ view[t] \in Copies /\ view'[t] # NoView
    BY NoneOfThem DEF PageInv, Ranges, Copies, Held
<1>2. CASE view'[t] = view[t]
    <2>1. CompletedSteps(view[t].stage) \in Nat
        BY <1>1, StageSteps DEF Views
    <2> QED BY <1>2, <2>1
<1>3. CASE \E v \in Copies : view'[t] = Merge(view[t], v)
    <2>1. PICK v \in Copies : view'[t] = Merge(view[t], v)
        BY <1>3
    <2>2. /\ Merge(view[t], v) \in Views
          /\ CompletedSteps(view[t].stage) <= CompletedSteps(Merge(view[t], v).stage)
          /\ ~view[t].active => ~Merge(view[t], v).active
        BY <1>1, Merged DEF PageInv
    <2>3. CompletedSteps(view[t].stage) \in Nat /\ CompletedSteps(view'[t].stage) \in Nat
        BY <1>1, <2>1, <2>2, StageSteps DEF Views
    <2> QED BY <2>1, <2>2, <2>3
<1> QED BY <1>1, <1>2, <1>3, PageMerges

\* mergeHistory: an answer that is late never shows a revoked run as usable again.
THEOREM RevokedStaysRevoked == Spec => TrustNeverRestored
<1>1. PageInv /\ [Next]_vars =>
          [\A t \in Tabs : view[t].revision # 0 /\ view'[t].revision # 0 /\ ~view[t].active
               => ~view'[t].active]_vars
    BY PageGoesForward
<1> QED BY <1>1, PageInvariance, PTL DEF Spec, TrustNeverRestored

\* An answer that is late never takes a page back behind a step it has shown.
THEOREM StepsStayShown == Spec => NeverShowsLess
<1>1. PageInv /\ [Next]_vars =>
          [\A t \in Tabs : view[t].revision # 0 /\ view'[t].revision # 0
               => CompletedSteps(view'[t].stage) >= CompletedSteps(view[t].stage)]_vars
    BY PageGoesForward
<1> QED BY <1>1, PageInvariance, PTL DEF Spec, NeverShowsLess

(***************************************************************************)
(* The marker and the wallet, where there are locks                        *)
(***************************************************************************)

LEMMA MarkerFields ==
    ASSUME Ranges
    PROVE  /\ NoMarker.id = 0 /\ 0 \notin Ids
           /\ stored.id = 0 <=> stored = NoMarker
           /\ \A id \in prompts \cup sent : id \in Ids /\ id # 0
BY DEF Ranges, Markers, NoMarker, Ids

LEMMA OpenUndecided == Open => ~Decided
BY StageSteps DEF Open, Decided

LEMMA Undecided ==
    ASSUME Ranges
    PROVE  Decided <=> server.stage \in {"DECIDED", "EXECUTING", "EXECUTED"}
BY StageSteps DEF Ranges, Flows, Stages, Decided

\* With locks, a task that runs or starts is alone.
LEMMA OthersIdle ==
    ASSUME PageInv, HasLocks, NEW t \in Tabs, MayStart(t) \/ Working(t)
    PROVE  \A u \in Tabs : u # t => tab[u].at = "idle"
BY DEF PageInv, Alone, MayStart, Working

\* Only a confirmed decision makes a page forget the marker of a decision.
LEMMA Reconciled ==
    ASSUME PageInv, NEW t \in Tabs, NEW v \in Copies, NEW ok \in BOOLEAN, Accept(t, ok, v)
    PROVE  stored' = stored \/ (stored' = NoMarker /\ (stored.kind = "decision" => Decided))
<1> DEFINE merged == Merge(view[t], v)
<1>1. view[t] = NoView \/ view[t] \in Copies
    BY NoneOfThem DEF PageInv, Ranges, Copies, Held
<1>2. /\ merged \in Views /\ merged.revision <= server.revision
      /\ Ordered(merged, Shown)
    BY <1>1, Merged DEF PageInv, Copies
<1>3. stored' \in {stored, Reconcile(stored, merged)}
    BY DEF Accept, Persist
<1> HIDE DEF merged
<1>4. CompletedSteps(merged.stage) <= CompletedSteps(server.stage)
    BY <1>2, ShownFields DEF Ordered, PageInv, Ranges
<1>5. CompletedSteps(merged.stage) \in Nat /\ CompletedSteps(server.stage) \in Nat
    BY <1>2, StageSteps DEF Views, PageInv, Ranges, Flows
<1>6. stored.kind = "decision" /\ Reconcile(stored, merged) # stored
          => CompletedSteps(merged.stage) > 2
    BY DEF Reconcile, Requires
<1>7. Reconcile(stored, merged) \in {stored, NoMarker}
    BY DEF Reconcile
<1> QED BY <1>3, <1>4, <1>5, <1>6, <1>7 DEF Decided

\* What a page may do to the marker without the wallet.
LEMMA MarkerKept ==
    ASSUME Ranges, MarkerInv, WalletInv, ReceivedKept,
           UNCHANGED <<server, nextId, prompts, sent, received>>,
           stored' = stored \/ (stored' = NoMarker /\ (stored.kind = "decision" => Decided)),
           busy' # NoRequest => /\ busy # NoRequest /\ busy'.call = busy.call
                                /\ busy'.hash = busy.hash
    PROVE  /\ MarkerInv' /\ WalletInv' /\ ReceivedKept'
           /\ Decided' = Decided /\ Open' = Open
           /\ \A id : Marks(id) => Marks(id)' \/ Decided
<1>1. Decided' = Decided /\ Open' = Open
    BY DEF Decided, Open
<1>2. ASSUME NEW id, Marks(id) PROVE Marks(id)' \/ Decided
    BY <1>2 DEF Marks
<1>3. stored' = stored => (\A id : Marks(id)' = Marks(id))
    BY DEF Marks
<1>4. MarkerInv'
    <2>1. CASE stored' = stored
        BY <1>3, <2>1 DEF MarkerInv
    <2>2. CASE stored' = NoMarker
        <3>1. nextId \in Nat /\ 0 < nextId
            BY BrowserAssumption DEF Ranges
        <3> QED BY <2>2, <3>1, MarkerFields DEF MarkerInv
    <2> QED BY <2>1, <2>2
<1>5. WalletInv'
    <2>1. \A id \in prompts' : Open' /\ Marks(id)'
        BY <1>1, <1>2, OpenUndecided DEF WalletInv
    <2>2. \A id \in sent' : IF Decided' THEN server'.hash = id ELSE Marks(id)'
        BY <1>1, <1>2 DEF WalletInv
    <2>3. busy' # NoRequest /\ busy'.call = "receipt" =>
              busy'.hash \in sent' /\ server'.hash = busy'.hash
        BY DEF WalletInv
    <2> QED BY <2>1, <2>2, <2>3 DEF WalletInv
<1>6. ReceivedKept'
    <2> SUFFICES ASSUME NEW id \in received'
                 PROVE  \/ stored'.id # 0 /\ stored'.hash = id
                        \/ server'.hash = id
        BY DEF ReceivedKept
    <2>1. \/ stored.id # 0 /\ stored.hash = id
          \/ server.hash = id
        BY DEF ReceivedKept
    <2>2. CASE stored' # stored /\ stored.id # 0 /\ stored.hash = id
        <3>1. id \in sent /\ id # 0
            BY MarkerFields DEF Ranges
        <3>2. stored.kind = "decision"
            BY <2>2, <3>1 DEF MarkerInv, Marks
        <3> QED BY <2>2, <3>1, <3>2 DEF WalletInv
    <2> QED BY <2>1, <2>2
<1> QED BY <1>1, <1>2, <1>4, <1>5, <1>6

\* A marker is made, where there was none.
LEMMA MarkerBegun ==
    ASSUME PageInv, MarkerInv, WalletInv, ReceivedKept, NEW t \in Tabs, NEW leg \in Legs,
           Begin(t, TRUE, leg), UNCHANGED <<server, busy, prompts, sent, received>>
    PROVE  /\ MarkerInv' /\ WalletInv' /\ ReceivedKept'
           /\ nextId \notin prompts \cup sent
           /\ \A id : id = nextId /\ leg = "decision" => Marks(id)'
<1>1. /\ stored' \in Markers /\ stored'.id = nextId /\ stored'.kind = leg
      /\ stored'.hash = 0 /\ nextId \in Ids /\ nextId' = nextId + 1
    BY BeginTyped DEF PageInv
<1>2. stored = NoMarker /\ stored.id = 0
    BY MarkerFields DEF Begin, PageInv
<1>3. \A id \in prompts \cup sent : id \in Nat /\ id # 0 /\ id < nextId
    BY MarkerFields DEF MarkerInv, PageInv, Ids
<1>4. prompts = {}
    BY <1>2, <1>3 DEF WalletInv, Marks
<1>5. \A id \in sent : Decided
    BY <1>2, <1>3 DEF WalletInv, Marks
<1>6. Decided' = Decided
    BY DEF Decided
<1>7. MarkerInv'
    BY <1>1, <1>3 DEF MarkerInv, Ids
<1>8. WalletInv'
    BY <1>4, <1>5, <1>6 DEF WalletInv
<1>9. ReceivedKept'
    BY <1>2 DEF ReceivedKept
<1>10. nextId \notin prompts \cup sent
    BY <1>1, <1>3 DEF Ids
<1> QED BY <1>1, <1>7, <1>8, <1>9, <1>10 DEF Marks

(***************************************************************************)
(* One lemma for each step of a page                                       *)
(***************************************************************************)

\* What a task relies on does not depend on tasks elsewhere, if they are idle.
LEMMA IdleTask ==
    ASSUME NEW u, tab'[u].at \in {"idle", "request"}
    PROVE  TaskInv(u)'
BY DEF TaskInv

LEMMA NothingLocked ==
    ASSUME LockedInv, UNCHANGED <<server, busy, posts, stored, nextId, tab, prompts, sent, received>>
    PROVE  LockedInv'
BY DEF LockedInv, MarkerInv, WalletInv, ReceivedKept, TaskInv, PostInv, Marks, Open, Decided

LEMMA SubmitLocked ==
    ASSUME PageInv, LockedInv, HasLocks, NEW t \in Tabs, NEW leg \in Legs, Submit(t, leg)
    PROVE  LockedInv'
<1>a. CASE Begin(t, FALSE, leg) /\ UNCHANGED <<posts, tab>>
    BY <1>a, NothingLocked DEF Submit, Begin, Persist, serverVars, walletVars
<1>b. SUFFICES ASSUME Begin(t, TRUE, leg), Post(t, leg, nextId, 0),
                      tab' = [tab EXCEPT ![t] = Waiting]
               PROVE  LockedInv'
    BY <1>a DEF Submit
<1>1. /\ Begin(t, TRUE, leg) /\ Post(t, leg, nextId, 0) /\ MayStart(t)
      /\ leg \in {"propose", "execute"} /\ tab' = [tab EXCEPT ![t] = Waiting]
      /\ UNCHANGED <<server, busy, prompts, sent, received>>
    BY <1>b DEF Submit, MayClick, serverVars, walletVars
<1>2. MarkerInv' /\ WalletInv' /\ ReceivedKept'
    BY <1>1, MarkerBegun DEF LockedInv
<1>3. \A u \in Tabs : tab[u].at = "idle"
    BY <1>1, OthersIdle DEF MayStart, Working
<1>4. \A u \in Tabs : tab'[u].at \in {"idle", "request"}
    BY <1>1, <1>3, TaskValues DEF PageInv, Ranges
<1>5. \A u \in Tabs : TaskInv(u)'
    BY <1>4, IdleTask
<1>6. ASSUME NEW m \in posts' PROVE PostInv(m)'
    <2>1. CASE m \in posts
        <3>1. m.call = "payload" => m.from = Nobody
            BY <1>3, <2>1 DEF PageInv, PostsHaveTasks, Waits, Ranges, Requests
        <3> QED BY <1>1, <2>1, <3>1 DEF PostInv, LockedInv
    <2>2. CASE m \notin posts
        <3>1. m.call = leg
            BY <1>1, <2>2 DEF Post
        <3> QED BY <1>1, <3>1 DEF PostInv
    <2> QED BY <2>1, <2>2
<1> QED BY <1>2, <1>5, <1>6 DEF LockedInv

LEMMA ConnectLocked ==
    ASSUME PageInv, LockedInv, HasLocks, NEW t \in Tabs, NEW goal \in {"connect", "payload"},
           Connect(t, goal)
    PROVE  LockedInv'
<1>1. /\ UNCHANGED <<server, busy, posts, stored, nextId, prompts, sent, received>>
      /\ MayStart(t)
      /\ tab' = [tab EXCEPT ![t] = [Idle EXCEPT !.at = "connect", !.goal = goal,
                                                !.previous = stored.id]]
    BY DEF Connect, MayClick, serverVars, walletVars
<1>2. MarkerInv' /\ WalletInv' /\ ReceivedKept'
    BY <1>1, MarkerKept DEF LockedInv, PageInv
<1>3. tab'[t].at = "connect" /\ tab'[t].previous = stored.id
    BY <1>1 DEF PageInv, Ranges, Idle
<1>4. TaskInv(t)'
    BY <1>1, <1>3 DEF TaskInv
<1>5. \A u \in Tabs : u # t => tab'[u].at = "idle"
    BY <1>1, OthersIdle DEF PageInv, Ranges
<1>6. \A u \in Tabs : TaskInv(u)'
    BY <1>4, <1>5, IdleTask
<1>7. \A m \in posts' : PostInv(m)'
    BY <1>1 DEF LockedInv, PostInv, Marks, Decided
<1> QED BY <1>2, <1>6, <1>7 DEF LockedInv

\* A task that runs ends, or asks for something; no other runs.
LEMMA TasksQuiet ==
    ASSUME PageInv, HasLocks, NEW t \in Tabs, Working(t) \/ MayStart(t), NEW x \in Tasks,
           tab' = [tab EXCEPT ![t] = x], x.at \in {"idle", "request"}
    PROVE  \A u \in Tabs : TaskInv(u)'
<1>1. \A u \in Tabs : tab'[u].at \in {"idle", "request"}
    BY OthersIdle DEF PageInv, Ranges
<1> QED BY <1>1, IdleTask

\* While a task runs that has no request, no request of a task is on its way.
LEMMA NoPayloads ==
    ASSUME PageInv, HasLocks, NEW t \in Tabs, Working(t) \/ MayStart(t), tab[t].at # "request",
           NEW m \in posts
    PROVE  m.from = Nobody
<1>1. m.from \in Tabs \cup {Nobody} /\ Waits(m)
    BY DEF PageInv, PostsHaveTasks, Ranges, Requests
<1>2. \A u \in Tabs : tab[u].at # "request"
    BY OthersIdle
<1> QED BY <1>1, <1>2 DEF Waits

LEMMA ConnectedLocked ==
    ASSUME PageInv, LockedInv, HasLocks, NEW t \in Tabs, Connected(t)
    PROVE  LockedInv'
<1>1. tab[t].at = "connect" /\ Working(t) /\ tab[t] \in Tasks
    BY DEF Connected, Working, PageInv, Ranges
<1>2. UNCHANGED <<server, busy, prompts, sent, received>>
    BY DEF Connected, serverVars, walletVars
<1>a. ASSUME tab' = [tab EXCEPT ![t] = Idle], UNCHANGED <<posts, stored, nextId>>
      PROVE  LockedInv'
    <2>2. MarkerInv' /\ WalletInv' /\ ReceivedKept'
        BY <1>2, <1>a, MarkerKept DEF LockedInv, PageInv
    <2>3. \A u \in Tabs : TaskInv(u)'
        BY <1>1, <1>a, TaskValues, TasksQuiet
    <2>4. \A m \in posts' : PostInv(m)'
        BY <1>2, <1>a DEF LockedInv, PostInv, Marks, Decided
    <2> QED BY <2>2, <2>3, <2>4 DEF LockedInv
<1>3. CASE tab[t].goal = "payload" /\ stored = NoMarker
    <2>a. CASE Begin(t, FALSE, "decision") /\ tab' = [tab EXCEPT ![t] = Idle] /\ UNCHANGED posts
        BY <1>a, <2>a DEF Begin, Persist
    <2>b. SUFFICES ASSUME Begin(t, TRUE, "decision"), Post(t, "payload", nextId, 0),
                          tab' = [tab EXCEPT ![t].at = "request", ![t].goal = "none",
                                             ![t].id = nextId]
                   PROVE  LockedInv'
        BY <1>3, <2>a DEF Connected
    <2>1. /\ Begin(t, TRUE, "decision") /\ Post(t, "payload", nextId, 0)
          /\ tab' = [tab EXCEPT ![t].at = "request", ![t].goal = "none", ![t].id = nextId]
        BY <2>b
    <2>2. /\ MarkerInv' /\ WalletInv' /\ ReceivedKept'
          /\ nextId \notin prompts \cup sent
          /\ \A id : id = nextId => Marks(id)'
        BY <1>2, <2>1, MarkerBegun DEF LockedInv, Legs
    <2>3. \A u \in Tabs : tab'[u].at \in {"idle", "request"}
        BY <1>1, <2>1, OthersIdle DEF PageInv, Ranges
    <2>4. \A u \in Tabs : TaskInv(u)'
        BY <2>3, IdleTask
    <2>5. ASSUME NEW m \in posts' PROVE PostInv(m)'
        <3>1. CASE m \in posts
            BY <1>1, <1>2, <3>1, NoPayloads DEF PostInv, LockedInv
        <3>2. CASE m \notin posts
            <4>1. m.call = "payload" /\ m.id = nextId
                BY <2>1, <3>2 DEF Post
            <4> QED BY <1>2, <2>2, <4>1 DEF PostInv
        <3> QED BY <3>1, <3>2
    <2> QED BY <2>2, <2>4, <2>5 DEF LockedInv
<1>4. CASE ~(tab[t].goal = "payload" /\ stored = NoMarker)
    BY <1>a, <1>4 DEF Connected
<1> QED BY <1>3, <1>4

\* A refused connection leaves the marker alone: it is the one there was, or gone.
LEMMA ConnectRejectedLocked ==
    ASSUME PageInv, LockedInv, HasLocks, NEW t \in Tabs, ConnectRejected(t)
    PROVE  LockedInv'
<1>1. /\ tab[t].at = "connect" /\ Rejected(t)
      /\ UNCHANGED <<server, busy, posts, nextId, prompts, sent, received>>
    BY DEF ConnectRejected, serverVars, walletVars
<1>2. stored.id \in {0, tab[t].previous}
    BY <1>1 DEF LockedInv, TaskInv
<1>3. stored' = stored /\ tab' = [tab EXCEPT ![t] = Idle]
    BY <1>1, <1>2 DEF Rejected, RejectedCurrentWalletRequest
<1>4. MarkerInv' /\ WalletInv' /\ ReceivedKept'
    BY <1>1, <1>3, MarkerKept DEF LockedInv, PageInv
<1>5. \A u \in Tabs : TaskInv(u)'
    BY <1>1, <1>3, TaskValues, TasksQuiet DEF Working
<1>6. \A m \in posts' : PostInv(m)'
    BY <1>1, <1>3 DEF LockedInv, PostInv, Marks, Decided
<1> QED BY <1>4, <1>5, <1>6 DEF LockedInv

LEMMA RecoverLocked ==
    ASSUME PageInv, LockedInv, HasLocks, NEW t \in Tabs, Recover(t)
    PROVE  LockedInv'
<1>1. /\ UNCHANGED <<server, busy, stored, nextId, prompts, sent, received>> /\ MayStart(t)
    BY DEF Recover, serverVars, walletVars
<1>2. PICK hash \in IF stored.id # 0 /\ stored.hash # 0 THEN {stored.hash} ELSE {0} \cup sent :
          LET call == IF hash # 0 /\ view[t].stage \in {"DECISION_READY", "DECISION_PENDING"}
                      THEN "receipt" ELSE RecoverCall[RecoveryLeg(view[t].stage)]
          IN  /\ Post(t, call, 0, IF call = "receipt" THEN hash ELSE 0)
              /\ tab' = [tab EXCEPT ![t] = Waiting]
    BY DEF Recover
<1> DEFINE call == IF hash # 0 /\ view[t].stage \in {"DECISION_READY", "DECISION_PENDING"}
                   THEN "receipt" ELSE RecoverCall[RecoveryLeg(view[t].stage)]
<1>3. Post(t, call, 0, IF call = "receipt" THEN hash ELSE 0) /\ tab' = [tab EXCEPT ![t] = Waiting]
    BY <1>2
<1>4. call = "receipt" => hash \in sent
    <2>1. RecoveryLeg(view[t].stage) \in Legs
        BY DEF Recover, RecoveryLeg, Legs
    <2>2. call = "receipt" => hash # 0
        BY <2>1 DEF RecoverCall, Legs
    <2> QED BY <2>2 DEF LockedInv, MarkerInv
<1>5. call # "payload"
    BY DEF RecoverCall, RecoveryLeg, Recover
<1> HIDE DEF call
<1>6. MarkerInv' /\ WalletInv' /\ ReceivedKept'
    BY <1>1, MarkerKept DEF LockedInv, PageInv
<1>7. \A u \in Tabs : TaskInv(u)'
    BY <1>1, <1>3, TaskValues, TasksQuiet
<1>8. ASSUME NEW m \in posts' PROVE PostInv(m)'
    <2>1. CASE m \in posts
        BY <1>1, <2>1 DEF LockedInv, PostInv, Marks, Decided
    <2>2. CASE m \notin posts
        <3>1. m.call = call /\ (call = "receipt" => m.hash = hash)
            BY <1>3, <2>2 DEF Post
        <3> QED BY <1>1, <1>4, <1>5, <3>1 DEF PostInv
    <2> QED BY <2>1, <2>2
<1> QED BY <1>6, <1>7, <1>8 DEF LockedInv

LEMMA AnswerLocked ==
    ASSUME PageInv, LockedInv, HasLocks, NEW t \in Tabs, Answer(t)
    PROVE  LockedInv'
<1>1. /\ tab[t].at = "reply" /\ Working(t) /\ tab[t] \in Tasks
      /\ UNCHANGED <<server, busy, posts, nextId, reads, sent, received>>
    BY DEF Answer, Working, PageInv, Ranges, serverVars
<1>2. CASE tab[t].reply.kind = "error"
    <2>1. tab' = [tab EXCEPT ![t] = Idle] /\ UNCHANGED <<stored, prompts>>
        BY <1>2 DEF Answer
    <2>2. MarkerInv' /\ WalletInv' /\ ReceivedKept'
        BY <1>1, <2>1, MarkerKept DEF LockedInv, PageInv
    <2>3. \A u \in Tabs : TaskInv(u)'
        BY <1>1, <2>1, TaskValues, TasksQuiet
    <2>4. \A m \in posts' : PostInv(m)'
        BY <1>1, <2>1 DEF LockedInv, PostInv, Marks, Decided
    <2> QED BY <2>2, <2>3, <2>4 DEF LockedInv
<1>3. CASE tab[t].reply.kind = "payload"
    <2>1. PICK ok, noted \in BOOLEAN :
              /\ Patch(t, ok, "wallet", 0)
              /\ IF ok /\ noted
                 THEN /\ prompts' = prompts \cup {tab[t].id}
                      /\ tab' = [tab EXCEPT ![t].at = "prompt", ![t].reply = NoReply]
                 ELSE tab' = [tab EXCEPT ![t] = Idle] /\ UNCHANGED prompts
        BY <1>3 DEF Answer
    <2>2. PICK id : id = tab[t].id
        OBVIOUS
    <2>3. /\ Open /\ prompts = {} /\ sent = {}
          /\ id \in Ids /\ stored.id = id /\ stored.kind = "decision"
        BY <1>1, <1>3, <2>2 DEF LockedInv, TaskInv, Open, Marks, PageInv, Ranges
    <2>a. stored.hash = 0
        BY <2>3, MarkerFields DEF LockedInv, MarkerInv, PageInv
    <2>4. stored.id # 0 /\ stored'.id = id /\ stored'.kind = "decision" /\ stored'.hash = 0
        BY <2>1, <2>3, <2>a, PatchTyped, MarkerFields DEF PageInv
    <2>5. prompts' \subseteq {id} /\ sent' = {} /\ received' = {} /\ Open'
        BY <1>1, <2>1, <2>2, <2>3 DEF PageInv, Ranges, Open
    <2>6. MarkerInv'
        BY <1>1, <2>3, <2>4, <2>5 DEF LockedInv, MarkerInv
    <2>7. WalletInv'
        BY <1>1, <2>4, <2>5 DEF LockedInv, WalletInv, Marks
    <2>8. ReceivedKept'
        BY <2>5 DEF ReceivedKept
    <2>9. \A u \in Tabs : TaskInv(u)'
        <3>1. TaskInv(t)'
            <4>1. CASE ok /\ noted
                <5>1. /\ prompts' = prompts \cup {tab[t].id}
                      /\ tab' = [tab EXCEPT ![t].at = "prompt", ![t].reply = NoReply]
                    BY <2>1, <4>1
                <5> QED BY <1>1, <5>1 DEF TaskInv, PageInv, Ranges
            <4>2. CASE ~(ok /\ noted)
                BY <1>1, <2>1, <4>2, TaskValues DEF TaskInv, PageInv, Ranges
            <4> QED BY <4>1, <4>2
        <3>2. \A u \in Tabs : u # t => tab'[u].at = "idle"
            BY <1>1, <2>1, OthersIdle DEF PageInv, Ranges
        <3> QED BY <3>1, <3>2, IdleTask
    <2>10. \A m \in posts' : PostInv(m)'
        <3>1. \A m \in posts : m.from = Nobody
            BY <1>1, NoPayloads
        <3> QED BY <1>1, <3>1 DEF LockedInv, PostInv
    <2> QED BY <2>6, <2>7, <2>8, <2>9, <2>10 DEF LockedInv
<1>4. CASE tab[t].reply.kind = "view"
    <2>1. PICK ok \in BOOLEAN : /\ tab' = [tab EXCEPT ![t] = Idle] /\ UNCHANGED prompts
                               /\ Accept(t, ok, tab[t].reply.view)
        BY <1>4 DEF Answer
    <2>2. tab[t].reply.view \in Copies
        BY <1>4, NoneOfThem DEF PageInv, Ranges, Copies, Held
    <2>3. stored' = stored \/ (stored' = NoMarker /\ (stored.kind = "decision" => Decided))
        BY <2>1, <2>2, Reconciled
    <2>4. /\ MarkerInv' /\ WalletInv' /\ ReceivedKept' /\ Decided' = Decided
          /\ \A id : Marks(id) => Marks(id)' \/ Decided
        BY <1>1, <2>1, <2>3, MarkerKept DEF LockedInv, PageInv
    <2>5. \A u \in Tabs : TaskInv(u)'
        BY <1>1, <2>1, TaskValues, TasksQuiet
    <2>6. \A m \in posts' : PostInv(m)'
        BY <1>1, <2>1, <2>4 DEF LockedInv, PostInv
    <2> QED BY <2>4, <2>5, <2>6 DEF LockedInv
<1> QED BY <1>2, <1>3, <1>4 DEF Answer

LEMMA GiveUpLocked ==
    ASSUME PageInv, LockedInv, HasLocks, NEW t \in Tabs, GiveUp(t) \/ Reload(t)
    PROVE  LockedInv'
<1>1. /\ Dropped(t) /\ tab' = [tab EXCEPT ![t] = Idle]
      /\ UNCHANGED <<server, stored, nextId, prompts, sent, received>>
    BY DEF GiveUp, Reload, Dropped, walletVars
<1>2. busy' # NoRequest => /\ busy # NoRequest /\ busy'.call = busy.call
                           /\ busy'.hash = busy.hash
    <2>1. IF busy = NoRequest THEN busy' = busy ELSE Anonymous(busy, busy', t)
        BY <1>1, Dropping DEF PageInv
    <2> QED BY <2>1 DEF Anonymous, PageInv, Ranges, Requests
<1>3. MarkerInv' /\ WalletInv' /\ ReceivedKept'
    BY <1>1, <1>2, MarkerKept DEF LockedInv, PageInv
<1>4. \A u \in Tabs : TaskInv(u)'
    <2>1. TaskInv(t)'
        BY <1>1, TaskValues, IdleTask DEF PageInv, Ranges
    <2>2. \A u \in Tabs : u # t => TaskInv(u)'
        BY <1>1 DEF LockedInv, TaskInv, Open, Marks, PageInv, Ranges
    <2> QED BY <2>1, <2>2
<1>5. ASSUME NEW n \in posts' PROVE PostInv(n)'
    <2>1. PICK m \in posts : Anonymous(m, n, t)
        BY <1>1, Dropping DEF PageInv
    <2>2. m \in Requests /\ PostInv(m)
        BY DEF LockedInv, PageInv, Ranges
    <2>3. CASE m.from = t
        <3>1. n.from = Nobody /\ n.call = m.call /\ n.hash = m.hash
            BY <2>1, <2>2, <2>3 DEF Anonymous, Requests
        <3> QED BY <1>1, <2>2, <3>1 DEF PostInv
    <2>4. CASE m.from # t
        <3>1. n = m
            BY <2>1, <2>4 DEF Anonymous
        <3> QED BY <1>1, <2>2, <3>1 DEF PostInv, Marks, Decided
    <2> QED BY <2>3, <2>4
<1> QED BY <1>3, <1>4, <1>5 DEF LockedInv

LEMMA ReadLocked ==
    ASSUME PageInv, LockedInv, NEW t \in Tabs, Read(t)
    PROVE  LockedInv'
<1>1. UNCHANGED <<server, busy, posts, stored, nextId, tab, prompts, sent, received>>
    BY DEF Read, serverVars, walletVars
<1> QED BY <1>1 DEF LockedInv, MarkerInv, WalletInv, ReceivedKept, TaskInv, PostInv, Marks, Open,
   Decided

LEMMA LoadedLocked ==
    ASSUME PageInv, LockedInv, NEW t \in Tabs, Loaded(t)
    PROVE  LockedInv'
<1>1. UNCHANGED <<server, busy, posts, nextId, tab, prompts, sent, received>>
    BY DEF Loaded, serverVars, walletVars
<1>2. PICK v \in reads[t], ok \in BOOLEAN : Accept(t, ok, v)
    BY DEF Loaded
<1>3. v \in Copies
    BY NoneOfThem DEF PageInv, Ranges, Copies, Held
<1>4. stored' = stored \/ (stored' = NoMarker /\ (stored.kind = "decision" => Decided))
    BY <1>2, <1>3, Reconciled
<1>5. /\ MarkerInv' /\ WalletInv' /\ ReceivedKept' /\ Decided' = Decided /\ Open' = Open
      /\ \A id : Marks(id) => Marks(id)' \/ Decided
    BY <1>1, <1>4, MarkerKept DEF LockedInv, PageInv
<1>6. ASSUME NEW u \in Tabs PROVE TaskInv(u)'
    <2>1. PICK id : id = tab[u].id
        OBVIOUS
    <2>2. tab'[u].at = "connect" => stored'.id \in {0, tab'[u].previous}
        BY <1>1, <1>4, MarkerFields DEF LockedInv, TaskInv, PageInv
    <2>3. tab'[u].at = "reply" /\ tab'[u].reply.kind = "payload" =>
              Open' /\ prompts' = {} /\ Marks(id)'
        BY <1>1, <1>5, <2>1, OpenUndecided DEF LockedInv, TaskInv
    <2>4. Marks(id)' => Marks(tab[u].id)'
        BY <1>1, <2>1 DEF Marks
    <2> QED BY <1>1, <2>2, <2>3, <2>4 DEF LockedInv, TaskInv
<1>7. \A m \in posts' : PostInv(m)'
    BY <1>1, <1>5 DEF LockedInv, PostInv
<1> QED BY <1>5, <1>6, <1>7 DEF LockedInv

\* The authority sends what the marker waits for, and nothing was sent before.
LEMMA ApproveLocked ==
    ASSUME PageInv, LockedInv, HasLocks, NEW id \in Ids, Approve(id)
    PROVE  LockedInv'
<1>1. /\ id \in prompts /\ prompts' = prompts \ {id} /\ sent' = sent \cup {id}
      /\ UNCHANGED <<server, busy, nextId>>
    BY DEF Approve, serverVars
<1>2. /\ Open /\ sent = {} /\ stored.id = id /\ stored.kind = "decision" /\ id # 0
      /\ \A other \in prompts : other = id
    BY <1>1, MarkerFields DEF LockedInv, WalletInv, Open, Marks, PageInv
<1>3. /\ prompts' = {} /\ sent' = {id} /\ ~Decided /\ ~Decided' /\ received = {}
      /\ server.hash = 0
    BY <1>1, <1>2, OpenUndecided DEF LockedInv, WalletInv, PageInv, Ranges, Decided
<1>4. busy # NoRequest => busy.call # "receipt"
    BY <1>2 DEF LockedInv, WalletInv
<1>5. ASSUME stored'.id = id, stored'.kind = "decision", stored'.hash \in {0, id}
      PROVE  MarkerInv' /\ WalletInv'
    <2>1. MarkerInv'
        BY <1>1, <1>2, <1>3, <1>5 DEF LockedInv, MarkerInv, Marks
    <2>2. WalletInv'
        BY <1>1, <1>3, <1>4, <1>5 DEF WalletInv, Marks
    <2> QED BY <2>1, <2>2
<1>8. stored.hash \in {0, id}
    <2>1. stored \in Markers
        BY <1>2 DEF PageInv, Ranges, NoMarker
    <2> QED BY <1>2, <2>1 DEF LockedInv, MarkerInv
<1>6. CASE Asking(id) = {}
    <2>1. UNCHANGED <<posts, stored, tab, received>>
        BY <1>6 DEF Approve
    <2>3. ReceivedKept'
        BY <1>3, <2>1 DEF ReceivedKept
    <2>4. ASSUME NEW u \in Tabs PROVE TaskInv(u)'
        <3>1. ~(tab[u].at = "reply" /\ tab[u].reply.kind = "payload")
            BY <1>1 DEF LockedInv, TaskInv
        <3>2. tab[u].at # "prompt"
            BY <1>2, <1>6 DEF LockedInv, TaskInv, Asking
        <3> QED BY <2>1, <3>1, <3>2 DEF LockedInv, TaskInv
    <2>5. \A m \in posts' : PostInv(m)'
        BY <1>1, <1>2, <2>1 DEF LockedInv, PostInv, Marks, Decided
    <2> QED BY <1>2, <1>5, <1>8, <2>1, <2>3, <2>4, <2>5 DEF LockedInv
<1>7. CASE Asking(id) # {}
    <2>1. PICK t \in Asking(id), ok, noted \in BOOLEAN :
              /\ Patch(t, ok, "submitted", id)
              /\ received' = IF ok THEN received \cup {id} ELSE received
              /\ IF ok /\ noted
                 THEN Post(t, "receipt", id, id) /\ tab' = [tab EXCEPT ![t] = Waiting]
                 ELSE tab' = [tab EXCEPT ![t] = Idle] /\ UNCHANGED posts
        BY <1>7 DEF Approve
    <2>2. t \in Tabs /\ tab[t].at = "prompt" /\ Working(t)
        BY DEF Asking, Working
    <2>3. /\ stored'.id = id /\ stored'.kind = "decision" /\ stored'.hash \in {0, id}
          /\ ok => stored'.hash = id
        BY <1>2, <1>8, <2>1, PatchTyped DEF PageInv
    <2>4. ReceivedKept'
        BY <1>2, <1>3, <2>1, <2>3 DEF ReceivedKept
    <2>5. \A u \in Tabs : TaskInv(u)'
        BY <2>1, <2>2, TaskValues, TasksQuiet
    <2>6. ASSUME NEW m \in posts' PROVE PostInv(m)'
        <3>1. CASE m \in posts
            BY <1>1, <2>2, <3>1, NoPayloads DEF LockedInv, PostInv
        <3>2. CASE m \notin posts
            <4>1. m.call = "receipt" /\ m.hash = id
                BY <2>1, <3>2 DEF Post
            <4> QED BY <1>3, <4>1 DEF PostInv
        <3> QED BY <3>1, <3>2
    <2> QED BY <1>5, <2>3, <2>4, <2>5, <2>6 DEF LockedInv
<1> QED BY <1>6, <1>7

LEMMA RefuseLocked ==
    ASSUME PageInv, LockedInv, HasLocks, NEW id \in Ids, Refuse(id)
    PROVE  LockedInv'
<1>1. /\ id \in prompts /\ prompts' = prompts \ {id}
      /\ UNCHANGED <<server, busy, posts, nextId, sent, received>>
    BY DEF Refuse, serverVars
<1>2. /\ Open /\ sent = {} /\ stored.id = id /\ id # 0
      /\ \A other \in prompts : other = id
    BY <1>1, MarkerFields DEF LockedInv, WalletInv, Open, Marks, PageInv
<1>3. /\ prompts' = {} /\ sent' = {} /\ received' = {}
    BY <1>1, <1>2 DEF PageInv, Ranges
<1>4. ASSUME stored' \in {stored, NoMarker} PROVE MarkerInv' /\ WalletInv' /\ ReceivedKept'
    <2>1. MarkerInv'
        <3>1. nextId \in Nat /\ 0 < nextId
            BY BrowserAssumption DEF PageInv, Ranges
        <3> QED BY <1>1, <1>2, <1>3, <1>4, <3>1, MarkerFields DEF LockedInv, MarkerInv, Marks,
           PageInv
    <2>2. WalletInv'
        BY <1>1, <1>3 DEF LockedInv, WalletInv
    <2> QED BY <1>3, <2>1, <2>2 DEF ReceivedKept
<1>5. CASE Asking(id) = {}
    <2>1. UNCHANGED <<stored, tab>>
        BY <1>5 DEF Refuse
    <2>2. ASSUME NEW u \in Tabs PROVE TaskInv(u)'
        <3>1. tab[u].at # "prompt"
            BY <1>2, <1>5 DEF LockedInv, TaskInv, Asking
        <3> QED BY <1>1, <1>3, <2>1, <3>1 DEF LockedInv, TaskInv, Open, Marks
    <2>3. \A m \in posts' : PostInv(m)'
        BY <1>1, <2>1 DEF LockedInv, PostInv, Marks, Decided
    <2> QED BY <1>4, <2>1, <2>2, <2>3 DEF LockedInv
<1>6. CASE Asking(id) # {}
    <2>1. PICK t \in Asking(id) : Rejected(t)
        BY <1>6 DEF Refuse
    <2>2. t \in Tabs /\ tab[t].at = "prompt" /\ Working(t)
        BY DEF Asking, Working
    <2>3. stored' \in {stored, NoMarker} /\ tab' = [tab EXCEPT ![t] = Idle]
        BY <2>1, <2>2, RejectedTyped DEF PageInv
    <2>4. \A u \in Tabs : TaskInv(u)'
        BY <2>2, <2>3, TaskValues, TasksQuiet
    <2>5. \A m \in posts' : PostInv(m)'
        BY <1>1, <2>2, NoPayloads DEF LockedInv, PostInv
    <2> QED BY <1>4, <2>3, <2>4, <2>5 DEF LockedInv
<1> QED BY <1>5, <1>6

(***************************************************************************)
(* One lemma for each step of the service                                  *)
(***************************************************************************)

\* Only its task learns of an answer, and other answers than payloads ask nothing.
LEMMA ServiceTasks ==
    ASSUME LockedInv, UNCHANGED <<stored, prompts, sent>>, Open => Open',
           NEW from, \A t \in Tabs : t # from => tab'[t] = tab[t],
           tab' = tab \/ (tab'[from].at = "reply" /\ tab'[from].reply.kind # "payload")
    PROVE  \A t \in Tabs : TaskInv(t)'
<1> SUFFICES ASSUME NEW t \in Tabs PROVE TaskInv(t)'
    OBVIOUS
<1>1. CASE tab'[t] = tab[t]
    BY <1>1 DEF LockedInv, TaskInv, Marks
<1>2. CASE tab'[t] # tab[t]
    BY <1>2 DEF TaskInv
<1> QED BY <1>1, <1>2

\* The flow moves on with the hash it has, and is decided only with one.
LEMMA FlowMoves ==
    ASSUME PageInv, LockedInv, UNCHANGED <<stored, nextId, prompts, sent, received>>,
           server'.hash = server.hash, posts' \subseteq posts,
           busy' # NoRequest /\ busy'.call = "receipt" =>
               busy'.hash \in sent /\ server.hash = busy'.hash,
           \/ server'.stage = server.stage
           \/ Decided /\ Decided'
           \/ /\ ~Decided /\ ~Decided'
              /\ server.stage = "DECISION_READY" => server'.stage = "DECISION_READY"
           \/ ~Decided /\ Decided' /\ server.hash # 0
    PROVE  /\ MarkerInv' /\ WalletInv' /\ ReceivedKept' /\ (Open => Open')
           /\ \A m \in posts' : PostInv(m)'
<1>1. (server'.stage = server.stage => Decided' = Decided) /\ (Decided => Decided')
    BY DEF Decided
<1>2. server.hash # 0 => server.hash \in sent
    BY DEF LockedInv, WalletInv
<1>3. Open => Open'
    BY <1>2, OpenUndecided DEF Open
<1>4. MarkerInv' /\ ReceivedKept'
    BY DEF LockedInv, MarkerInv, ReceivedKept, Marks
<1>5. WalletInv'
    <2>1. \A id \in prompts' : Open' /\ Marks(id)'
        BY <1>3 DEF LockedInv, WalletInv, Marks
    <2>2. ASSUME NEW id \in sent' PROVE IF Decided' THEN server'.hash = id ELSE Marks(id)'
        <3>1. Decided => server'.hash = id
            BY DEF LockedInv, WalletInv
        <3>2. ~Decided => Marks(id)'
            BY DEF LockedInv, WalletInv, Marks
        <3>3. ~Decided /\ Decided' => server'.hash = id
            BY <1>1, <1>2 DEF LockedInv, WalletInv
        <3> QED BY <1>1, <3>1, <3>2, <3>3
    <2> QED BY <2>1, <2>2 DEF LockedInv, WalletInv
<1>6. \A m \in posts' : PostInv(m)'
    BY <1>1 DEF LockedInv, PostInv, Marks
<1> QED BY <1>3, <1>4, <1>5, <1>6

LEMMA ServeLocked ==
    ASSUME PageInv, LockedInv, HasLocks, NEW m \in posts, Serve(m)
    PROVE  LockedInv'
<1>1. m \in Requests /\ Waits(m) /\ PostInv(m) /\ Ranges /\ m.from \in Tabs \cup {Nobody}
    BY DEF PageInv, Ranges, PostsHaveTasks, LockedInv, Requests
<1>2. /\ posts' = posts \ {m} /\ posts' \subseteq posts
      /\ UNCHANGED <<stored, nextId, prompts, sent, received>>
    BY DEF Serve, walletVars
<1>3. server.hash \in {0} \cup sent /\ server.stage \in Stages
    BY DEF LockedInv, WalletInv, PageInv, Ranges, Flows
<1>a. ASSUME NEW kind \in {"error", "view"}, NEW v \in Views \cup {NoView},
             kind = "view" => v \in Views, Reply(m, kind, v)
      PROVE  /\ \A t \in Tabs : t # m.from => tab'[t] = tab[t]
             /\ tab' = tab \/ (tab'[m.from].at = "reply" /\ tab'[m.from].reply.kind # "payload")
    BY <1>1, <1>a, ReplyTyped
<1>4. CASE Reply(m, "error", NoView) /\ UNCHANGED serverVars
    <2>1. server' = server /\ busy' = busy
        BY <1>4 DEF serverVars
    <2>2. /\ MarkerInv' /\ WalletInv' /\ ReceivedKept' /\ (Open => Open')
          /\ \A n \in posts' : PostInv(n)'
        BY <1>2, <2>1, FlowMoves DEF LockedInv, WalletInv
    <2>3. \A t \in Tabs : TaskInv(t)'
        BY <1>2, <1>4, <1>a, <2>2, ServiceTasks
    <2> QED BY <2>2, <2>3 DEF LockedInv
<1>5. CASE busy = NoRequest /\ UNCHANGED busy /\ (Recovers(m) \/ FailsWith(m))
    <2>1. /\ server'.hash = server.hash /\ Shown' \in Views /\ Reply(m, "view", Shown')
          /\ \/ server'.stage = server.stage
             \/ server'.stage = "PROPOSED" /\ server.stage \in {"PROPOSING", "PROPOSED"}
             \/ /\ server'.stage = "DECIDED" /\ server.hash # 0
                /\ server.stage \in {"DECISION_READY", "DECISION_PENDING"}
             \/ server'.stage = "EXECUTED" /\ server.stage = "EXECUTING"
        BY <1>1, <1>5, Recovering, Failing
    <2>2. \/ server'.stage = server.stage
          \/ Decided /\ Decided'
          \/ /\ ~Decided /\ ~Decided'
             /\ server.stage = "DECISION_READY" => server'.stage = "DECISION_READY"
          \/ ~Decided /\ Decided' /\ server.hash # 0
        BY <2>1, StageSteps DEF Decided
    <2>3. /\ MarkerInv' /\ WalletInv' /\ ReceivedKept' /\ (Open => Open')
          /\ \A n \in posts' : PostInv(n)'
        BY <1>2, <1>5, <2>1, <2>2, FlowMoves
    <2>4. PICK v : v = Shown'
        OBVIOUS
    <2>5. v \in Views /\ Reply(m, "view", v)
        BY <2>1, <2>4
    <2>6. \A t \in Tabs : TaskInv(t)'
        BY <1>2, <1>a, <2>3, <2>5, ServiceTasks
    <2> QED BY <2>3, <2>6 DEF LockedInv
<1>6. CASE busy = NoRequest /\ busy' = m /\ UNCHANGED tab /\ Accepts(m)
    <2>1. /\ server'.stage = server.stage /\ server'.hash = server.hash /\ m.call # "receipt"
        BY <1>1, <1>6, Accepting
    <2>2. /\ MarkerInv' /\ WalletInv' /\ ReceivedKept' /\ (Open => Open')
          /\ \A n \in posts' : PostInv(n)'
        BY <1>2, <1>6, <2>1, FlowMoves
    <2>3. \A t \in Tabs : TaskInv(t)'
        BY <1>2, <1>6, <2>2, ServiceTasks
    <2> QED BY <2>2, <2>3 DEF LockedInv
<1>7. CASE busy = NoRequest /\ busy' = m /\ UNCHANGED tab /\ AcceptsHash(m)
    <2>1. /\ server'.stage = "DECISION_PENDING" /\ server'.hash = m.hash
          /\ server.stage \in {"DECISION_READY", "DECISION_PENDING"}
          /\ server.hash \in {0, m.hash} /\ m.hash \in sent
        BY <1>1, <1>7, AcceptingHash DEF PostInv
    <2>2. sent # {} /\ prompts = {} /\ ~Decided /\ ~Decided' /\ ~Open
        BY <2>1, StageSteps DEF LockedInv, WalletInv, Open, Decided
    <2>3. MarkerInv'
        BY <1>2 DEF LockedInv, MarkerInv, Marks
    <2>4. WalletInv'
        BY <1>2, <1>7, <2>1, <2>2 DEF LockedInv, WalletInv, Marks
    <2>5. ReceivedKept'
        BY <1>2, <2>1 DEF LockedInv, WalletInv, ReceivedKept, PageInv, Ranges
    <2>6. \A t \in Tabs : TaskInv(t)'
        BY <1>2, <1>7, <2>2, ServiceTasks
    <2>7. \A n \in posts' : PostInv(n)'
        BY <1>2, <2>2 DEF LockedInv, PostInv, Marks
    <2> QED BY <2>3, <2>4, <2>5, <2>6, <2>7 DEF LockedInv
<1>8. CASE busy = NoRequest /\ UNCHANGED busy /\ IssuesPayload(m)
    <2>1. /\ server'.stage = "DECISION_READY" /\ server'.hash = server.hash
          /\ server.stage \in {"PROPOSED", "DECISION_READY"} /\ sent = {}
          /\ m.call = "payload" /\ Reply(m, "payload", NoView)
        BY <1>1, <1>8, Issuing
    <2>2. ~Decided /\ ~Decided' /\ Open'
        BY <1>2, <2>1, StageSteps DEF Decided, Open
    <2>3. /\ MarkerInv' /\ WalletInv' /\ ReceivedKept'
          /\ \A n \in posts' : PostInv(n)'
        BY <1>2, <1>8, <2>1, <2>2, FlowMoves
    <2>4. m.from # Nobody => m.id \notin prompts \cup sent /\ Marks(m.id)
        BY <1>1, <2>1, <2>2 DEF PostInv
    <2>5. m.from # Nobody => prompts = {}
        BY <2>4 DEF LockedInv, WalletInv, Marks
    <2>6. /\ \A t \in Tabs : t # m.from => tab'[t] = tab[t]
          /\ m.from = Nobody => tab' = tab
          /\ m.from # Nobody => tab'[m.from].at = "reply" /\ tab'[m.from].id = tab[m.from].id
        BY <1>1, <2>1, ReplyTyped DEF Waits
    <2>7. ASSUME NEW t \in Tabs PROVE TaskInv(t)'
        <3>1. CASE tab'[t] = tab[t]
            BY <1>2, <2>2, <3>1 DEF LockedInv, TaskInv, Marks
        <3>2. CASE tab'[t] # tab[t]
            <4>1. t = m.from /\ m.from # Nobody /\ tab'[t].at = "reply" /\ tab'[t].id = m.id
                BY <1>1, <2>1, <2>6, <3>2 DEF Waits
            <4> QED BY <1>2, <2>2, <2>4, <2>5, <4>1 DEF TaskInv, Marks
        <3> QED BY <3>1, <3>2
    <2> QED BY <2>3, <2>7 DEF LockedInv
<1> QED BY <1>4, <1>5, <1>6, <1>7, <1>8 DEF Serve

LEMMA PlansLocked ==
    ASSUME PageInv, LockedInv, Plans
    PROVE  LockedInv'
<1>1. UNCHANGED <<busy, posts, stored, nextId, tab, prompts, sent, received>>
    BY DEF Plans, walletVars
<1>2. /\ server'.hash = server.hash /\ busy.call # "receipt"
      /\ \/ Decided /\ Decided'
         \/ ~Decided /\ ~Decided' /\ server.stage # "DECISION_READY"
    BY Planning, StageSteps DEF Decided
<1>3. /\ MarkerInv' /\ WalletInv' /\ ReceivedKept' /\ (Open => Open')
      /\ \A m \in posts' : PostInv(m)'
    BY <1>1, <1>2, FlowMoves
<1>4. \A t \in Tabs : TaskInv(t)'
    BY <1>1, <1>3, ServiceTasks
<1> QED BY <1>3, <1>4 DEF LockedInv

LEMMA FinishesLocked ==
    ASSUME PageInv, LockedInv, Finishes
    PROVE  LockedInv'
<1>1. /\ busy # NoRequest /\ busy' = NoRequest
      /\ UNCHANGED <<posts, stored, nextId, prompts, sent, received>>
    BY DEF Finishes, walletVars
<1>2. /\ Advances(server') /\ server'.hash = server.hash /\ busy \in Requests
      /\ Shown' \in Views /\ Reply(busy, "view", Shown')
      /\ \/ server'.stage = server.stage
         \/ busy.call = "propose" /\ server'.stage = "PROPOSED"
         \/ busy.call = "execute" /\ CompletedSteps(server.stage) = 3
         \/ busy.call = "receipt" /\ server.stage = "DECISION_PENDING"
    BY Finishing
<1>3. busy.call = "receipt" => server.hash # 0
    BY <1>1, MarkerFields DEF LockedInv, WalletInv, PageInv
<1>4. CompletedSteps(server.stage) \in Nat /\ CompletedSteps(server'.stage) \in Nat
    BY <1>2, StageSteps DEF Advances, PageInv, Ranges, Flows
<1>5. \/ server'.stage = server.stage
      \/ Decided /\ Decided'
      \/ /\ ~Decided /\ ~Decided'
         /\ server.stage = "DECISION_READY" => server'.stage = "DECISION_READY"
      \/ ~Decided /\ Decided' /\ server.hash # 0
    <2>1. busy.call = "propose" => server.stage \in {"REVIEWED", "PROPOSING"}
        BY <1>1 DEF PageInv, BusyStage
    <2>2. CASE busy.call = "propose" /\ server'.stage = "PROPOSED"
        BY <2>1, <2>2, StageSteps DEF Decided
    <2>3. CASE busy.call = "execute" /\ CompletedSteps(server.stage) = 3
        BY <1>2, <1>4, <2>3 DEF Decided, Advances
    <2>4. CASE busy.call = "receipt" /\ server.stage = "DECISION_PENDING"
        BY <1>3, <2>4, StageSteps DEF Decided
    <2> QED BY <1>2, <2>2, <2>3, <2>4
<1>6. /\ MarkerInv' /\ WalletInv' /\ ReceivedKept' /\ (Open => Open')
      /\ \A m \in posts' : PostInv(m)'
    BY <1>1, <1>2, <1>5, FlowMoves
<1>7. PICK b, v : b = busy /\ v = Shown'
    OBVIOUS
<1>8. b \in Requests /\ v \in Views /\ Reply(b, "view", v) /\ Ranges
    BY <1>2, <1>7 DEF PageInv
<1>9. /\ \A t \in Tabs : t # b.from => tab'[t] = tab[t]
      /\ tab' = tab \/ (tab'[b.from].at = "reply" /\ tab'[b.from].reply.kind # "payload")
    BY <1>8, ReplyTyped
<1>10. \A t \in Tabs : TaskInv(t)'
    BY <1>1, <1>6, <1>9, ServiceTasks
<1> QED BY <1>6, <1>10 DEF LockedInv

LEMMA RestartLocked ==
    ASSUME PageInv, LockedInv, Restart
    PROVE  LockedInv'
<1>1. /\ server' = [server EXCEPT !.active = FALSE] /\ busy' = NoRequest
      /\ UNCHANGED <<posts, stored, nextId, prompts, sent, received>>
    BY DEF Restart, walletVars
<1>2. server'.stage = server.stage /\ server'.hash = server.hash
    BY <1>1 DEF PageInv, Ranges, Flows
<1>3. /\ MarkerInv' /\ WalletInv' /\ ReceivedKept' /\ (Open => Open')
      /\ \A m \in posts' : PostInv(m)'
    BY <1>1, <1>2, FlowMoves
<1>4. PICK b : b = busy
    OBVIOUS
<1>5. /\ \A t \in Tabs : t # b.from => tab'[t] = tab[t]
      /\ tab' = tab \/ (tab'[b.from].at = "reply" /\ tab'[b.from].reply.kind # "payload")
    <2>1. CASE busy = NoRequest
        BY <2>1 DEF Restart
    <2>2. CASE busy # NoRequest
        <3>1. b \in Requests /\ Reply(b, "error", NoView) /\ Ranges
            BY <1>4, <2>2 DEF Restart, Reply, PageInv, Ranges
        <3> QED BY <3>1, ReplyTyped
    <2> QED BY <2>1, <2>2
<1>6. \A t \in Tabs : TaskInv(t)'
    BY <1>1, <1>3, <1>5, ServiceTasks
<1> QED BY <1>3, <1>6 DEF LockedInv

(***************************************************************************)
(* The invariant of the marker and the theorems                            *)
(***************************************************************************)

LEMMA InitLocked == Init => LockedInv
<1> SUFFICES ASSUME Init PROVE LockedInv
    OBVIOUS
<1>1. /\ stored = NoMarker /\ stored.id = 0 /\ nextId = 1 /\ prompts = {} /\ sent = {}
      /\ received = {} /\ posts = {} /\ busy = NoRequest /\ server.hash = 0
    BY DEF Init, NoMarker
<1>2. \A t \in Tabs : tab[t].at = "idle"
    BY TaskValues DEF Init
<1>3. MarkerInv
    BY <1>1 DEF MarkerInv
<1>4. WalletInv /\ ReceivedKept
    BY <1>1 DEF WalletInv, ReceivedKept
<1> QED BY <1>1, <1>2, <1>3, <1>4 DEF LockedInv, TaskInv

LEMMA NextLocked ==
    ASSUME PageInv, LockedInv, HasLocks, [Next]_vars
    PROVE  LockedInv'
<1>1. ASSUME NEW t \in Tabs, NEW leg \in Legs, Submit(t, leg) PROVE LockedInv'
    BY <1>1, SubmitLocked
<1>2. ASSUME NEW t \in Tabs, NEW goal \in {"connect", "payload"}, Connect(t, goal) PROVE LockedInv'
    BY <1>2, ConnectLocked
<1>3. ASSUME NEW t \in Tabs,
             \/ Connected(t) \/ ConnectRejected(t) \/ Recover(t) \/ Answer(t)
             \/ GiveUp(t) \/ Reload(t) \/ Read(t) \/ Loaded(t)
      PROVE  LockedInv'
    BY <1>3, ConnectedLocked, ConnectRejectedLocked, RecoverLocked, AnswerLocked, GiveUpLocked,
       ReadLocked, LoadedLocked
<1>4. ASSUME NEW id \in Ids, Approve(id) \/ Refuse(id) PROVE LockedInv'
    BY <1>4, ApproveLocked, RefuseLocked
<1>5. ASSUME NEW m \in posts, Serve(m) PROVE LockedInv'
    BY <1>5, ServeLocked
<1>6. CASE UNCHANGED vars
    BY <1>6 DEF vars, serverVars, walletVars, LockedInv, MarkerInv, WalletInv, ReceivedKept,
       TaskInv,
                PostInv, Marks, Open, Decided
<1> QED BY <1>1, <1>2, <1>3, <1>4, <1>5, <1>6, PlansLocked, FinishesLocked, RestartLocked DEF Next

\* In a browser with navigator.locks the marker follows the wallet.
THEOREM MarkerInvariance == ASSUME HasLocks PROVE Spec => []LockedInv
<1>1. PageInv /\ LockedInv /\ [Next]_vars => LockedInv'
    BY NextLocked
<1> QED BY <1>1, InitLocked, PageInvariance, PTL DEF Spec

\* The authority is never asked for a second decision while the wallet may still show
\* the first, or has sent it.
THEOREM OneDecisionIsAsked == ASSUME HasLocks PROVE Spec => []AskedOnce
<1>1. PageInv /\ LockedInv => AskedOnce
    <2> SUFFICES ASSUME PageInv, LockedInv PROVE AskedOnce
        OBVIOUS
    <2>1. \A id, other \in prompts \cup sent : id = other
        BY DEF LockedInv, WalletInv, Open, Marks
    <2>2. CASE prompts \cup sent = {}
        BY <2>2, FS_EmptySet DEF AskedOnce
    <2>3. CASE prompts \cup sent # {}
        <3>1. PICK id : id \in prompts \cup sent
            BY <2>3
        <3>2. prompts \cup sent = {id}
            BY <2>1, <3>1
        <3>3. Cardinality({id}) = 1
            BY FS_Singleton
        <3> QED BY <3>2, <3>3 DEF AskedOnce
    <2> QED BY <2>2, <2>3
<1> QED BY <1>1, PageInvariance, MarkerInvariance, PTL

\* A transaction hash that reached a page is in the marker or at the service; if
\* storage refused it, its marker stays until the service has it.
THEOREM HashesAreKept == ASSUME HasLocks PROVE Spec => []HashIsKept
<1>1. LockedInv /\ Refusals => HashIsKept
    BY DEF LockedInv, ReceivedKept, WalletInv, Marks, Refusals, HashIsKept
<1> QED BY <1>1, MarkerInvariance, RefusalsKept, PTL
=============================================================================
