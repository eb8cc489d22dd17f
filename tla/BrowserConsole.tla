--------------------------- MODULE BrowserConsole ---------------------------
(***************************************************************************)
(* The pages of the console: several tabs of one browser, the marker of    *)
(* the one unresolved request they share in localStorage, the journal      *)
(* copies each tab merges, the authority's wallet, and one flow of the     *)
(* service behind them (use-console.ts, console-state.ts,                  *)
(* console-request.ts, the handlers of page.tsx; the service is            *)
(* ConsoleService reduced to what its answers show).                       *)
(*                                                                         *)
(* Requests and answers are delayed at will, a tab gives up on a request   *)
(* that the service may still serve, tabs reload at any moment and the     *)
(* service restarts.  The browser may refuse any write to its storage.  A  *)
(* storage event reaches the other tabs before their next step, so the     *)
(* marker of localStorage and of workspaceRef is one; reading it does not  *)
(* fail.                                                                   *)
(* Deadlines are left out: they only disable buttons.                      *)
(* Analysis, review and funding requests are left out: their markers       *)
(* follow the same path.                                                   *)
(***************************************************************************)
EXTENDS Naturals, FiniteSets

CONSTANTS
    Tabs,
    Starts,             \* confirmed stages the flow is opened at
    MaxReads,           \* bound: answers on their way to a tab, at most 2
    MaxPosts,           \* bound: requests on their way
    MaxOperations,      \* bound: markers ever written
    MaxRevision,        \* bound: saves of the flow
    HasLocks            \* the browser has navigator.locks

ASSUME BrowserAssumption ==
    /\ Starts \subseteq {"REVIEWED", "PROPOSED", "DECIDED"} /\ MaxReads \in 1 .. 2
    /\ MaxPosts \in Nat \ {0}
    /\ MaxOperations \in Nat \ {0} /\ MaxRevision \in Nat \ {0}
    /\ HasLocks \in BOOLEAN

VARIABLES
    server,     \* the flow as saved by the service
    busy,       \* the request the service is working on
    posts,      \* requests on their way
    stored,     \* the marker in localStorage
    broken,     \* tabs that show storageError: a write of theirs was refused
    nextId,     \* the id of the next marker
    tab,        \* tab -> what its task is doing
    view,       \* tab -> historyRef: its copy of the flow
    reads,      \* tab -> journal and status answers on their way
    prompts,    \* markers whose wallet prompt is open
    sent,       \* markers whose decision the authority sent
    received,   \* markers whose hash reached the page and was stored
    lost        \* markers whose hash reached the page and was refused

serverVars == <<server, busy>>
walletVars == <<prompts, sent, received, lost>>
storageVars == <<stored, broken>>
vars == <<serverVars, posts, storageVars, nextId, tab, view, reads, walletVars>>

Legs == {"propose", "decision", "execute"}
Stages == {"REVIEWED", "PROPOSING", "PROPOSED", "DECISION_READY", "DECISION_PENDING",
           "DECIDED", "EXECUTING", "EXECUTED"}
Calls == {"propose", "execute", "payload", "receipt",
          "recover-propose", "recover-decision", "recover-execute"}
Ids == 1 .. MaxOperations
NoMarker == [id |-> 0]
Markers == [id: Ids, kind: Legs, phase: {"request", "wallet", "submitted"},
            base: 0 .. MaxRevision, hash: {0} \cup Ids]
Views == [revision: 1 .. MaxRevision, stage: Stages, active: BOOLEAN, error: BOOLEAN,
          prepared: SUBSET Legs]
NoView == [revision |-> 0]
Nobody == "nobody"
Requests == [call: Calls, id: {0} \cup Ids, hash: {0} \cup Ids, from: Tabs \cup {Nobody}]
NoRequest == [call |-> "none"]
NoReply == [kind |-> "none", view |-> NoView]
Idle == [at |-> "idle", goal |-> "none", id |-> 0, previous |-> 0, reply |-> NoReply]
Waiting == [Idle EXCEPT !.at = "request"]
Tasks == [at: {"idle", "connect", "request", "reply", "prompt"},
          goal: {"none", "connect", "payload"}, id: {0} \cup Ids, previous: {0} \cup Ids,
          reply: [kind: {"none", "error", "payload", "view"}, view: Views \cup {NoView}]]

Shown == [revision |-> server.revision, stage |-> server.stage, active |-> server.active,
          error |-> server.error, prepared |-> server.prepared]
Working(t) == tab[t].at # "idle"

\* The last conjunct: with locks, one tab at a time runs a task.
TypeOK ==
    /\ Shown \in Views /\ server.hash \in {0} \cup Ids
    /\ busy \in Requests \cup {NoRequest} /\ posts \subseteq Requests
    /\ stored \in Markers \cup {NoMarker} /\ nextId \in 1 .. MaxOperations + 1
    /\ tab \in [Tabs -> Tasks]
    /\ view \in [Tabs -> Views \cup {NoView}] /\ reads \in [Tabs -> SUBSET Views]
    /\ prompts \subseteq Ids /\ sent \subseteq Ids
    /\ broken \subseteq Tabs /\ received \subseteq sent /\ lost \subseteq sent
    /\ HasLocks => Cardinality({t \in Tabs : Working(t)}) <= 1

\* completedSteps
CompletedSteps(stage) ==
    CASE stage = "EXECUTED" -> 4
      [] stage \in {"DECIDED", "EXECUTING"} -> 3
      [] stage \in {"PROPOSED", "DECISION_READY", "DECISION_PENDING"} -> 2
      [] OTHER -> 1

\* The steps completed before a leg is requested.
Requires(leg) == CASE leg = "propose" -> 1 [] leg = "decision" -> 2 [] leg = "execute" -> 3

Init ==
    /\ \E start \in Starts :
          server = [revision |-> 1, stage |-> start, active |-> TRUE, error |-> FALSE,
                    prepared |-> {leg \in Legs : Requires(leg) < CompletedSteps(start)}, hash |-> 0]
    /\ busy = NoRequest /\ posts = {}
    /\ stored = NoMarker /\ broken = {} /\ nextId = 1
    /\ tab = [t \in Tabs |-> Idle]
    /\ view = [t \in Tabs |-> NoView] /\ reads = [t \in Tabs |-> {}]
    /\ prompts = {} /\ sent = {} /\ received = {} /\ lost = {}

(***************************************************************************)
(* What the page makes of a flow                                           *)
(***************************************************************************)

\* recoveryLeg
RecoveryLeg(stage) ==
    CASE stage \in {"EXECUTING", "EXECUTED"} -> "execute"
      [] stage \in {"DECISION_READY", "DECISION_PENDING", "DECIDED"} -> "decision"
      [] stage \in {"PROPOSING", "PROPOSED"} -> "propose"
      [] OTHER -> "none"

\* nextStep, where it offers a request: on an active flow at a confirmed stage.
NextStep(v) ==
    IF v.revision = 0 \/ ~v.active THEN "none"
    ELSE CASE v.stage = "REVIEWED" -> "propose"
           [] v.stage = "PROPOSED" -> "decision"
           [] v.stage = "DECIDED" -> "execute"
           [] OTHER -> "none"

\* Mutant: revocation is kept, but otherwise the last answer to arrive wins.
MergeLatest(old, new) ==
    IF old.revision = 0 THEN new ELSE [new EXCEPT !.active = old.active /\ new.active]

\* Mutant: an answer of the same revision may restore a revoked run.
MergeRestoring(old, new) == IF new.revision >= old.revision THEN new ELSE old

\* mergeHistory
Merge(old, new) ==
    IF new.revision < old.revision THEN old
    ELSE IF new.revision = old.revision
         THEN [new EXCEPT !.active = old.active /\ new.active]
         ELSE new

\* reconcilePending: the marker goes when its leg is confirmed, or when the leg
\* failed before a plan was prepared.
Reconcile(marker, v) ==
    LET done == CompletedSteps(v.stage)
        confirmed == done > Requires(marker.kind)
        failed == /\ v.revision > marker.base
                  /\ marker.kind \in {"propose", "execute"}
                  /\ v.error /\ marker.kind \notin v.prepared
    IN  IF marker.id # 0 /\ v.revision # 0 /\ (confirmed \/ failed) THEN NoMarker ELSE marker

\* persist: the browser stores the marker (ok), or refuses to, which throws.
Persist(t, ok, marker) ==
    IF ok THEN stored' = marker /\ UNCHANGED broken
          ELSE broken' = broken \cup {t} /\ UNCHANGED stored

\* acceptFlows: the copy is merged before the marker is stored.
Accept(t, ok, v) ==
    LET merged == Merge(view[t], v)
    IN  /\ view' = [view EXCEPT ![t] = merged]
        /\ Persist(t, ok, Reconcile(stored, merged))

(***************************************************************************)
(* Tasks                                                                   *)
(***************************************************************************)

\* task: one at a time in this page, and in all pages where there are locks.
MayStart(t) == ~Working(t) /\ (HasLocks => \A u \in Tabs : ~Working(u))

Post(t, call, id, hash) ==
    /\ Cardinality(posts) < MaxPosts
    /\ posts' = posts \cup {[call |-> call, id |-> id, hash |-> hash, from |-> t]}

\* The button of the next step, disabled while the page knows of a marker and once
\* it failed to store one.
MayClick(t, leg) ==
    MayStart(t) /\ NextStep(view[t]) = leg /\ stored = NoMarker /\ t \notin broken

\* beginOperation refuses if another page has left a marker.
Begin(t, ok, leg) ==
    /\ stored = NoMarker /\ nextId <= MaxOperations
    /\ Persist(t, ok, [id |-> nextId, kind |-> leg, phase |-> "request",
                       base |-> view[t].revision, hash |-> 0])
    /\ nextId' = IF ok THEN nextId + 1 ELSE nextId

Submit(t, leg) ==
    /\ leg \in {"propose", "execute"} /\ MayClick(t, leg)
    /\ \E ok \in BOOLEAN :
          /\ Begin(t, ok, leg)
          /\ IF ok THEN Post(t, leg, nextId, 0) /\ tab' = [tab EXCEPT ![t] = Waiting]
                   ELSE UNCHANGED <<posts, tab>>
    /\ UNCHANGED <<serverVars, view, reads, walletVars>>

\* walletFor: the accounts may have to be requested, which the user may refuse.
Connect(t, goal) ==
    /\ IF goal = "payload" THEN MayClick(t, "decision") ELSE MayStart(t)
    /\ tab' = [tab EXCEPT ![t] = [Idle EXCEPT !.at = "connect", !.goal = goal,
                                              !.previous = stored.id]]
    /\ UNCHANGED <<serverVars, posts, storageVars, nextId, view, reads, walletVars>>

Connected(t) ==
    /\ tab[t].at = "connect"
    /\ IF tab[t].goal = "payload" /\ stored = NoMarker
       THEN \E ok \in BOOLEAN :
              /\ Begin(t, ok, "decision")
              /\ IF ok
                 THEN /\ Post(t, "payload", nextId, 0)
                      /\ tab' = [tab EXCEPT ![t].at = "request", ![t].goal = "none",
                                            ![t].id = nextId]
                 ELSE tab' = [tab EXCEPT ![t] = Idle] /\ UNCHANGED posts
       ELSE tab' = [tab EXCEPT ![t] = Idle] /\ UNCHANGED <<posts, storageVars, nextId>>
    /\ UNCHANGED <<serverVars, view, reads, walletVars>>

\* Mutant: any rejection clears a marker that waits for the wallet.
RejectedAnyWalletRequest(marker, previous) ==
    marker.id # 0 /\ marker.phase = "wallet" /\ marker.hash = 0

\* rejectedCurrentWalletRequest, for code 4001
RejectedCurrentWalletRequest(marker, previous) ==
    marker.id # 0 /\ marker.id # previous /\ marker.phase = "wallet" /\ marker.hash = 0

\* task's catch
Rejected(t) ==
    /\ IF RejectedCurrentWalletRequest(stored, tab[t].previous)
       THEN \E ok \in BOOLEAN : Persist(t, ok, NoMarker)
       ELSE UNCHANGED storageVars
    /\ tab' = [tab EXCEPT ![t] = Idle]

ConnectRejected(t) ==
    /\ tab[t].at = "connect" /\ Rejected(t)
    /\ UNCHANGED <<serverVars, posts, nextId, view, reads, walletVars>>

RecoverCall == [propose |-> "recover-propose", decision |-> "recover-decision",
                execute |-> "recover-execute"]

\* The recovery button: beside an unresolved marker, and as the next step of a flow
\* that is between two confirmed stages or that a restart left unfinished.
OffersRecovery(t) ==
    \/ stored # NoMarker
    \/ view[t].stage \in {"PROPOSING", "DECISION_READY", "DECISION_PENDING", "EXECUTING"}
    \/ ~view[t].active /\ view[t].stage \in {"PROPOSED", "DECIDED"}

\* recover: the hash in the marker, kept by the page or entered by hand, or what
\* the service has recorded.  It never asks the wallet.
Recover(t) ==
    LET leg == RecoveryLeg(view[t].stage)
        known == IF stored.id # 0 /\ stored.hash # 0 THEN {stored.hash} ELSE {0} \cup sent
    IN  /\ MayStart(t) /\ view[t].revision # 0 /\ OffersRecovery(t) /\ leg # "none"
        /\ \E hash \in known :
              LET call == IF hash # 0 /\ view[t].stage \in {"DECISION_READY", "DECISION_PENDING"}
                          THEN "receipt" ELSE RecoverCall[leg]
              IN  /\ Post(t, call, 0, IF call = "receipt" THEN hash ELSE 0)
                  /\ tab' = [tab EXCEPT ![t] = Waiting]
        /\ UNCHANGED <<serverVars, storageVars, nextId, view, reads, walletVars>>

\* patchOperation: it keeps what it does not name.
Patch(t, ok, phase, hash) ==
    Persist(t, ok, IF stored.id # 0 THEN [stored EXCEPT !.phase = phase, !.hash = hash]
                   ELSE stored)

\* The answer: an error ends the task, a payload opens the wallet once localStorage
\* and (noted) sessionStorage have taken the request, a flow is merged.
Answer(t) ==
    LET reply == tab[t].reply
    IN  /\ tab[t].at = "reply"
        /\ \/ /\ reply.kind = "error" /\ tab' = [tab EXCEPT ![t] = Idle]
              /\ UNCHANGED <<storageVars, view, prompts>>
           \/ /\ reply.kind = "payload"
              /\ \E ok, noted \in BOOLEAN :
                    /\ Patch(t, ok, "wallet", 0)
                    /\ IF ok /\ noted
                       THEN /\ prompts' = prompts \cup {tab[t].id}
                            /\ tab' = [tab EXCEPT ![t].at = "prompt", ![t].reply = NoReply]
                       ELSE tab' = [tab EXCEPT ![t] = Idle] /\ UNCHANGED prompts
              /\ UNCHANGED view
           \/ /\ reply.kind = "view" /\ tab' = [tab EXCEPT ![t] = Idle]
              /\ \E ok \in BOOLEAN : Accept(t, ok, reply.view)
              /\ UNCHANGED prompts
        /\ UNCHANGED <<serverVars, posts, nextId, reads, sent, received, lost>>

\* consoleRequest gives up; the service may still serve the request.
GiveUp(t) ==
    /\ tab[t].at = "request"
    /\ LET anonymous(m) == IF m.from = t THEN [m EXCEPT !.from = Nobody] ELSE m
       IN  /\ posts' = {anonymous(m) : m \in posts}
           /\ busy' = IF busy = NoRequest THEN busy ELSE anonymous(busy)
    /\ tab' = [tab EXCEPT ![t] = Idle]
    /\ UNCHANGED <<server, storageVars, nextId, view, reads, walletVars>>

\* The page goes away: its task, answers and copies with it.  A wallet prompt
\* stays open.  The next page may again be refused its first write.
Reload(t) ==
    /\ LET anonymous(m) == IF m.from = t THEN [m EXCEPT !.from = Nobody] ELSE m
       IN  /\ posts' = {anonymous(m) : m \in posts}
           /\ busy' = IF busy = NoRequest THEN busy ELSE anonymous(busy)
    /\ tab' = [tab EXCEPT ![t] = Idle] /\ view' = [view EXCEPT ![t] = NoView]
    /\ reads' = [reads EXCEPT ![t] = {}]
    /\ broken' \in {broken \ {t}, broken \cup {t}}
    /\ UNCHANGED <<server, stored, nextId, walletVars>>

\* loadJournal and loadLive: one of each at a time, answered and merged later,
\* or never.
Read(t) ==
    /\ Cardinality(reads[t]) < MaxReads /\ Shown # view[t]
    /\ reads' = [reads EXCEPT ![t] = @ \cup {Shown}]
    /\ UNCHANGED <<serverVars, posts, storageVars, nextId, tab, view, walletVars>>
Loaded(t) ==
    /\ \E v \in reads[t], ok \in BOOLEAN :
          Accept(t, ok, v) /\ reads' = [reads EXCEPT ![t] = @ \ {v}]
    /\ UNCHANGED <<serverVars, posts, nextId, tab, walletVars>>

(***************************************************************************)
(* The wallet                                                              *)
(***************************************************************************)

Asking(id) == {t \in Tabs : tab[t].at = "prompt" /\ tab[t].id = id}

\* Mutant: the hash is only kept by the page.
ApproveInMemory(id) ==
    /\ id \in prompts
    /\ prompts' = prompts \ {id} /\ sent' = sent \cup {id}
    /\ IF Asking(id) = {}
       THEN UNCHANGED <<posts, tab, received>>
       ELSE \E t \in Asking(id) :
              /\ received' = received \cup {id}
              /\ Post(t, "receipt", id, id)
              /\ tab' = [tab EXCEPT ![t] = Waiting]
    /\ UNCHANGED <<serverVars, storageVars, nextId, view, reads, lost>>

\* The authority sends the transaction; a page that still waits stores the hash, in
\* localStorage and (noted) in sessionStorage, and reports it.  If either refuses, it
\* reports nothing.
Approve(id) ==
    /\ id \in prompts
    /\ prompts' = prompts \ {id} /\ sent' = sent \cup {id}
    /\ IF Asking(id) = {}
       THEN UNCHANGED <<posts, storageVars, tab, received, lost>>
       ELSE \E t \in Asking(id), ok, noted \in BOOLEAN :
              /\ Patch(t, ok, "submitted", id)
              /\ received' = IF ok THEN received \cup {id} ELSE received
              /\ lost' = IF ok THEN lost ELSE lost \cup {id}
              /\ IF ok /\ noted
                 THEN Post(t, "receipt", id, id) /\ tab' = [tab EXCEPT ![t] = Waiting]
                 ELSE tab' = [tab EXCEPT ![t] = Idle] /\ UNCHANGED posts
    /\ UNCHANGED <<serverVars, nextId, view, reads>>

Refuse(id) ==
    /\ id \in prompts /\ prompts' = prompts \ {id}
    /\ IF Asking(id) = {} THEN UNCHANGED <<storageVars, tab>>
       ELSE \E t \in Asking(id) : Rejected(t)
    /\ UNCHANGED <<serverVars, posts, nextId, view, reads, sent, received, lost>>

(***************************************************************************)
(* The service                                                             *)
(***************************************************************************)

Reply(m, kind, v) ==
    tab' = IF m.from = Nobody THEN tab
           ELSE [tab EXCEPT ![m.from].at = "reply", ![m.from].reply = [kind |-> kind, view |-> v]]

\* Every save advances the revision.
Saved(changes) == [changes EXCEPT !.revision = @ + 1]
MaySave(n) == server.revision + n <= MaxRevision
Answered(m, new) ==
    /\ server' = new
    /\ Reply(m, "view", [revision |-> new.revision, stage |-> new.stage, active |-> new.active,
                         error |-> new.error, prepared |-> new.prepared])
FailsWith(m) == MaySave(1) /\ Answered(m, Saved([server EXCEPT !.error = TRUE]))

From(leg) == IF leg = "propose" THEN "REVIEWED" ELSE "DECIDED"
Sending(leg) == IF leg = "propose" THEN "PROPOSING" ELSE "EXECUTING"
Confirmed(leg) == CASE leg = "propose" -> "PROPOSED" [] leg = "decision" -> "DECIDED"
                    [] leg = "execute" -> "EXECUTED"
LegOf(m) == CASE m.call = "receipt" -> "decision" [] m.call = "recover-decision" -> "decision"
              [] m.call = "recover-propose" -> "propose" [] m.call = "recover-execute" -> "execute"
              [] OTHER -> m.call

\* The lock is taken by the first request; the check at the start of propose and
\* execute saves the flow with the error it had.
Accepts(m) ==
    /\ m.call \in {"propose", "execute"} /\ server.stage = From(m.call) /\ server.active
    /\ MaySave(3) /\ server' = Saved(server)
AcceptsHash(m) ==
    /\ m.call = "receipt" /\ server.stage \in {"DECISION_READY", "DECISION_PENDING"}
    /\ server.hash \in {0, m.hash}
    /\ MaySave(2)
    /\ server' = Saved([server EXCEPT !.hash = m.hash, !.stage = "DECISION_PENDING"])

\* Only the plan issued before is issued again: not once the authority's pending
\* nonce counts the decision.
IssuesPayload(m) ==
    /\ m.call = "payload" /\ server.stage \in {"PROPOSED", "DECISION_READY"} /\ server.active
    /\ sent = {} /\ MaySave(1)
    /\ server' = Saved([server EXCEPT !.stage = "DECISION_READY",
                                      !.prepared = @ \cup {"decision"}])
    /\ Reply(m, "payload", NoView)
Recovers(m) ==
    /\ \/ m.call = "recover-propose" /\ server.stage \in {"PROPOSING", "PROPOSED"}
       \/ m.call = "recover-decision"
          /\ \/ server.stage \in {"DECISION_READY", "DECISION_PENDING"} /\ server.hash # 0
             \/ server.stage = "DECIDED"
       \/ m.call = "recover-execute" /\ server.stage = "EXECUTING"
    /\ MaySave(1)
    /\ Answered(m, Saved([server EXCEPT !.stage = Confirmed(LegOf(m)), !.error = FALSE]))

Serve(m) ==
    /\ m \in posts /\ posts' = posts \ {m}
    /\ \/ busy # NoRequest /\ Reply(m, "error", NoView) /\ UNCHANGED serverVars
       \/ /\ busy = NoRequest
          /\ \/ (Accepts(m) \/ AcceptsHash(m)) /\ busy' = m /\ UNCHANGED tab
             \/ (IssuesPayload(m) \/ Recovers(m)) /\ UNCHANGED busy
             \/ m.call = "payload" /\ Reply(m, "error", NoView) /\ UNCHANGED serverVars
             \/ m.call # "payload" /\ FailsWith(m) /\ UNCHANGED busy
    /\ UNCHANGED <<storageVars, nextId, view, reads, walletVars>>

\* The exact plan is saved before the operator signs.
Plans ==
    /\ busy.call \in {"propose", "execute"} /\ busy.call \notin server.prepared /\ MaySave(2)
    /\ server' = Saved([server EXCEPT !.stage = Sending(busy.call),
                                      !.prepared = @ \cup {busy.call}])
    /\ UNCHANGED <<busy, posts, storageVars, nextId, tab, view, reads, walletVars>>

Finishes ==
    /\ busy # NoRequest /\ busy' = NoRequest
    /\ \/ FailsWith(busy)
       \/ /\ LegOf(busy) \in server.prepared /\ MaySave(1)
          /\ Answered(busy, Saved([server EXCEPT !.stage = Confirmed(LegOf(busy)), !.error = FALSE]))
    /\ UNCHANGED <<posts, storageVars, nextId, view, reads, walletVars>>

\* A restart ends the running operation and every owned run.
Restart ==
    /\ server.active /\ server' = [server EXCEPT !.active = FALSE]
    /\ busy' = NoRequest
    /\ tab' = IF busy = NoRequest \/ busy.from = Nobody THEN tab
              ELSE [tab EXCEPT ![busy.from].at = "reply",
                               ![busy.from].reply = [kind |-> "error", view |-> NoView]]
    /\ UNCHANGED <<posts, storageVars, nextId, view, reads, walletVars>>

Next ==
    \/ \E t \in Tabs :
          \/ \E leg \in Legs : Submit(t, leg)
          \/ \E goal \in {"connect", "payload"} : Connect(t, goal)
          \/ Connected(t) \/ ConnectRejected(t) \/ Recover(t) \/ Answer(t)
          \/ GiveUp(t) \/ Reload(t) \/ Read(t) \/ Loaded(t)
    \/ \E id \in Ids : Approve(id) \/ Refuse(id)
    \/ \E m \in posts : Serve(m)
    \/ Plans \/ Finishes \/ Restart

Spec == Init /\ [][Next]_vars

(***************************************************************************)
(* Properties                                                              *)
(***************************************************************************)

\* The authority is never asked for a second decision while the wallet may still
\* show the first, or has sent it, whatever is lost, reloaded, refused or clicked in
\* other tabs.
AskedOnce == Cardinality(prompts \cup sent) <= 1

\* A transaction hash that reached a page is never lost: the marker or the service
\* has it.  If storage refused it, the marker of its request stays unresolved until
\* the service has it, so the page goes on asking for it and for nothing else.
HashIsKept ==
    /\ \A id \in received : \/ stored.id # 0 /\ stored.hash = id
                            \/ server.hash = id
    /\ \A id \in lost : stored.id = id \/ server.hash = id

\* A late answer never shows a run as usable again once the page saw it revoked.
TrustNeverRestored ==
    [][\A t \in Tabs : view[t].revision # 0 /\ view'[t].revision # 0 /\ ~view[t].active
          => ~view'[t].active]_vars

\* A late answer never takes a page back behind a step it has shown.
NeverShowsLess ==
    [][\A t \in Tabs : view[t].revision # 0 /\ view'[t].revision # 0
          => CompletedSteps(view'[t].stage) >= CompletedSteps(view[t].stage)]_vars

\* While the service works on a proposal or an execution, its marker stays.
MarkerOutlivesRequest ==
    busy # NoRequest /\ busy.call \in {"propose", "execute"} => stored.id = busy.id
=============================================================================
