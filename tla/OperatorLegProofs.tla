-------------------------- MODULE OperatorLegProofs --------------------------
(***************************************************************************)
(* Theorems about OperatorControl, TransactionBroadcast and OperatorLeg    *)
(* for every set of callers and jobs.  RestoresDeny assumes LateUpdates =  *)
(* FALSE: the provider applies no update after its client gave up on it.   *)
(* (The run operator_late shows that it needs that.)  What is claimed of   *)
(* the records and of sending does not.                                    *)
(*                                                                         *)
(* In the window of sign() a call knows at each await which record it left,*)
(* and that no install is on its way which could land after its last look  *)
(* at the policy: installs of dead calls are on their way only while their *)
(* record stops everybody else.  A call of send() knows what its record    *)
(* says, which nobody else writes while it holds the lock of its job.      *)
(*                                                                         *)
(* Both components are proved about as the leg instantiates them, the leg  *)
(* implements each, and SentSafely relates the two: what a call knows in   *)
(* between (Knows) is carried through them.                                *)
(***************************************************************************)
EXTENDS OperatorLeg, TLAPS

-----------------------------------------------------------------------------
(* The window of sign()                                                   *)

Before == {"assertDeny", "revalidate", "record"}
After  == {"assertExact", "sign", "awaitSignature", "observe", "restore", "awaitRestore",
           "assertRestored", "clear"}
Within == {"install", "awaitInstall"} \cup After

ControlKnows(c) ==
    /\ controlPc[c] \in Before => interrupted = NoJob
    /\ controlPc[c] \in Within => interrupted = controlJob[c]
    /\ controlPc[c] \in {"install"} \cup After => \A u \in updates : u[2] \notin Jobs
    /\ controlPc[c] = "awaitInstall" =>
          \A u \in updates : u[2] \in Jobs => u = <<c, controlJob[c]>>
    /\ controlPc[c] = "clear" => policy \notin Jobs

ControlKnowledge == \A c \in Callers : ControlKnows(c)

\* An install on its way has its record.
Announced == \A u \in updates : u[2] \in Jobs => interrupted = u[2]

ControlInv ==
    /\ Control!TypeOK
    /\ ControlKnowledge
    /\ Announced
    /\ Control!RestoresDeny

-----------------------------------------------------------------------------
(* What one step of a call does                                            *)

\* The steps of sign() as moves of its program counter, with what they change
\* outside the call.
ControlMoves ==
    {<<"readInterrupted", "unlock">>, <<"assertDeny", "revalidate">>, <<"assertDeny", "unlock">>,
     <<"revalidate", "record">>, <<"revalidate", "unlock">>, <<"record", "unlock">>,
     <<"assertExact", "sign">>, <<"assertExact", "observe">>, <<"sign", "observe">>,
     <<"sign", "awaitSignature">>, <<"awaitSignature", "observe">>, <<"observe", "restore">>,
     <<"observe", "assertRestored">>, <<"observe", "unlock">>, <<"assertRestored", "unlock">>,
     <<"clear", "unlock">>, <<"writeEvidence", "unlock">>}

Quiet(c) ==
    /\ <<controlPc[c], controlPc'[c]>> \in ControlMoves
    /\ interrupted' = interrupted /\ updates' = updates
Reads(c) ==
    \/ controlPc[c] = "readInterrupted" /\ controlPc'[c] = "assertDeny" /\ interrupted = NoJob
    \/ controlPc[c] = "awaitInstall" /\ controlPc'[c] = "assertExact"
       /\ <<c, controlJob[c]>> \notin updates
    \/ controlPc[c] = "awaitRestore" /\ controlPc'[c] = "assertRestored"
    \/ controlPc[c] = "assertRestored" /\ controlPc'[c] = "clear" /\ policy = Deny
Records(c) ==
    /\ controlPc[c] = "record" /\ controlPc'[c] \in {"install", "unlock"}
    /\ interrupted' = controlJob[c] /\ updates' = updates
Requests(c) ==
    /\ \/ controlPc[c] = "install" /\ controlPc'[c] = "awaitInstall"
          /\ updates' = updates \cup {<<c, controlJob[c]>>}
       \/ controlPc[c] = "restore" /\ controlPc'[c] = "awaitRestore" /\ updates' = updates \cup {<<c, Deny>>}
    /\ interrupted' = interrupted
GivesUp(c) ==
    /\ \/ controlPc[c] = "awaitInstall" /\ controlPc'[c] = "observe"
          /\ updates' = IF LateUpdates THEN updates ELSE updates \ {<<c, controlJob[c]>>}
       \/ controlPc[c] = "awaitRestore" /\ controlPc'[c] = "unlock"
          /\ updates' = IF LateUpdates THEN updates ELSE updates \ {<<c, Deny>>}
    /\ interrupted' = interrupted
Clears(c) ==
    /\ controlPc[c] = "clear" /\ controlPc'[c] \in {"writeEvidence", "unlock"}
    /\ interrupted' = NoJob /\ updates' = updates
Releases(c) ==
    /\ controlPc[c] = "unlock" /\ controlPc'[c] = "idle"
    /\ interrupted' = interrupted /\ updates' = updates
Dies(c) ==
    /\ controlPc[c] # "idle" /\ controlPc'[c] = "idle"
    /\ interrupted' = interrupted /\ updates' \subseteq updates

ControlOwnStep(c) ==
    /\ controlPc[c] # "idle" /\ controlPc' \in [Callers -> Control!Steps]
    /\ \A d \in Callers : d # c => controlPc'[d] = controlPc[d]
    /\ policy' = policy /\ controlJob' = controlJob
    /\ asking' \subseteq Jobs /\ issued' \subseteq Jobs /\ evidence' \subseteq Jobs
    /\ controlOutcome' \in [Callers -> {"signed", "error"}]
    /\ locked' = locked \/ (locked' = FALSE /\ controlPc[c] = "unlock" /\ controlPc'[c] = "idle")
    /\ \/ Quiet(c) \/ Records(c) \/ Requests(c) \/ GivesUp(c) \/ Clears(c) \/ Releases(c) \/ Dies(c)
       \/ Reads(c) /\ interrupted' = interrupted /\ updates' = updates

\* Every step of a running call, its crash included, is such a step.
LEMMA ControlCallSteps ==
    ASSUME Control!TypeOK, NEW c \in Callers, Control!CallerStep(c) \/ Control!Crash(c)
    PROVE  ControlOwnStep(c)
  <1>1. /\ controlPc \in [Callers -> Control!Steps]
        /\ controlOutcome \in [Callers -> {"signed", "error"}]
        /\ controlJob \in [Callers -> Jobs] /\ asking \subseteq Jobs /\ issued \subseteq Jobs
        /\ evidence \subseteq Jobs /\ controlJob[c] \in Jobs
    BY DEF Control!TypeOK
  <1> USE <1>1 DEF ControlOwnStep, Control!Goto, Control!Throw, Control!Resolve, Control!At,
             Control!Steps, Control!storeVars, Control!remoteVars
  <1>2. CASE Control!ReadInterrupted(c)
    BY <1>2 DEF Control!ReadInterrupted, Quiet, ControlMoves, Reads
  <1>3. CASE Control!AssertDeny(c) \/ Control!RevalidateFirst(c) \/ Control!AssertExact(c)
             \/ Control!AwaitSignature(c) \/ Control!Observe(c)
    BY <1>3 DEF Control!AssertDeny, Control!RevalidateFirst, Control!AssertExact,
       Control!AwaitSignature, Control!Observe, Quiet, ControlMoves
  <1>4. CASE Control!RecordInterrupted(c)
    BY <1>4 DEF Control!RecordInterrupted, Quiet, ControlMoves, Records
  <1>5. CASE Control!Install(c) \/ Control!Restore(c)
    BY <1>5 DEF Control!Install, Control!Restore, Requests
  <1>6. CASE Control!AwaitInstall(c) \/ Control!AwaitRestore(c)
    BY <1>6 DEF Control!AwaitInstall, Control!AwaitRestore,
       Control!TimesOut, Control!Applied, Reads, GivesUp
  <1>7. CASE Control!Sign(c)
    BY <1>7 DEF Control!Sign, Quiet, ControlMoves
  <1>8. CASE Control!AssertRestored(c)
    BY <1>8 DEF Control!AssertRestored, Quiet, ControlMoves, Reads
  <1>9. CASE Control!ClearInterrupted(c)
    BY <1>9 DEF Control!ClearInterrupted, Quiet, ControlMoves, Clears
  <1>10. CASE Control!WriteEvidence(c)
    BY <1>10 DEF Control!WriteEvidence, Quiet, ControlMoves
  <1>11. CASE Control!Unlock(c)
    BY <1>11 DEF Control!Unlock, Releases
  <1>12. CASE Control!Crash(c)
    BY <1>12 DEF Control!Crash, Dies
  <1> QED BY <1>2, <1>3, <1>4, <1>5, <1>6, <1>7, <1>8, <1>9, <1>10, <1>11, <1>12
     DEF Control!CallerStep

-----------------------------------------------------------------------------
(* The types survive, late updates or not                                  *)

\* While a call runs, the others are idle.
LEMMA ControlStepKeepsTypes ==
    ASSUME Control!TypeOK, NEW c \in Callers, Control!CallerStep(c) \/ Control!Crash(c)
    PROVE  /\ Control!TypeOK'
           /\ \A d \in Callers \ {c} : controlPc[d] = "idle" /\ controlPc'[d] = "idle"
  <1>1. ControlOwnStep(c)
    BY ControlCallSteps
  <1>2. /\ controlJob[c] \in Jobs /\ policy' = policy /\ controlJob' = controlJob
        /\ controlPc' \in [Callers -> Control!Steps]
        /\ \A d \in Callers : d # c => controlPc[d] = "idle" /\ controlPc'[d] = "idle"
    BY <1>1 DEF Control!TypeOK, ControlOwnStep
  <1>3. updates' \subseteq Callers \X (Jobs \cup {Deny}) /\ interrupted' \in Jobs \cup {NoJob}
    BY <1>1, <1>2 DEF ControlOwnStep, Quiet, Reads, Records, Requests, GivesUp, Clears,
       Releases, Dies, Control!TypeOK
  <1>4. locked' \in BOOLEAN /\ (controlPc'[c] # "idle" => locked')
    <2>1. controlPc[c] # "idle" /\ (locked' = locked \/ (locked' = FALSE /\ controlPc'[c] = "idle"))
      BY <1>1 DEF ControlOwnStep
    <2>2. locked = TRUE
      BY <2>1 DEF Control!TypeOK
    <2> QED BY <2>1, <2>2
  <1>5. \A d, e \in Callers : controlPc'[d] # "idle" => locked' /\ (controlPc'[e] # "idle" => d = e)
    BY <1>2, <1>4
  <1> QED BY <1>1, <1>2, <1>3, <1>4, <1>5 DEF ControlOwnStep, Control!TypeOK

\* The other steps change no program counter, or find every call idle.
LEMMA ControlWorldKeepsTypes ==
    ASSUME Control!TypeOK,
           \/ \E c \in Callers, j \in Jobs : Control!Call(c, j)
           \/ \E u \in updates : Control!ApplyUpdate(u)
           \/ \E j \in Jobs : Control!ProviderSigns(j)
           \/ Control!ExternalEdit \/ Control!RemoveAbandonedLock \/ Control!Recover
           \/ UNCHANGED Control!vars
    PROVE  Control!TypeOK'
  <1> USE DEF Control!TypeOK, Control!Policies, Control!storeVars, Control!remoteVars,
              Control!callVars, Control!At
  <1>1. ASSUME NEW c \in Callers, NEW j \in Jobs, Control!Call(c, j) PROVE Control!TypeOK'
    <2>1. controlPc' = [controlPc EXCEPT ![c] = "readInterrupted"] /\ ~locked /\ locked' = TRUE
      BY <1>1 DEF Control!Call
    <2>2. /\ controlPc' \in [Callers -> Control!Steps]
          /\ \A d \in Callers : d # c => controlPc'[d] = "idle"
      BY <2>1 DEF Control!Steps
    <2> QED BY <1>1, <2>1, <2>2 DEF Control!Call
  <1>2. ASSUME NEW u \in updates, Control!ApplyUpdate(u) PROVE Control!TypeOK'
    BY <1>2 DEF Control!ApplyUpdate
  <1>3. ASSUME NEW j \in Jobs, Control!ProviderSigns(j) PROVE Control!TypeOK'
    BY <1>3 DEF Control!ProviderSigns
  <1>4. CASE Control!ExternalEdit \/ Control!RemoveAbandonedLock \/ Control!Recover
    BY <1>4 DEF Control!ExternalEdit, Control!RemoveAbandonedLock, Control!Recover
  <1>5. CASE UNCHANGED Control!vars
    BY <1>5 DEF Control!vars
  <1> QED BY <1>1, <1>2, <1>3, <1>4, <1>5

LEMMA ControlTypes == Control!Spec => []Control!TypeOK
  <1>1. Control!Init => Control!TypeOK
    BY DEF Control!Init, Control!TypeOK, Control!Policies, Control!Steps
  <1>2. Control!TypeOK /\ [Control!Next]_(Control!vars) => Control!TypeOK'
    BY ControlStepKeepsTypes, ControlWorldKeepsTypes DEF Control!Next
  <1> QED BY <1>1, <1>2, PTL DEF Control!Spec

-----------------------------------------------------------------------------
(* The invariant survives                                                  *)

\* While a call runs, the others are idle and know nothing.
LEMMA ControlStepKeepsInvariant ==
    ASSUME LateUpdates = FALSE, ControlInv, NEW c \in Callers,
           Control!CallerStep(c) \/ Control!Crash(c)
    PROVE  ControlInv'
  <1>1. Control!TypeOK /\ ControlOwnStep(c) /\ ControlKnows(c) /\ Announced /\ Control!RestoresDeny
    BY ControlCallSteps DEF ControlInv, ControlKnowledge
  <1>2. /\ controlJob[c] \in Jobs /\ NoJob \notin Jobs /\ Deny \notin Jobs
        /\ policy' = policy /\ controlJob' = controlJob /\ controlPc' \in [Callers -> Control!Steps]
        /\ \A d \in Callers : d # c => controlPc[d] = "idle" /\ controlPc'[d] = "idle"
    BY <1>1, ConstantsAssumption DEF Control!ConstantsApart, Control!TypeOK, ControlOwnStep
  <1> DEFINE Quietly == Quiet(c)
             Reading == Reads(c) /\ interrupted' = interrupted /\ updates' = updates
  <1>s. \/ Quietly \/ Reading \/ Records(c) \/ Requests(c) \/ GivesUp(c) \/ Clears(c)
        \/ Releases(c) \/ Dies(c)
    BY <1>1 DEF ControlOwnStep
  <1>3. Control!TypeOK'
    BY <1>1, ControlStepKeepsTypes
  <1>4. ControlKnows(c)'
    <2>1. CASE Quietly
      BY <2>1, <1>1, <1>2 DEF Quiet, ControlMoves, ControlKnows, Before, After, Within
    <2>2. CASE Reading
      <3>1. CASE controlPc[c] = "readInterrupted"
        BY <2>2, <3>1, <1>1, <1>2 DEF Reads, ControlKnows, Before, After, Within
      <3>2. CASE controlPc[c] = "awaitInstall"
        BY <2>2, <3>2, <1>1, <1>2 DEF Reads, ControlKnows, Before, After, Within
      <3>3. CASE controlPc[c] = "awaitRestore"
        BY <2>2, <3>3, <1>1, <1>2 DEF Reads, ControlKnows, Before, After, Within
      <3>4. CASE controlPc[c] = "assertRestored"
        BY <2>2, <3>4, <1>1, <1>2 DEF Reads, ControlKnows, Before, After, Within
      <3> QED BY <2>2, <3>1, <3>2, <3>3, <3>4 DEF Reads
    <2>3. CASE Records(c)
      <3>1. interrupted = NoJob
        BY <2>3, <1>1 DEF Records, ControlKnows, Before
      <3>2. \A u \in updates : u[2] \notin Jobs
        BY <3>1, <1>1, <1>2 DEF Announced
      <3> QED BY <2>3, <3>2, <1>2 DEF Records, ControlKnows, Before, After, Within
    <2>4. CASE Requests(c)
      <3>1. CASE controlPc[c] = "install"
        BY <2>4, <3>1, <1>1, <1>2 DEF Requests, ControlKnows, Before, After, Within
      <3>2. CASE controlPc[c] = "restore"
        BY <2>4, <3>2, <1>1, <1>2 DEF Requests, ControlKnows, Before, After, Within
      <3> QED BY <2>4, <3>1, <3>2 DEF Requests
    <2>5. CASE GivesUp(c)
      <3>1. CASE controlPc[c] = "awaitInstall"
        BY <2>5, <3>1, <1>1, <1>2 DEF GivesUp, ControlKnows, Before, After, Within
      <3>2. CASE controlPc[c] = "awaitRestore"
        BY <2>5, <3>2, <1>1, <1>2 DEF GivesUp, ControlKnows, Before, After, Within
      <3> QED BY <2>5, <3>1, <3>2 DEF GivesUp
    <2>6. CASE Clears(c) \/ Releases(c) \/ Dies(c)
      BY <2>6 DEF Clears, Releases, Dies, ControlKnows, Before, After, Within
    <2> QED BY <1>s, <2>1, <2>2, <2>3, <2>4, <2>5, <2>6
  <1>5. ControlKnowledge'
    <2>1. \A d \in Callers : d # c => ControlKnows(d)'
      BY <1>2 DEF ControlKnows, Before, After, Within
    <2> QED BY <1>4, <2>1 DEF ControlKnowledge
  <1>6. Announced'
    <2>1. CASE Quietly \/ Reading \/ Releases(c) \/ Dies(c)
      BY <2>1, <1>1 DEF Quiet, Releases, Dies, Announced
    <2>2. CASE Records(c)
      <3>1. \A u \in updates : u[2] \notin Jobs
        BY <2>2, <1>1, <1>2 DEF Records, ControlKnows, Before, Announced
      <3> QED BY <2>2, <3>1 DEF Records, Announced
    <2>3. CASE Requests(c)
      BY <2>3, <1>1, <1>2 DEF Requests, Announced, ControlKnows, Within
    <2>4. CASE GivesUp(c)
      BY <2>4, <1>1 DEF GivesUp, Announced
    <2>5. CASE Clears(c)
      BY <2>5, <1>1 DEF Clears, Announced, ControlKnows, After
    <2> QED BY <1>s, <2>1, <2>2, <2>3, <2>4, <2>5
  <1>7. Control!RestoresDeny'
    <2>1. CASE Records(c)
      BY <2>1, <1>1, <1>2 DEF Records, ControlKnows, Before, Control!RestoresDeny
    <2>2. CASE Clears(c)
      BY <2>2, <1>1, <1>2 DEF Clears, ControlKnows, Control!RestoresDeny
    <2>3. CASE interrupted' = interrupted
      BY <2>3, <1>1, <1>2 DEF Control!RestoresDeny
    <2> QED BY <1>s, <2>1, <2>2, <2>3 DEF Quiet, Requests, GivesUp, Releases, Dies
  <1> QED BY <1>3, <1>5, <1>6, <1>7 DEF ControlInv

\* A new call knows nothing yet, and nobody else runs.
LEMMA ControlCallKeepsInvariant ==
    ASSUME ControlInv, NEW c \in Callers, NEW j \in Jobs, Control!Call(c, j)
    PROVE  ControlInv'
  <1>1. /\ ~locked /\ locked' = TRUE /\ controlPc' = [controlPc EXCEPT ![c] = "readInterrupted"]
        /\ controlJob' = [controlJob EXCEPT ![c] = j]
        /\ interrupted' = interrupted /\ evidence' = evidence /\ policy' = policy
        /\ updates' = updates /\ asking' = asking /\ issued' = issued
        /\ controlOutcome' = [controlOutcome EXCEPT ![c] = "error"]
    BY DEF Control!Call, Control!remoteVars
  <1>2. /\ controlPc' \in [Callers -> Control!Steps] /\ controlJob' \in [Callers -> Jobs]
        /\ controlPc'[c] = "readInterrupted" /\ \A d \in Callers : d # c => controlPc'[d] = "idle"
    BY <1>1 DEF ControlInv, Control!TypeOK, Control!Steps
  <1>3. Control!TypeOK'
    BY ControlWorldKeepsTypes DEF ControlInv
  <1>4. ControlKnowledge'
    BY <1>2 DEF ControlKnowledge, ControlKnows, Before, After, Within
  <1> QED BY <1>1, <1>3, <1>4 DEF ControlInv, Announced, Control!RestoresDeny

\* An update that lands was announced; none for a job lands in front of "clear".
LEMMA ControlUpdateKeepsInvariant ==
    ASSUME ControlInv, NEW u \in updates, Control!ApplyUpdate(u)
    PROVE  ControlInv'
  <1>1. /\ policy' = u[2] /\ updates' = updates \ {u} /\ interrupted' = interrupted
        /\ asking' = asking /\ issued' = issued /\ locked' = locked /\ evidence' = evidence
        /\ controlPc' = controlPc /\ controlJob' = controlJob /\ controlOutcome' = controlOutcome
    BY DEF Control!ApplyUpdate, Control!storeVars, Control!callVars
  <1>2. u[2] \in Jobs \cup {Deny} /\ Deny \notin Jobs
    BY ConstantsAssumption DEF Control!ConstantsApart, ControlInv, Control!TypeOK
  <1>3. Control!TypeOK'
    BY ControlWorldKeepsTypes DEF ControlInv
  <1>4. ControlKnowledge'
    <2> SUFFICES ASSUME NEW c \in Callers PROVE ControlKnows(c)'
      BY DEF ControlKnowledge
    <2>1. ControlKnows(c)
      BY DEF ControlInv, ControlKnowledge
    <2> QED BY <1>1, <2>1 DEF ControlKnows, After
  <1>5. Announced' /\ Control!RestoresDeny'
    BY <1>1, <1>2 DEF ControlInv, Announced, Control!RestoresDeny
  <1> QED BY <1>3, <1>4, <1>5 DEF ControlInv

\* What the provider signs, a foreign edit, a removed lock and manual recovery
\* never install the policy of a job, and recovery finds no call running.
LEMMA ControlWorldKeepsInvariant ==
    ASSUME ControlInv,
           \/ \E j \in Jobs : Control!ProviderSigns(j)
           \/ Control!ExternalEdit \/ Control!RemoveAbandonedLock \/ Control!Recover \/ UNCHANGED Control!vars
    PROVE  ControlInv'
  <1>0. Deny \notin Jobs /\ Foreign \notin Jobs
    BY ConstantsAssumption DEF Control!ConstantsApart
  <1>t. Control!TypeOK'
    BY ControlWorldKeepsTypes DEF ControlInv
  <1>1. ASSUME NEW j \in Jobs, Control!ProviderSigns(j) PROVE ControlInv'
    <2>1. /\ policy' = policy /\ updates' = updates /\ interrupted' = interrupted
          /\ locked' = locked
          /\ evidence' = evidence /\ controlPc' = controlPc /\ controlJob' = controlJob
          /\ controlOutcome' = controlOutcome
          /\ asking' \subseteq asking /\ issued' = issued \cup {j}
      BY <1>1 DEF Control!ProviderSigns, Control!storeVars, Control!callVars
    <2> QED BY <2>1, <1>t DEF ControlInv, ControlKnowledge, ControlKnows, Announced,
       Control!RestoresDeny
  <1>2. CASE Control!ExternalEdit
    <2>1. /\ policy' = Foreign /\ updates' = updates /\ interrupted' = interrupted
          /\ locked' = locked
          /\ evidence' = evidence /\ controlPc' = controlPc /\ controlJob' = controlJob
          /\ controlOutcome' = controlOutcome
          /\ asking' = asking /\ issued' = issued
      BY <1>2 DEF Control!ExternalEdit, Control!storeVars, Control!callVars
    <2> QED BY <1>0, <2>1, <1>t DEF ControlInv, ControlKnowledge, ControlKnows, Announced,
       Control!RestoresDeny
  <1>3. CASE Control!RemoveAbandonedLock
    <2>1. /\ policy' = policy /\ updates' = updates /\ interrupted' = interrupted /\ locked' = FALSE
          /\ evidence' = evidence /\ controlPc' = controlPc /\ controlJob' = controlJob
          /\ controlOutcome' = controlOutcome
          /\ asking' = asking /\ issued' = issued /\ \A c \in Callers : controlPc[c] = "idle"
      BY <1>3 DEF Control!RemoveAbandonedLock, Control!remoteVars, Control!callVars, Control!At
    <2> QED BY <2>1, <1>t DEF ControlInv, ControlKnowledge, ControlKnows, Announced,
       Control!RestoresDeny
  <1>4. CASE Control!Recover
    <2>1. /\ policy' = Deny /\ updates' = {} /\ interrupted' = NoJob /\ locked' = locked
          /\ evidence' = evidence /\ controlPc' = controlPc /\ controlJob' = controlJob
          /\ controlOutcome' = controlOutcome
          /\ asking' = {} /\ issued' = issued /\ \A c \in Callers : controlPc[c] = "idle"
      BY <1>4 DEF Control!Recover, Control!callVars, Control!At
    <2>3. ControlKnowledge'
      BY <2>1 DEF ControlKnowledge, ControlKnows, Before, After, Within
    <2> QED BY <1>0, <2>1, <1>t, <2>3 DEF ControlInv, Announced, Control!RestoresDeny
  <1>5. CASE UNCHANGED Control!vars
    <2>1. /\ policy' = policy /\ updates' = updates /\ interrupted' = interrupted
          /\ locked' = locked
          /\ evidence' = evidence /\ controlPc' = controlPc /\ controlJob' = controlJob
          /\ controlOutcome' = controlOutcome
          /\ asking' = asking /\ issued' = issued
      BY <1>5 DEF Control!vars, Control!storeVars, Control!remoteVars, Control!callVars
    <2> QED BY <2>1, <1>t DEF ControlInv, ControlKnowledge, ControlKnows, Announced,
       Control!RestoresDeny
  <1> QED BY <1>1, <1>2, <1>3, <1>4, <1>5

\* The invariant is inductive.
LEMMA ControlInductive ==
    ASSUME LateUpdates = FALSE
    PROVE  /\ Control!Init => ControlInv
           /\ ControlInv /\ [Control!Next]_(Control!vars) => ControlInv'
  <1>1. Control!Init => ControlInv
    BY ConstantsAssumption DEF Control!ConstantsApart, Control!Init, ControlInv, Control!TypeOK,
       Control!Policies, Control!Steps, ControlKnowledge, ControlKnows, Before, After, Within,
       Announced, Control!RestoresDeny
  <1>2. ControlInv /\ [Control!Next]_(Control!vars) => ControlInv'
    BY ConstantsAssumption, LateUpdates = FALSE, ControlCallKeepsInvariant,
       ControlStepKeepsInvariant, ControlUpdateKeepsInvariant,
       ControlWorldKeepsInvariant DEF Control!Next
  <1> QED BY <1>1, <1>2

\* Every state satisfies the invariant, if no update is late.
LEMMA ControlInvariance == Control!Spec => [](LateUpdates = FALSE => ControlInv)
  <1> DEFINE Inv == LateUpdates = FALSE => ControlInv
  <1>1. Control!Init => Inv
    BY ControlInductive
  <1>2. Inv /\ [Control!Next]_(Control!vars) => Inv'
    BY ControlInductive
  <1> QED BY <1>1, <1>2, PTL DEF Control!Spec

-----------------------------------------------------------------------------
(* Records, late updates or not                                            *)

\* A call before its window has found no record, and in its window has its own.
OwnRecords ==
    \A c \in Callers : /\ controlPc[c] \in Before => interrupted = NoJob
                       /\ controlPc[c] \in Within => interrupted = controlJob[c]

\* A call writes a record only where there was none, and removes its own only.
LEMMA ControlStepKeepsRecords ==
    ASSUME Control!TypeOK, OwnRecords, NEW c \in Callers,
           Control!CallerStep(c) \/ Control!Crash(c)
    PROVE  OwnRecords'
  <1>1. /\ ControlOwnStep(c)
        /\ \A d \in Callers \ {c} : controlPc[d] = "idle" /\ controlPc'[d] = "idle"
    BY ControlCallSteps, ControlStepKeepsTypes
  <1>2. /\ controlPc[c] \in Before => interrupted = NoJob
        /\ controlPc[c] \in Within => interrupted = controlJob[c]
        /\ controlJob' = controlJob
    BY <1>1 DEF OwnRecords, ControlOwnStep
  <1>3. /\ controlPc'[c] \in Before => interrupted' = NoJob
        /\ controlPc'[c] \in Within => interrupted' = controlJob[c]
    <2>1. CASE Quiet(c)
      BY <2>1, <1>2 DEF Quiet, ControlMoves, Before, After, Within
    <2>2. CASE Reads(c) /\ interrupted' = interrupted
      BY <2>2, <1>2 DEF Reads, Before, After, Within
    <2>3. CASE Records(c) \/ Requests(c) \/ GivesUp(c)
      BY <2>3, <1>2 DEF Records, Requests, GivesUp, Before, After, Within
    <2>4. CASE Clears(c) \/ Releases(c) \/ Dies(c)
      BY <2>4 DEF Clears, Releases, Dies, Before, After, Within
    <2> QED BY <1>1, <2>1, <2>2, <2>3, <2>4 DEF ControlOwnStep
  <1> QED BY <1>1, <1>2, <1>3 DEF OwnRecords, Before, After, Within

\* The other steps touch neither the record nor a running call, or find none running.
LEMMA ControlWorldKeepsRecords ==
    ASSUME Control!TypeOK, OwnRecords,
           \/ \E c \in Callers, j \in Jobs : Control!Call(c, j)
           \/ \E u \in updates : Control!ApplyUpdate(u)
           \/ \E j \in Jobs : Control!ProviderSigns(j)
           \/ Control!ExternalEdit \/ Control!RemoveAbandonedLock \/ Control!Recover
           \/ UNCHANGED Control!vars
    PROVE  OwnRecords'
  <1>1. ASSUME NEW c \in Callers, NEW j \in Jobs, Control!Call(c, j) PROVE OwnRecords'
    <2>1. controlPc' = [controlPc EXCEPT ![c] = "readInterrupted"] /\ ~locked
      BY <1>1 DEF Control!Call
    <2>2. controlPc'[c] = "readInterrupted" /\ \A d \in Callers : d # c => controlPc'[d] = "idle"
      BY <2>1 DEF Control!TypeOK
    <2> QED BY <2>2 DEF OwnRecords, Before, After, Within
  <1>2. CASE Control!Recover
    BY <1>2 DEF Control!Recover, Control!callVars, Control!At, OwnRecords, Before, After, Within
  <1>3. CASE \/ \E u \in updates : Control!ApplyUpdate(u)
             \/ \E j \in Jobs : Control!ProviderSigns(j)
             \/ Control!ExternalEdit \/ Control!RemoveAbandonedLock \/ UNCHANGED Control!vars
    BY <1>3 DEF Control!ApplyUpdate, Control!ProviderSigns, Control!ExternalEdit,
       Control!RemoveAbandonedLock, Control!vars, Control!storeVars, Control!callVars, OwnRecords
  <1> QED BY <1>1, <1>2, <1>3

LEMMA RecordsInvariance == Control!Spec => []OwnRecords
  <1>1. Control!Init => OwnRecords
    BY DEF Control!Init, OwnRecords, Before, After, Within
  <1>2. Control!TypeOK /\ OwnRecords /\ [Control!Next]_(Control!vars) => OwnRecords'
    BY ControlStepKeepsRecords, ControlWorldKeepsRecords DEF Control!Next
  <1> QED BY <1>1, <1>2, ControlTypes, PTL DEF Control!Spec

-----------------------------------------------------------------------------
(* The theorems                                                            *)

\* Values keep their types, and at most one call runs, under the lock.
THEOREM ControlTypeCorrect == Control!Spec => []Control!TypeOK
  BY ControlTypes

\* An exact policy is in place only while the record of its own job says so.
THEOREM WindowIsRecorded == ASSUME LateUpdates = FALSE PROVE Control!Spec => []Control!RestoresDeny
  <1>1. (LateUpdates = FALSE => ControlInv) => Control!RestoresDeny
    BY LateUpdates = FALSE DEF ControlInv
  <1> QED BY <1>1, ControlInvariance, PTL

LEMMA StepKeepsRecord ==
    ASSUME Control!TypeOK, OwnRecords, LateUpdates = FALSE => ControlInv, interrupted \in Jobs,
           NEW c \in Callers, Control!CallerStep(c) \/ Control!Crash(c)
    PROVE  Control!RecordStands
  <1>0. NoJob \notin Jobs
    BY ConstantsAssumption DEF Control!ConstantsApart
  <1>1. /\ ControlOwnStep(c)
        /\ \A d \in Callers \ {c} : controlPc[d] = "idle" /\ controlPc'[d] = "idle"
    BY ControlCallSteps, ControlStepKeepsTypes
  <1>2. controlPc[c] \notin Before /\ (controlPc[c] = "clear" => interrupted = controlJob[c])
    BY <1>0 DEF OwnRecords, Within, After
  <1>3. ~Records(c)
    BY <1>2 DEF Records, Before
  <1>4. controlPc'[c] \in Control!Window => controlPc[c] \in Control!Window
    <2>1. CASE Quiet(c)
      BY <2>1, <1>2 DEF Quiet, ControlMoves, Before, Control!Window, Control!Steps
    <2>2. CASE Reads(c)
      BY <2>2, <1>2 DEF Reads, Before, Control!Window, Control!Steps
    <2>3. CASE Requests(c) \/ GivesUp(c)
      BY <2>3 DEF Requests, GivesUp, Control!Window, Control!Steps
    <2>4. CASE Clears(c) \/ Releases(c) \/ Dies(c)
      BY <2>4 DEF Clears, Releases, Dies, Control!Window, Control!Steps
    <2> QED BY <1>1, <1>3, <2>1, <2>2, <2>3, <2>4 DEF ControlOwnStep
  <1>5. ASSUME interrupted' # interrupted
        PROVE  /\ interrupted' = NoJob /\ controlPc[c] = "clear" /\ controlJob[c] = interrupted
               /\ LateUpdates = FALSE => policy' \notin Jobs
    <2>1. Clears(c)
      BY <1>1, <1>3, <1>5 DEF ControlOwnStep, Quiet, Requests, GivesUp, Releases, Dies
    <2>2. LateUpdates = FALSE => policy' \notin Jobs
      BY <1>1, <2>1 DEF ControlOwnStep, Clears, ControlInv, ControlKnowledge, ControlKnows
    <2> QED BY <1>2, <2>1, <2>2 DEF Clears
  <1> QED BY <1>1, <1>4, <1>5 DEF Control!RecordStands, Control!At, Control!Window

LEMMA WorldKeepsRecord ==
    ASSUME Control!TypeOK, interrupted \in Jobs,
           \/ \E c \in Callers, j \in Jobs : Control!Call(c, j)
           \/ \E u \in updates : Control!ApplyUpdate(u)
           \/ \E j \in Jobs : Control!ProviderSigns(j)
           \/ Control!ExternalEdit \/ Control!RemoveAbandonedLock \/ Control!Recover
           \/ UNCHANGED Control!vars
    PROVE  Control!RecordStands
  <1>0. Deny \notin Jobs
    BY ConstantsAssumption DEF Control!ConstantsApart
  <1>1. ASSUME NEW c \in Callers, NEW j \in Jobs, Control!Call(c, j) PROVE Control!RecordStands
    <2>1. controlPc' = [controlPc EXCEPT ![c] = "readInterrupted"] /\ interrupted' = interrupted
      BY <1>1 DEF Control!Call
    <2>2. \A d \in Callers : controlPc'[d] \in {controlPc[d], "readInterrupted"}
      BY <2>1 DEF Control!TypeOK
    <2> QED BY <2>1, <2>2 DEF Control!RecordStands, Control!Window
  <1>2. CASE Control!Recover
    BY <1>0, <1>2 DEF Control!Recover, Control!callVars, Control!RecordStands
  <1>3. CASE \/ \E u \in updates : Control!ApplyUpdate(u)
             \/ \E j \in Jobs : Control!ProviderSigns(j)
             \/ Control!ExternalEdit \/ Control!RemoveAbandonedLock \/ UNCHANGED Control!vars
    BY <1>3 DEF Control!ApplyUpdate, Control!ProviderSigns, Control!ExternalEdit,
       Control!RemoveAbandonedLock, Control!vars, Control!storeVars, Control!callVars, Control!RecordStands
  <1> QED BY <1>1, <1>2, <1>3

\* What a window left on record is closed by its own call or by the operator, and
\* nobody opens another before, for any callers and jobs, late updates or not.
THEOREM RecordIsKept == Control!Spec => Control!InterruptionIsKept
  <1>1. /\ Control!TypeOK /\ OwnRecords /\ (LateUpdates = FALSE => ControlInv)
        /\ [Control!Next]_(Control!vars)
        => [Control!RecordStands]_(Control!vars)
    BY StepKeepsRecord, WorldKeepsRecord DEF Control!Next, Control!RecordStands
  <1>2. Control!Spec => [][Control!RecordStands]_(Control!vars)
    BY <1>1, ControlTypes, RecordsInvariance, ControlInvariance, PTL DEF Control!Spec
  <1> QED BY <1>2 DEF Control!InterruptionIsKept

-----------------------------------------------------------------------------
(* send() of the broadcast service                                         *)

Apart ==
    \A c, d \in Callers : c # d /\ broadcastPc[c] # "idle" /\ broadcastPc[d] # "idle" =>
        broadcastJob[c] # broadcastJob[d]

BroadcastKnows(c) ==
    /\ broadcastPc[c] \in {"readSigned", "revalidate", "record"} => records[broadcastJob[c]] = "none"
    /\ broadcastPc[c] \in {"revalidate", "record", "send"} => signed[broadcastJob[c]] # "none"
    /\ broadcastPc[c] \in {"record", "send"} => c \notin stale
    /\ broadcastPc[c] = "send" => sent[broadcastJob[c]] = 0
    /\ broadcastPc[c] \in {"send", "await"} => records[broadcastJob[c]] = "BROADCASTING"
    /\ broadcastPc[c] \in {"wait", "verify", "confirm"} => records[broadcastJob[c]] = "SUBMITTED"
    /\ broadcastPc[c] \in {"verify", "confirm"} => broadcastJob[c] \in buried
    /\ broadcastPc[c] # "idle" /\ c \in stale => broadcastJob[c] \notin valid

BroadcastKnowledge == \A c \in Callers : BroadcastKnows(c)

\* What two confirmations buried stays known as buried.
Confirmed == \A j \in Jobs : (records[j] = "CONFIRMED" \/ chain[j] \in Broadcast!Deep) => j \in buried

BroadcastInv ==
    /\ Broadcast!TypeOK
    /\ Apart
    /\ BroadcastKnowledge
    /\ Confirmed
    /\ Broadcast!OneSendPerJob

\* TypeOK without its last conjunct, which is about locks.
BroadcastTyped ==
    /\ records \in [Jobs -> Broadcast!RecordStates]
    /\ locks \subseteq Jobs
    /\ signed \in [Jobs -> {"none", "SIGNED", "QUARANTINED"}]
    /\ valid \subseteq Jobs
    /\ chain \in [Jobs -> Broadcast!Places]
    /\ sent \in [Jobs -> Nat] /\ buried \subseteq Jobs
    /\ broadcastPc \in [Callers -> Broadcast!Steps] /\ broadcastJob \in [Callers -> Jobs]
    /\ broadcastOutcome \in [Callers -> {"none", "receipt", "error"}] /\ stale \subseteq Callers

\* The record a call writes at each of its steps.
Writes(step, state) ==
    \/ step = "record" /\ state = "BROADCASTING"
    \/ step = "await" /\ state \in {"SUBMITTED", "UNKNOWN"}
    \/ step = "confirm" /\ state = "CONFIRMED"

\* A step of call c touches its own job only: it writes its record or sends.
BroadcastOwnStep(c) ==
    /\ broadcastPc[c] # "idle" /\ broadcastPc' \in [Callers -> Broadcast!Steps]
    /\ UNCHANGED <<broadcastJob, stale, signed, valid, chain, buried>>
    /\ broadcastOutcome' \in [Callers -> {"none", "receipt", "error"}]
    /\ \A d \in Callers \ {c} : broadcastPc'[d] = broadcastPc[d]
    /\ \/ records' = records
       \/ \E state \in Broadcast!RecordStates : /\ Writes(broadcastPc[c], state)
                                      /\ records' = [records EXCEPT ![broadcastJob[c]] = state]
    /\ \/ sent' = sent
       \/ /\ broadcastPc[c] = "send" /\ records' = records
          /\ sent' = [sent EXCEPT ![broadcastJob[c]] = @ + 1]
    /\ locks \ {broadcastJob[c]} \subseteq locks' /\ locks' \subseteq locks
    /\ broadcastPc'[c] # "idle" => locks' = locks

\* Every step of a running call, its crash included, is such a step.
LEMMA BroadcastCallSteps ==
    ASSUME BroadcastTyped, NEW c \in Callers, Broadcast!CallerStep(c) \/ Broadcast!Crash(c)
    PROVE  BroadcastOwnStep(c)
  <1> USE DEF BroadcastTyped, BroadcastOwnStep, Broadcast!Goto, Broadcast!Throw,
             Broadcast!Leave, Broadcast!Store, Broadcast!StoreThrows, Broadcast!At, Broadcast!Steps,
             Broadcast!RecordStates, Writes, Broadcast!world, Broadcast!netVars
  <1>1. CASE Broadcast!ReadPrior(c)
    BY <1>1 DEF Broadcast!ReadPrior
  <1>2. CASE Broadcast!VerifyPrior(c)
    BY <1>2 DEF Broadcast!VerifyPrior
  <1>3. CASE Broadcast!ReadSigned(c)
    BY <1>3 DEF Broadcast!ReadSigned
  <1>4. CASE Broadcast!Revalidate(c)
    BY <1>4 DEF Broadcast!Revalidate
  <1>5. CASE Broadcast!Record(c)
    BY <1>5 DEF Broadcast!Record
  <1>6. CASE Broadcast!SendRaw(c)
    BY <1>6 DEF Broadcast!SendRaw
  <1>7. CASE Broadcast!AwaitSend(c)
    BY <1>7 DEF Broadcast!AwaitSend
  <1>8. CASE Broadcast!WaitReceipt(c)
    BY <1>8 DEF Broadcast!WaitReceipt
  <1>9. CASE Broadcast!VerifyMined(c)
    BY <1>9 DEF Broadcast!VerifyMined
  <1>10. CASE Broadcast!Confirm(c)
    BY <1>10 DEF Broadcast!Confirm
  <1>11. CASE Broadcast!Unlock(c)
    BY <1>11 DEF Broadcast!Unlock
  <1>12. CASE Broadcast!Crash(c)
    BY <1>12 DEF Broadcast!Crash
  <1> QED BY <1>1, <1>2, <1>3, <1>4, <1>5, <1>6, <1>7, <1>8, <1>9, <1>10, <1>11, <1>12
     DEF Broadcast!CallerStep

-----------------------------------------------------------------------------
(* The invariant survives the steps of a call                              *)

\* What another call knows stays true: its job is not this call's.
LEMMA BroadcastOthersKnow ==
    ASSUME BroadcastInv, NEW c \in Callers, BroadcastOwnStep(c), NEW d \in Callers, d # c
    PROVE  BroadcastKnows(d)'
  <1>1. BroadcastTyped /\ BroadcastKnows(d)
    BY DEF BroadcastInv, Broadcast!TypeOK, BroadcastTyped, BroadcastKnowledge
  <1>2. /\ broadcastPc'[d] = broadcastPc[d] /\ broadcastJob' = broadcastJob /\ stale' = stale
        /\ signed' = signed
        /\ valid' = valid /\ buried' = buried
    BY DEF BroadcastOwnStep
  <1>3. CASE broadcastPc[d] = "idle"
    BY <1>2, <1>3 DEF BroadcastKnows
  <1>4. CASE broadcastPc[d] # "idle"
    <2>1. broadcastJob[d] # broadcastJob[c] /\ broadcastJob[d] \in Jobs /\ broadcastJob[c] \in Jobs
      BY <1>1, <1>4 DEF BroadcastInv, Apart, BroadcastOwnStep, BroadcastTyped
    <2>2. records'[broadcastJob[d]] = records[broadcastJob[d]]
      BY <1>1, <2>1 DEF BroadcastOwnStep, BroadcastTyped
    <2>3. sent'[broadcastJob[d]] = sent[broadcastJob[d]]
      BY <1>1, <2>1 DEF BroadcastOwnStep, BroadcastTyped
    <2> QED BY <1>1, <1>2, <2>2, <2>3 DEF BroadcastKnows
  <1> QED BY <1>3, <1>4

\* A call knows at each step what the steps before have read or written.
LEMMA BroadcastOwnKnowledge ==
    ASSUME BroadcastInv, NEW c \in Callers, Broadcast!CallerStep(c) \/ Broadcast!Crash(c)
    PROVE  BroadcastKnows(c)'
  <1>1. BroadcastTyped /\ BroadcastKnows(c) /\ BroadcastOwnStep(c)
    BY BroadcastCallSteps DEF BroadcastInv, Broadcast!TypeOK, BroadcastTyped, BroadcastKnowledge
  <1>2. /\ broadcastJob' = broadcastJob /\ stale' = stale /\ signed' = signed /\ valid' = valid
        /\ buried' = buried /\ broadcastJob[c] \in Jobs
    BY <1>1 DEF BroadcastOwnStep, BroadcastTyped
  <1>p. broadcastPc \in [Callers -> Broadcast!Steps] /\ records \in [Jobs -> Broadcast!RecordStates] /\ sent \in [Jobs -> Nat]
    BY <1>1 DEF BroadcastTyped
  <1>q. ASSUME broadcastPc'[c] \in {"idle", "unlock"} PROVE BroadcastKnows(c)'
    BY <1>q, <1>1, <1>2 DEF BroadcastKnows, BroadcastOwnStep
  <1>r. ASSUME broadcastPc'[c] \notin {"idle", "unlock"}, records' = records, sent' = sent,
               \/ broadcastPc[c] = "readPrior" /\ broadcastPc'[c] = "readSigned" /\ records[broadcastJob[c]] = "none"
               \/ broadcastPc[c] = "readPrior" /\ broadcastPc'[c] = "verifyPrior"
               \/ broadcastPc[c] = "readSigned" /\ broadcastPc'[c] = "revalidate" /\ signed[broadcastJob[c]] # "none"
               \/ broadcastPc[c] = "revalidate" /\ broadcastPc'[c] = "record" /\ broadcastJob[c] \in valid
               \/ broadcastPc[c] = "wait" /\ broadcastPc'[c] = "verify" /\ broadcastJob[c] \in buried
               \/ broadcastPc[c] = "verify" /\ broadcastPc'[c] = "confirm"
        PROVE  BroadcastKnows(c)'
    BY <1>r, <1>1, <1>2 DEF BroadcastKnows, BroadcastOwnStep
  <1> USE <1>p DEF Broadcast!At, Broadcast!Goto, Broadcast!Throw, Broadcast!Leave, Broadcast!StoreThrows
  <1>3. CASE Broadcast!ReadPrior(c)
    BY <1>3, <1>q, <1>r DEF Broadcast!ReadPrior, Broadcast!world, Broadcast!netVars
  <1>4. CASE Broadcast!ReadSigned(c)
    BY <1>4, <1>q, <1>r DEF Broadcast!ReadSigned, Broadcast!world, Broadcast!netVars
  <1>5. CASE Broadcast!Revalidate(c)
    BY <1>5, <1>q, <1>r DEF Broadcast!Revalidate, Broadcast!world, Broadcast!netVars
  <1>6. CASE Broadcast!Record(c)
    <2>1. CASE broadcastPc'[c] = "unlock"
      BY <2>1, <1>q
    <2>2. CASE broadcastPc'[c] = "send"
      <3>1. /\ broadcastPc[c] = "record" /\ sent' = sent
            /\ records' = [records EXCEPT ![broadcastJob[c]] = "BROADCASTING"]
        BY <2>2, <1>6 DEF Broadcast!Record, Broadcast!Store, Broadcast!world, Broadcast!netVars
      <3>2. sent[broadcastJob[c]] = 0
        BY <3>1, <1>1, <1>2 DEF BroadcastKnows, BroadcastInv, Broadcast!OneSendPerJob
      <3> QED BY <2>2, <3>1, <3>2, <1>1, <1>2 DEF BroadcastKnows
    <2> QED BY <2>1, <2>2, <1>6 DEF Broadcast!Record
  <1>7. CASE Broadcast!SendRaw(c)
    <2>1. broadcastPc[c] = "send" /\ broadcastPc'[c] = "await" /\ records' = records
      BY <1>7 DEF Broadcast!SendRaw
    <2> QED BY <2>1, <1>1, <1>2 DEF BroadcastKnows
  <1>8. CASE Broadcast!AwaitSend(c)
    <2>1. CASE broadcastPc'[c] = "unlock"
      BY <2>1, <1>q
    <2>2. CASE broadcastPc'[c] = "wait"
      <3>1. broadcastPc[c] = "await" /\ records' = [records EXCEPT ![broadcastJob[c]] = "SUBMITTED"]
        BY <2>2, <1>8 DEF Broadcast!AwaitSend, Broadcast!Store
      <3> QED BY <2>2, <3>1, <1>1, <1>2 DEF BroadcastKnows
    <2> QED BY <2>1, <2>2, <1>8 DEF Broadcast!AwaitSend
  <1>9. CASE Broadcast!WaitReceipt(c)
    BY <1>9, <1>q, <1>r, <1>2 DEF Broadcast!WaitReceipt, BroadcastInv, Confirmed,
       Broadcast!world, Broadcast!netVars
  <1>10. CASE Broadcast!VerifyMined(c)
    BY <1>10, <1>q, <1>r DEF Broadcast!VerifyMined, Broadcast!world, Broadcast!netVars
  <1>11. CASE Broadcast!VerifyPrior(c) \/ Broadcast!Confirm(c) \/ Broadcast!Unlock(c)
              \/ Broadcast!Crash(c)
    BY <1>11, <1>q DEF Broadcast!VerifyPrior, Broadcast!Confirm, Broadcast!Unlock, Broadcast!Crash
  <1> QED BY <1>3, <1>4, <1>5, <1>6, <1>7, <1>8, <1>9, <1>10, <1>11 DEF Broadcast!CallerStep

\* A step of a call preserves the invariant.
LEMMA BroadcastStepKeepsInvariant ==
    ASSUME BroadcastInv, NEW c \in Callers, Broadcast!CallerStep(c) \/ Broadcast!Crash(c)
    PROVE  BroadcastInv'
  <1>1. BroadcastTyped /\ BroadcastKnows(c) /\ BroadcastOwnStep(c) /\ broadcastJob[c] \in Jobs
    BY BroadcastCallSteps DEF BroadcastInv, Broadcast!TypeOK, BroadcastTyped, BroadcastKnowledge
  <1>2. broadcastJob' = broadcastJob /\ \A d \in Callers : broadcastPc'[d] # "idle" => broadcastPc[d] # "idle"
    BY <1>1 DEF BroadcastOwnStep
  <1>3. Apart'
    BY <1>2 DEF BroadcastInv, Apart
  <1>4. Broadcast!TypeOK'
    <2>1. records' \in [Jobs -> Broadcast!RecordStates] /\ sent' \in [Jobs -> Nat]
      BY <1>1 DEF BroadcastOwnStep, BroadcastTyped
    <2>2. \A d \in Callers : broadcastPc'[d] # "idle" => broadcastJob[d] \in locks'
      <3> SUFFICES ASSUME NEW d \in Callers, broadcastPc'[d] # "idle" PROVE broadcastJob[d] \in locks'
        OBVIOUS
      <3>1. broadcastJob[d] \in locks /\ (d = c \/ broadcastJob[d] # broadcastJob[c])
        BY <1>1, <1>2 DEF BroadcastInv, Broadcast!TypeOK, Apart, BroadcastOwnStep
      <3> QED BY <3>1, <1>1 DEF BroadcastOwnStep
    <2>3. /\ locks' \subseteq Jobs /\ signed' = signed /\ valid' = valid /\ chain' = chain
          /\ buried' = buried /\ stale' = stale /\ broadcastPc' \in [Callers -> Broadcast!Steps]
          /\ broadcastOutcome' \in [Callers -> {"none", "receipt", "error"}]
      BY <1>1 DEF BroadcastOwnStep, BroadcastTyped
    <2> QED BY <1>1, <1>2, <2>1, <2>2, <2>3 DEF Broadcast!TypeOK, BroadcastTyped
  <1>5. BroadcastKnowledge'
    BY <1>1, BroadcastOwnKnowledge, BroadcastOthersKnow DEF BroadcastKnowledge
  <1>6. Confirmed'
    <2> SUFFICES ASSUME NEW j \in Jobs, records'[j] = "CONFIRMED" \/ chain[j] \in Broadcast!Deep PROVE j \in buried
      BY <1>1 DEF Confirmed, BroadcastOwnStep
    <2>1. CASE records'[j] = records[j]
      BY <2>1 DEF BroadcastInv, Confirmed
    <2>2. CASE records'[j] # records[j] /\ records'[j] = "CONFIRMED"
      <3>1. broadcastPc[c] = "confirm" /\ j = broadcastJob[c]
        BY <2>2, <1>1 DEF BroadcastOwnStep, BroadcastTyped, Writes
      <3> QED BY <3>1, <1>1 DEF BroadcastKnows
    <2>3. CASE chain[j] \in Broadcast!Deep
      BY <2>3 DEF BroadcastInv, Confirmed
    <2> QED BY <2>1, <2>2, <2>3
  <1>7. Broadcast!OneSendPerJob'
    <2> SUFFICES ASSUME NEW j \in Jobs PROVE sent'[j] <= 1 /\ (sent'[j] > 0 => records'[j] # "none")
      BY DEF Broadcast!OneSendPerJob
    <2>1. CASE j # broadcastJob[c]
      <3>1. sent'[j] = sent[j] /\ records'[j] = records[j]
        BY <2>1, <1>1 DEF BroadcastOwnStep, BroadcastTyped
      <3> QED BY <3>1 DEF BroadcastInv, Broadcast!OneSendPerJob
    <2>2. CASE j = broadcastJob[c] /\ sent' = sent
      <3>1. records'[j] = records[j] \/ records'[j] # "none"
        BY <2>2, <1>1 DEF BroadcastOwnStep, BroadcastTyped, Writes
      <3> QED BY <3>1, <2>2 DEF BroadcastInv, Broadcast!OneSendPerJob
    <2>3. CASE j = broadcastJob[c] /\ sent' # sent
      <3>1. /\ broadcastPc[c] = "send" /\ records' = records
            /\ sent' = [sent EXCEPT ![broadcastJob[c]] = @ + 1]
        BY <2>3, <1>1 DEF BroadcastOwnStep
      <3>2. sent[j] = 0 /\ records[j] = "BROADCASTING"
        BY <2>3, <3>1, <1>1 DEF BroadcastKnows
      <3>3. sent'[j] = 1
        BY <2>3, <3>1, <3>2, <1>1 DEF BroadcastTyped
      <3> QED BY <3>1, <3>2, <3>3
    <2> QED BY <2>1, <2>2, <2>3
  <1> QED BY <1>3, <1>4, <1>5, <1>6, <1>7 DEF BroadcastInv

-----------------------------------------------------------------------------
(* The invariant survives everything else                                  *)

\* A new call takes a lock nobody holds, so its job is no running call's.
LEMMA BroadcastCallKeepsInvariant ==
    ASSUME BroadcastInv, NEW c \in Callers, NEW j \in Jobs, Broadcast!Call(c, j)
    PROVE  BroadcastInv'
  <1>1. /\ broadcastPc[c] = "idle" /\ j \notin locks /\ locks' = locks \cup {j}
        /\ records' = records /\ signed' = signed /\ valid' = valid /\ chain' = chain
        /\ sent' = sent /\ buried' = buried
        /\ stale' = IF j \in valid THEN stale \ {c} ELSE stale \cup {c}
    BY DEF Broadcast!Call, Broadcast!At, Broadcast!world, Broadcast!netVars
  <1>2. /\ broadcastPc' \in [Callers -> Broadcast!Steps] /\ broadcastJob' \in [Callers -> Jobs]
        /\ broadcastOutcome' \in [Callers -> {"none", "receipt", "error"}]
        /\ stale' \subseteq Callers
        /\ broadcastPc'[c] = "readPrior" /\ broadcastJob'[c] = j
        /\ \A d \in Callers : d # c => /\ broadcastPc'[d] = broadcastPc[d] /\ broadcastJob'[d] = broadcastJob[d]
                                       /\ d \in stale' <=> d \in stale
    BY <1>1 DEF Broadcast!Call, BroadcastInv, Broadcast!TypeOK, Broadcast!Steps
  <1>3. Broadcast!TypeOK'
    <2>1. \A d \in Callers : broadcastPc'[d] # "idle" => broadcastJob'[d] \in locks'
      BY <1>1, <1>2 DEF BroadcastInv, Broadcast!TypeOK
    <2> QED BY <2>1, <1>1, <1>2 DEF BroadcastInv, Broadcast!TypeOK
  <1>4. Apart'
    <2>1. \A d \in Callers : d # c /\ broadcastPc[d] # "idle" => broadcastJob[d] # j
      BY <1>1 DEF BroadcastInv, Broadcast!TypeOK
    <2> QED BY <2>1, <1>2 DEF BroadcastInv, Apart
  <1>5. BroadcastKnowledge'
    <2> SUFFICES ASSUME NEW d \in Callers PROVE BroadcastKnows(d)'
      BY DEF BroadcastKnowledge
    <2>1. CASE d = c
      BY <2>1, <1>1, <1>2 DEF BroadcastKnows
    <2>2. CASE d # c
      BY <2>2, <1>1, <1>2 DEF BroadcastInv, BroadcastKnowledge, BroadcastKnows
    <2> QED BY <2>1, <2>2
  <1>6. Confirmed' /\ Broadcast!OneSendPerJob'
    BY <1>1 DEF BroadcastInv, Confirmed, Broadcast!OneSendPerJob
  <1> QED BY <1>3, <1>4, <1>5, <1>6 DEF BroadcastInv

\* The signing store moves away from "none" only.
LEMMA BroadcastSigningKeepsInvariant ==
    ASSUME BroadcastInv, NEW j \in Jobs, Broadcast!SigningStore(j)
    PROVE  BroadcastInv'
  <1>1. /\ records' = records /\ locks' = locks /\ valid' = valid /\ chain' = chain /\ sent' = sent
        /\ buried' = buried /\ broadcastPc' = broadcastPc /\ broadcastJob' = broadcastJob
        /\ broadcastOutcome' = broadcastOutcome /\ stale' = stale
    BY DEF Broadcast!SigningStore, Broadcast!netVars, Broadcast!callVars
  <1>2. /\ signed' \in [Jobs -> {"none", "SIGNED", "QUARANTINED"}]
        /\ \A i \in Jobs : signed[i] # "none" => signed'[i] # "none"
    BY DEF Broadcast!SigningStore, BroadcastInv, Broadcast!TypeOK
  <1>3. BroadcastKnowledge'
    BY <1>1, <1>2 DEF BroadcastInv, Broadcast!TypeOK, BroadcastKnowledge, BroadcastKnows
  <1> QED BY <1>1, <1>2, <1>3 DEF BroadcastInv, Broadcast!TypeOK, Apart, Confirmed,
     Broadcast!OneSendPerJob

\* What is buried stays so in the history, and every deep place is recorded there.
LEMMA BroadcastChainKeepsInvariant ==
    ASSUME BroadcastInv, NEW j \in Jobs, Broadcast!ChainMoves(j)
    PROVE  BroadcastInv'
  <1>1. /\ records' = records /\ locks' = locks /\ valid' = valid /\ signed' = signed
        /\ sent' = sent
        /\ broadcastPc' = broadcastPc /\ broadcastJob' = broadcastJob
        /\ broadcastOutcome' = broadcastOutcome /\ stale' = stale
    BY DEF Broadcast!ChainMoves, Broadcast!callVars
  <1>2. PICK move \in Broadcast!Moves :
          /\ chain' = [chain EXCEPT ![j] = move[2]]
          /\ buried' = IF move[2] \in Broadcast!Deep THEN buried \cup {j} ELSE buried
    BY DEF Broadcast!ChainMoves
  <1>3. /\ chain' \in [Jobs -> Broadcast!Places] /\ buried' \subseteq Jobs
        /\ buried \subseteq buried'
        /\ \A i \in Jobs : chain'[i] \in Broadcast!Deep => chain[i] \in Broadcast!Deep \/ i \in buried'
    BY <1>2 DEF BroadcastInv, Broadcast!TypeOK, Broadcast!Moves, Broadcast!Places
  <1>4. BroadcastKnowledge'
    BY <1>1, <1>3 DEF BroadcastInv, BroadcastKnowledge, BroadcastKnows
  <1>5. Broadcast!TypeOK' /\ Apart' /\ Broadcast!OneSendPerJob'
    BY <1>1, <1>3 DEF BroadcastInv, Broadcast!TypeOK, Apart, Broadcast!OneSendPerJob
  <1>6. Confirmed'
    BY <1>1, <1>3 DEF BroadcastInv, Confirmed
  <1> QED BY <1>4, <1>5, <1>6 DEF BroadcastInv

\* Losing validity, removing a lock nobody holds and stuttering disturb nothing.
LEMMA BroadcastQuietKeepsInvariant ==
    ASSUME BroadcastInv,
           \/ UNCHANGED Broadcast!vars
           \/ \E j \in Jobs : Broadcast!Invalidate(j) \/ Broadcast!RemoveAbandonedLock(j)
    PROVE  BroadcastInv'
  <1>1. /\ records' = records /\ signed' = signed /\ chain' = chain /\ sent' = sent
        /\ buried' = buried /\ broadcastPc' = broadcastPc /\ broadcastJob' = broadcastJob
        /\ broadcastOutcome' = broadcastOutcome /\ stale' = stale
        /\ valid' \subseteq valid /\ locks' \subseteq locks
        /\ \A c \in Callers : broadcastPc[c] # "idle" /\ broadcastJob[c] \in locks => broadcastJob[c] \in locks'
    BY DEF Broadcast!Invalidate, Broadcast!RemoveAbandonedLock, Broadcast!vars, Broadcast!world,
       Broadcast!netVars, Broadcast!callVars, Broadcast!At
  <1>2. Broadcast!TypeOK'
    BY <1>1 DEF BroadcastInv, Broadcast!TypeOK
  <1>3. BroadcastKnowledge'
    BY <1>1 DEF BroadcastInv, BroadcastKnowledge, BroadcastKnows
  <1> QED BY <1>1, <1>2, <1>3 DEF BroadcastInv, Apart, Confirmed, Broadcast!OneSendPerJob

\* The invariant is inductive.
LEMMA BroadcastInductive ==
    /\ Broadcast!Init => BroadcastInv
    /\ BroadcastInv /\ [Broadcast!Next]_(Broadcast!vars) => BroadcastInv'
  <1>1. Broadcast!Init => BroadcastInv
    BY DEF Broadcast!Init, BroadcastInv, Broadcast!TypeOK, Apart, BroadcastKnowledge,
       BroadcastKnows, Confirmed, Broadcast!OneSendPerJob, Broadcast!Steps,
           Broadcast!RecordStates, Broadcast!Places, Broadcast!Deep
  <1>2. BroadcastInv /\ [Broadcast!Next]_(Broadcast!vars) => BroadcastInv'
    BY BroadcastCallKeepsInvariant, BroadcastStepKeepsInvariant, BroadcastSigningKeepsInvariant,
       BroadcastChainKeepsInvariant,
       BroadcastQuietKeepsInvariant DEF Broadcast!Next
  <1> QED BY <1>1, <1>2

\* Every state of the service satisfies the invariant.
THEOREM BroadcastInvariance == Broadcast!Spec => []BroadcastInv
  BY BroadcastInductive, PTL DEF Broadcast!Spec

-----------------------------------------------------------------------------
(* The theorems                                                            *)

\* Values keep their types, and a running call of send() holds its lock.
THEOREM BroadcastTypeCorrect == Broadcast!Spec => []Broadcast!TypeOK
  <1>1. BroadcastInv => Broadcast!TypeOK
    BY DEF BroadcastInv
  <1> QED BY <1>1, BroadcastInvariance, PTL

\* A transaction is handed to the network at most once, after its record.
THEOREM SingleSend == Broadcast!Spec => []Broadcast!OneSendPerJob
  <1>1. BroadcastInv => Broadcast!OneSendPerJob
    BY DEF BroadcastInv
  <1> QED BY <1>1, BroadcastInvariance, PTL

\* What is sent was signed, and valid when its call began.
THEOREM FreshSend == Broadcast!Spec => Broadcast!SendIsFresh
  <1>1. BroadcastInv => \A c \in Callers :
                  Broadcast!At(c, "send") /\ Broadcast!At(c, "await")' =>
                     c \notin stale /\ signed[broadcastJob[c]] # "none"
    BY DEF BroadcastInv, BroadcastKnowledge, BroadcastKnows, Broadcast!At
  <1>2. Broadcast!Spec => [][\A c \in Callers :
                  Broadcast!At(c, "send") /\ Broadcast!At(c, "await")' =>
                     c \notin stale /\ signed[broadcastJob[c]] # "none"]_(Broadcast!vars)
    BY <1>1, BroadcastInvariance, PTL DEF Broadcast!Spec
  <1> QED BY <1>2 DEF Broadcast!SendIsFresh

\* The body of ConfirmedIsBuried.
KeepsRecords ==
    \A j \in Jobs :
       /\ records[j] # "none" => records'[j] # "none"
       /\ records[j] \in {"UNKNOWN", "CONFIRMED"} => records'[j] = records[j]
       /\ records'[j] = "CONFIRMED" => j \in buried

\* Only a call writes records, each on a record of one state.
LEMMA BroadcastStepKeepsRecords == BroadcastInv /\ [Broadcast!Next]_(Broadcast!vars) => KeepsRecords
  <1> SUFFICES ASSUME BroadcastInv, [Broadcast!Next]_(Broadcast!vars) PROVE KeepsRecords
    OBVIOUS
  <1>1. ASSUME records' = records PROVE KeepsRecords
    BY <1>1 DEF KeepsRecords, BroadcastInv, Confirmed
  <1>2. ASSUME NEW c \in Callers, Broadcast!CallerStep(c) \/ Broadcast!Crash(c) PROVE KeepsRecords
    <2>1. BroadcastTyped /\ BroadcastOwnStep(c) /\ BroadcastKnows(c) /\ broadcastJob[c] \in Jobs
      BY <1>2, BroadcastCallSteps DEF BroadcastInv, BroadcastKnowledge, Broadcast!TypeOK,
         BroadcastTyped
    <2>2. ASSUME NEW state \in Broadcast!RecordStates, Writes(broadcastPc[c], state),
                 records' = [records EXCEPT ![broadcastJob[c]] = state]
          PROVE  KeepsRecords
      <3>1. records'[broadcastJob[c]] = state /\ \A j \in Jobs : j # broadcastJob[c] => records'[j] = records[j]
        BY <2>1, <2>2 DEF BroadcastTyped
      <3>2. /\ state # "none" /\ records[broadcastJob[c]] \notin {"UNKNOWN", "CONFIRMED"}
            /\ state = "CONFIRMED" => broadcastJob[c] \in buried
        BY <2>1, <2>2 DEF Writes, BroadcastKnows
      <3> QED BY <3>1, <3>2 DEF KeepsRecords, BroadcastInv, Confirmed
    <2> QED BY <2>1, <2>2, <1>1 DEF BroadcastOwnStep
  <1>3. CASE UNCHANGED Broadcast!vars
    BY <1>1, <1>3 DEF Broadcast!vars
  <1>4. CASE Broadcast!Next
    <2>1. ASSUME NEW c \in Callers, NEW j \in Jobs, Broadcast!Call(c, j) PROVE KeepsRecords
      BY <2>1, <1>1 DEF Broadcast!Call
    <2>2. ASSUME NEW j \in Jobs,
                 \/ Broadcast!SigningStore(j) \/ Broadcast!Invalidate(j) \/ Broadcast!ChainMoves(j)
                 \/ Broadcast!RemoveAbandonedLock(j)
          PROVE  KeepsRecords
      BY <2>2, <1>1 DEF Broadcast!SigningStore, Broadcast!Invalidate, Broadcast!ChainMoves,
         Broadcast!RemoveAbandonedLock
    <2> QED BY <1>2, <1>4, <2>1, <2>2 DEF Broadcast!Next
  <1> QED BY <1>3, <1>4

\* CONFIRMED means two confirmations, and records only move forward.
THEOREM ConfirmationsAreBuried == Broadcast!Spec => Broadcast!ConfirmedIsBuried
  <1>1. Broadcast!Spec => [][\A j \in Jobs :
                     /\ records[j] # "none" => records'[j] # "none"
                     /\ records[j] \in {"UNKNOWN", "CONFIRMED"} => records'[j] = records[j]
                     /\ records'[j] = "CONFIRMED" => j \in buried]_(Broadcast!vars)
    BY BroadcastStepKeepsRecords, BroadcastInvariance, PTL DEF Broadcast!Spec, KeepsRecords
  <1> QED BY <1>1 DEF Broadcast!ConfirmedIsBuried

-----------------------------------------------------------------------------
(* The leg implements the window                                           *)

LEMMA ControlUnchanged == UNCHANGED controlVars => UNCHANGED Control!vars
  BY DEF controlVars, Control!vars, Control!storeVars, Control!remoteVars, Control!callVars

LEMMA ControlStep == [Next]_vars => [Control!Next]_(Control!vars)
  <1> SUFFICES ASSUME [Next]_vars PROVE Control!Next \/ UNCHANGED controlVars
    BY ControlUnchanged
  <1>1. ASSUME NEW c \in Callers, NEW j \in Jobs, Start(c, j) PROVE Control!Next
    BY <1>1 DEF Start, Control!Next
  <1>2. ASSUME NEW c \in Callers, Signing(c) PROVE Control!Next
    BY <1>2 DEF Signing, Control!Next
  <1>3. ASSUME NEW c \in Callers, Save(c) \/ Send(c) \/ Sending(c) PROVE UNCHANGED controlVars
    BY <1>3 DEF Save, Send, Sending
  <1>4. ASSUME NEW c \in Callers, Crash(c) PROVE Control!Next \/ UNCHANGED controlVars
    BY <1>4 DEF Crash, Control!Next
  <1>5. CASE Provider
    BY <1>5 DEF Provider, Control!Next
  <1>6. CASE Network \/ UNCHANGED vars
    BY <1>6 DEF Network, vars
  <1> QED BY <1>1, <1>2, <1>3, <1>4, <1>5, <1>6 DEF Next, CallerStep

\* Every behaviour of operatorSend is one of OperatorControl.sign().
THEOREM ImplementsControl == Spec => Control!Spec
  <1>1. Init => Control!Init
    BY DEF Init
  <1> QED BY <1>1, ControlStep, PTL DEF Spec, Control!Spec

LEMMA ControlTyped == Spec => []Control!TypeOK
  BY ImplementsControl, ControlTypeCorrect

\* The exact policy is in place only under its durable record.
THEOREM LegRestoresDeny == ASSUME LateUpdates = FALSE PROVE Spec => []RestoresDeny
  <1>1. Control!Spec => []Control!RestoresDeny
    BY LateUpdates = FALSE, WindowIsRecorded
  <1> QED BY <1>1, ImplementsControl DEF RestoresDeny

\* The same in the leg.
THEOREM LegKeepsInterruption == Spec => InterruptionIsKept
  BY RecordIsKept, ImplementsControl DEF InterruptionIsKept

-----------------------------------------------------------------------------
(* The leg implements the broadcast                                        *)

SignedInv ==
    /\ signed \in [Jobs -> {"none", "SIGNED", "QUARANTINED"}]
    /\ \A c \in Callers : controlPc[c] = "awaitSignature" => signed[controlJob[c]] = "none"

\* A call inside the window, which no other call shares.
LEMMA InWindow ==
    ASSUME Control!TypeOK, NEW c \in Callers,
           Control!CallerStep(c) \/ Control!Crash(c)
    PROVE  /\ ControlOwnStep(c)
           /\ \A d \in Callers \ {c} : controlPc[d] = "idle" /\ controlPc'[d] = "idle"
  <1>1. ControlOwnStep(c)
    BY ControlCallSteps
  <1>2. controlPc[c] # "idle" /\ \A d \in Callers : d # c => controlPc'[d] = controlPc[d]
    BY <1>1 DEF ControlOwnStep
  <1>3. \A d \in Callers : controlPc[d] # "idle" => d = c
    BY <1>2 DEF Control!TypeOK
  <1> QED BY <1>1, <1>2, <1>3

\* What a step inside the window does to the record of its job.
LEMMA StoreStep ==
    ASSUME Control!TypeOK, SignedInv, NEW c \in Callers, Signing(c)
    PROVE  /\ SignedInv'
           /\ \/ signed' = signed
              \/ signed[controlJob[c]] = "none"
                 /\ signed' = [signed EXCEPT ![controlJob[c]] = "SIGNED"]
              \/ signed[controlJob[c]] = "SIGNED"
                 /\ signed' = [signed EXCEPT ![controlJob[c]] = "QUARANTINED"]
  <1> DEFINE j == controlJob[c]
             returns == (controlPc[c] = "sign" \/ controlPc[c] = "awaitSignature")
                        /\ controlOutcome'[c] = "signed"
  <1>1. ControlOwnStep(c) /\ \A d \in Callers \ {c} : controlPc'[d] = "idle"
    BY InWindow DEF Signing
  <1>2. j \in Jobs /\ controlJob' = controlJob
    BY <1>1 DEF ControlOwnStep, Control!TypeOK
  <1>3. /\ controlPc[c] = "sign" /\ returns => signed[j] = "SIGNED"
        /\ controlPc'[c] = "awaitSignature" => signed[j] = "none"
        /\ \/ signed' = IF returns THEN [signed EXCEPT ![j] = "SIGNED"] ELSE signed
           \/ /\ controlPc[c] = "sign" /\ ~returns /\ signed[j] = "SIGNED"
              /\ signed' = [signed EXCEPT ![j] = "QUARANTINED"]
           \/ /\ controlPc[c] = "awaitSignature"
              /\ signed' = [signed EXCEPT ![j] = "SIGNED"]
    BY DEF Signing, StoreSigned, Control!At
  <1>4. controlPc'[c] = "awaitSignature" => controlPc[c] = "sign"
    BY <1>1 DEF ControlOwnStep, Quiet, ControlMoves, Reads,
                Records, Requests, GivesUp,
                Clears, Releases, Dies
  <1>5. \/ signed' = signed
        \/ signed[j] = "none" /\ signed' = [signed EXCEPT ![j] = "SIGNED"]
        \/ signed[j] = "SIGNED" /\ signed' = [signed EXCEPT ![j] = "QUARANTINED"]
    BY <1>2, <1>3 DEF SignedInv
  <1>6. controlPc'[c] = "awaitSignature" => controlPc[c] = "sign" /\ (signed' = signed \/ returns)
    BY <1>3, <1>4
  <1>7. signed' \in [Jobs -> {"none", "SIGNED", "QUARANTINED"}]
    BY <1>2, <1>5 DEF SignedInv
  <1>8. SignedInv'
    BY <1>1, <1>2, <1>3, <1>6, <1>7 DEF SignedInv
  <1> QED BY <1>5, <1>8

LEMMA BroadcastUnchanged == UNCHANGED broadcastVars => UNCHANGED Broadcast!vars
  BY DEF broadcastVars, sendVars, Broadcast!vars, Broadcast!world, Broadcast!netVars,
     Broadcast!callVars

LEMMA SignedKept ==
    ASSUME Control!TypeOK, SignedInv, [Next]_vars
    PROVE  SignedInv' /\ [Broadcast!Next]_(Broadcast!vars)
  <1> USE DEF Broadcast!world, Broadcast!netVars
  <1>0. ASSUME UNCHANGED <<controlPc, controlJob, signed>> PROVE SignedInv'
    BY <1>0 DEF SignedInv
  <1>1. ASSUME NEW c \in Callers, NEW j \in Jobs, Start(c, j)
        PROVE  SignedInv' /\ [Broadcast!Next]_(Broadcast!vars)
    <2>1. /\ controlPc' = [controlPc EXCEPT ![c] = "readInterrupted"]
          /\ controlJob' = [controlJob EXCEPT ![c] = j] /\ UNCHANGED broadcastVars
      BY <1>1 DEF Start, Control!Call
    <2>2. SignedInv'
      BY <2>1 DEF SignedInv, Control!TypeOK, broadcastVars
    <2> QED BY <2>1, <2>2, BroadcastUnchanged
  <1>2. ASSUME NEW c \in Callers, Signing(c)
        PROVE  SignedInv' /\ [Broadcast!Next]_(Broadcast!vars)
    <2>1. controlJob[c] \in Jobs /\ UNCHANGED <<sendVars, valid>>
      BY <1>2 DEF Signing, Control!TypeOK
    <2>2. CASE signed' = signed
      BY <2>1, <2>2, <1>2, StoreStep, BroadcastUnchanged DEF broadcastVars
    <2>3. CASE \/ /\ signed[controlJob[c]] = "none"
                  /\ signed' = [signed EXCEPT ![controlJob[c]] = "SIGNED"]
               \/ /\ signed[controlJob[c]] = "SIGNED"
                  /\ signed' = [signed EXCEPT ![controlJob[c]] = "QUARANTINED"]
      <3>1. Broadcast!SigningStore(controlJob[c])
        BY <2>1, <2>3 DEF Broadcast!SigningStore, sendVars, Broadcast!callVars
      <3> QED BY <3>1, <2>1, <1>2, StoreStep DEF Broadcast!Next
    <2> QED BY <2>2, <2>3, <1>2, StoreStep
  <1>3. ASSUME NEW c \in Callers, Save(c) PROVE SignedInv' /\ [Broadcast!Next]_(Broadcast!vars)
    BY <1>3, <1>0, BroadcastUnchanged DEF Save, controlVars, broadcastVars
  <1>4. ASSUME NEW c \in Callers, Send(c) PROVE SignedInv' /\ [Broadcast!Next]_(Broadcast!vars)
    <2>1. controlJob[c] \in Jobs /\ UNCHANGED controlVars
      BY <1>4 DEF Send, Control!TypeOK
    <2>2. CASE UNCHANGED broadcastVars
      BY <2>1, <2>2, <1>0, BroadcastUnchanged DEF controlVars, broadcastVars
    <2>3. CASE Broadcast!Call(c, controlJob[c])
      <3>1. signed' = signed
        BY <2>3 DEF Broadcast!Call
      <3> QED BY <3>1, <2>1, <2>3, <1>0 DEF controlVars, Broadcast!Next
    <2> QED BY <1>4, <2>2, <2>3 DEF Send
  <1>5. ASSUME NEW c \in Callers, Sending(c) PROVE SignedInv' /\ [Broadcast!Next]_(Broadcast!vars)
    <2>1. Broadcast!CallerStep(c) /\ UNCHANGED controlVars
      BY <1>5 DEF Sending
    <2>2. signed' = signed
      BY <2>1 DEF Broadcast!CallerStep, Broadcast!ReadPrior, Broadcast!VerifyPrior,
             Broadcast!ReadSigned, Broadcast!Revalidate, Broadcast!Record, Broadcast!SendRaw,
             Broadcast!AwaitSend, Broadcast!WaitReceipt, Broadcast!VerifyMined,
             Broadcast!Confirm, Broadcast!Unlock
    <2> QED BY <2>1, <2>2, <1>0 DEF controlVars, Broadcast!Next
  <1>6. ASSUME NEW c \in Callers, Crash(c) PROVE SignedInv' /\ [Broadcast!Next]_(Broadcast!vars)
    <2>1. SignedInv'
      <3>1. signed' = signed
        BY <1>6 DEF Crash, Broadcast!Crash, broadcastVars
      <3>2. CASE UNCHANGED controlVars
        BY <3>1, <3>2, <1>0 DEF controlVars
      <3>3. CASE Control!Crash(c)
        <4>1. controlPc' = [controlPc EXCEPT ![c] = "idle"] /\ controlJob' = controlJob
          BY <3>3 DEF Control!Crash, Control!Throw, Control!Resolve
        <4> QED BY <3>1, <4>1 DEF SignedInv, Control!TypeOK
      <3> QED BY <1>6, <3>2, <3>3 DEF Crash
    <2> QED BY <1>6, <2>1, BroadcastUnchanged DEF Crash, Broadcast!Next
  <1>7. CASE Provider
    <2>1. UNCHANGED <<controlPc, controlJob>>
      BY <1>7 DEF Provider, Control!ApplyUpdate, Control!ProviderSigns, Control!ExternalEdit,
             Control!RemoveAbandonedLock, Control!Recover, Control!callVars
    <2>2. UNCHANGED broadcastVars
      BY <1>7 DEF Provider
    <2> QED BY <2>1, <2>2, <1>0, BroadcastUnchanged DEF broadcastVars
  <1>8. CASE Network
    <2>1. signed' = signed
      BY <1>8 DEF Network, Broadcast!Invalidate, Broadcast!ChainMoves,
         Broadcast!RemoveAbandonedLock
    <2> QED BY <1>8, <2>1, <1>0 DEF Network, controlVars, Broadcast!Next
  <1>9. CASE UNCHANGED vars
    BY <1>9, <1>0, BroadcastUnchanged DEF vars, controlVars, broadcastVars
  <1> QED BY <1>1, <1>2, <1>3, <1>4, <1>5, <1>6, <1>7, <1>8, <1>9 DEF Next, CallerStep

LEMMA SignedAlways == Spec => []SignedInv
  <1>1. Init => SignedInv
    BY DEF Init, Control!Init, Broadcast!Init, SignedInv
  <1>2. Control!TypeOK /\ SignedInv /\ [Next]_vars => SignedInv'
    BY SignedKept
  <1>3. Spec => []Control!TypeOK
    BY ControlTyped
  <1> QED BY <1>1, <1>2, <1>3, PTL DEF Spec

\* Every behaviour of operatorSend is one of DurableBroadcastService.send().
THEOREM ImplementsBroadcast == Spec => Broadcast!Spec
  <1>1. Init => Broadcast!Init
    BY DEF Init
  <1>2. Control!TypeOK /\ SignedInv /\ [Next]_vars => [Broadcast!Next]_(Broadcast!vars)
    BY SignedKept
  <1>3. (Spec => []Control!TypeOK) /\ (Spec => []SignedInv)
    BY ControlTyped, SignedAlways
  <1> QED BY <1>1, <1>2, <1>3, PTL DEF Spec, Broadcast!Spec

\* A transaction is handed to the network at most once, after its record.
THEOREM LegSendsOnce == Spec => []OneSendPerJob
  BY ImplementsBroadcast, SingleSend DEF OneSendPerJob

\* CONFIRMED means two confirmations, and records only move forward.
THEOREM LegConfirmsBuried == Spec => ConfirmedIsBuried
  BY ImplementsBroadcast, ConfirmationsAreBuried DEF ConfirmedIsBuried

-----------------------------------------------------------------------------
(* What is sent is safe to send                                            *)

\* What a call has behind it, await by await.
Knows(c) ==
    /\ controlPc[c] = "unlock" /\ controlOutcome[c] = "signed" => controlJob[c] \in evidence
    /\ leg[c] \in {"saving", "saved", "sending"} => controlJob[c] \in evidence
    /\ leg[c] \in {"saved", "sending"} => controlJob[c] \in saved
    /\ broadcastPc[c] # "idle" => leg[c] = "sending" /\ broadcastJob[c] = controlJob[c]
    /\ broadcastPc[c] \in {"record", "send"} => c \in calm

LegInv ==
    /\ leg \in [Callers -> {"idle", "signing", "saving", "saved", "sending"}]
    /\ \A c \in Callers : Knows(c)

Typed == Control!TypeOK /\ Broadcast!TypeOK

\* What holds of a call that does not move, as long as others only add.
LEMMA Stays ==
    ASSUME NEW c \in Callers, Knows(c), leg'[c] = leg[c], evidence \subseteq evidence',
           saved \subseteq saved', controlJob'[c] = controlJob[c], controlPc'[c] = controlPc[c],
           controlOutcome'[c] = controlOutcome[c], broadcastPc'[c] = broadcastPc[c],
           broadcastJob'[c] = broadcastJob[c], leg'[c] = "sending" /\ c \in calm => c \in calm'
    PROVE  Knows(c)'
  BY DEF Knows

\* What a step inside the window adds to the evidence, and how the window ends.
LEMMA WindowStep ==
    ASSUME Control!TypeOK, NEW c \in Callers, Control!CallerStep(c)
    PROVE  /\ evidence \subseteq evidence' /\ controlJob' = controlJob
           /\ \A d \in Callers \ {c} : /\ controlPc'[d] = controlPc[d]
                                       /\ controlOutcome'[d] = controlOutcome[d]
           /\ controlPc'[c] = "unlock" /\ controlOutcome'[c] = "signed"
                 => controlJob[c] \in evidence'
           /\ controlPc'[c] = "idle" /\ controlOutcome'[c] = "signed"
                 => controlPc[c] = "unlock" /\ controlOutcome[c] = "signed"
  <1>1. controlPc \in [Callers -> Control!Steps] /\ controlOutcome \in [Callers -> {"signed", "error"}]
    BY DEF Control!TypeOK
  <1> USE <1>1 DEF Control!Goto, Control!Throw, Control!Resolve, Control!At, Control!storeVars
  <1>2. CASE \/ Control!ReadInterrupted(c) \/ Control!AssertDeny(c) \/ Control!RevalidateFirst(c)
             \/ Control!RecordInterrupted(c) \/ Control!Install(c) \/ Control!AwaitInstall(c)
    BY <1>2 DEF Control!ReadInterrupted, Control!AssertDeny, Control!RevalidateFirst,
           Control!RecordInterrupted, Control!Install, Control!AwaitInstall
  <1>3. CASE \/ Control!AssertExact(c) \/ Control!Sign(c) \/ Control!AwaitSignature(c)
             \/ Control!Observe(c) \/ Control!Restore(c)
    BY <1>3 DEF Control!AssertExact, Control!Sign, Control!AwaitSignature, Control!Observe,
           Control!Restore
  <1>4. CASE \/ Control!AwaitRestore(c) \/ Control!AssertRestored(c) \/ Control!ClearInterrupted(c)
             \/ Control!WriteEvidence(c) \/ Control!Unlock(c)
    BY <1>4 DEF Control!AwaitRestore, Control!AssertRestored, Control!ClearInterrupted,
           Control!WriteEvidence, Control!Unlock
  <1> QED BY <1>2, <1>3, <1>4 DEF Control!CallerStep

\* send() reaches its record only through the last revalidation.
LEMMA SendStep ==
    ASSUME Broadcast!TypeOK, NEW c \in Callers, Broadcast!CallerStep(c)
    PROVE  /\ broadcastPc[c] # "idle" /\ broadcastJob' = broadcastJob
           /\ \A d \in Callers \ {c} : broadcastPc'[d] = broadcastPc[d]
           /\ broadcastPc'[c] = "send" => broadcastPc[c] = "record"
           /\ broadcastPc'[c] = "record" => broadcastPc[c] = "revalidate"
  <1>1. broadcastPc \in [Callers -> Broadcast!Steps]
    BY DEF Broadcast!TypeOK
  <1> USE <1>1 DEF Broadcast!At, Broadcast!Goto, Broadcast!Leave, Broadcast!Throw, Broadcast!StoreThrows
  <1>2. CASE Broadcast!ReadPrior(c)
    BY <1>2 DEF Broadcast!ReadPrior
  <1>3. CASE Broadcast!VerifyPrior(c) \/ Broadcast!ReadSigned(c) \/ Broadcast!Revalidate(c)
             \/ Broadcast!Record(c) \/ Broadcast!SendRaw(c)
    BY <1>3 DEF Broadcast!VerifyPrior, Broadcast!ReadSigned, Broadcast!Revalidate,
           Broadcast!Record, Broadcast!SendRaw
  <1>4. CASE Broadcast!AwaitSend(c) \/ Broadcast!WaitReceipt(c) \/ Broadcast!VerifyMined(c)
             \/ Broadcast!Confirm(c) \/ Broadcast!Unlock(c)
    BY <1>4 DEF Broadcast!AwaitSend, Broadcast!WaitReceipt, Broadcast!VerifyMined,
           Broadcast!Confirm, Broadcast!Unlock
  <1> QED BY <1>2, <1>3, <1>4 DEF Broadcast!CallerStep

LEMMA LegStep ==
    ASSUME Typed, LegInv, NoteCalm, NEW c \in Callers,
           CallerStep(c) \/ Crash(c) \/ \E j \in Jobs : Start(c, j)
    PROVE  LegInv'
  <1>0. Control!TypeOK /\ Broadcast!TypeOK
    BY DEF Typed
  <1>1. \A d \in Callers \ {c} : leg'[d] = leg[d]
    BY DEF CallerStep, Signing, Save, Send, Sending, Crash, Start, Goto, LegInv
  <1>2. leg' \in [Callers -> {"idle", "signing", "saving", "saved", "sending"}]
    BY DEF CallerStep, Signing, Save, Send, Sending, Crash, Start, Goto, LegInv
  <1>3. \A d \in Callers : leg'[d] = "sending" /\ d \in calm => d \in calm'
    BY DEF NoteCalm
  <1>4. Knows(c)
    BY DEF LegInv
  <1>5. SUFFICES Knows(c)' /\ \A d \in Callers \ {c} : Knows(d)'
    BY <1>2 DEF LegInv
  <1>6. ASSUME evidence \subseteq evidence', saved \subseteq saved',
               \A d \in Callers \ {c} : /\ controlJob'[d] = controlJob[d]
                                       /\ controlPc'[d] = controlPc[d]
                                       /\ controlOutcome'[d] = controlOutcome[d]
                                       /\ broadcastPc'[d] = broadcastPc[d]
                                       /\ broadcastJob'[d] = broadcastJob[d]
        PROVE  \A d \in Callers \ {c} : Knows(d)'
    BY <1>1, <1>3, <1>6, Stays DEF LegInv
  <1>7. ASSUME NEW j \in Jobs, Start(c, j) PROVE Knows(c)' /\ \A d \in Callers \ {c} : Knows(d)'
    <2>1. /\ controlPc' = [controlPc EXCEPT ![c] = "readInterrupted"]
          /\ controlOutcome' = [controlOutcome EXCEPT ![c] = "error"]
          /\ controlJob' = [controlJob EXCEPT ![c] = j] /\ evidence' = evidence
          /\ saved' = saved /\ broadcastPc' = broadcastPc /\ broadcastJob' = broadcastJob
          /\ leg[c] = "idle" /\ leg' = [leg EXCEPT ![c] = "signing"]
      BY <1>7 DEF Start, In, Goto, Control!Call, broadcastVars, sendVars
    <2>2. controlPc'[c] = "readInterrupted" /\ leg'[c] = "signing"
      BY <2>1, <1>0 DEF Control!TypeOK, LegInv
    <2>3. broadcastPc'[c] = "idle"
      BY <2>1, <1>4 DEF Knows
    <2>4. Knows(c)'
      BY <2>2, <2>3 DEF Knows
    <2>5. \A d \in Callers \ {c} : Knows(d)'
      BY <2>1, <1>6, <1>0 DEF Control!TypeOK
    <2> QED BY <2>4, <2>5
  <1>8. ASSUME Signing(c) PROVE Knows(c)' /\ \A d \in Callers \ {c} : Knows(d)'
    <2>1. /\ leg[c] = "signing" /\ Control!CallerStep(c) /\ saved' = saved
          /\ broadcastPc' = broadcastPc /\ broadcastJob' = broadcastJob
      BY <1>8 DEF Signing, In, sendVars
    <2>3. /\ leg'[c] \in {"signing", "saving", "idle"}
          /\ leg'[c] = "saving" => controlPc'[c] = "idle" /\ controlOutcome'[c] = "signed"
      BY <1>8 DEF Signing, In, Goto, LegInv
    <2>4. broadcastPc'[c] = "idle"
      BY <2>1, <1>4 DEF Knows
    <2>5. Knows(c)'
      BY <2>1, <2>3, <2>4, <1>0, <1>4, WindowStep DEF Knows
    <2>6. \A d \in Callers \ {c} : Knows(d)'
      BY <2>1, <1>0, <1>6, WindowStep
    <2> QED BY <2>5, <2>6
  <1>9. ASSUME Save(c) PROVE Knows(c)' /\ \A d \in Callers \ {c} : Knows(d)'
    <2>1. /\ leg[c] = "saving" /\ leg'[c] \in {"saved", "idle"}
          /\ leg'[c] = "saved" => saved' = saved \cup {controlJob[c]}
          /\ saved \subseteq saved' /\ UNCHANGED <<controlVars, broadcastVars>>
      BY <1>9 DEF Save, In, Goto, LegInv
    <2>2. broadcastPc[c] = "idle"
      BY <2>1, <1>4 DEF Knows
    <2>3. Knows(c)'
      BY <2>1, <2>2, <1>4 DEF Knows, controlVars, broadcastVars, sendVars
    <2>4. \A d \in Callers \ {c} : Knows(d)'
      BY <2>1, <1>6 DEF controlVars, broadcastVars, sendVars
    <2> QED BY <2>3, <2>4
  <1>10. ASSUME Send(c) PROVE Knows(c)' /\ \A d \in Callers \ {c} : Knows(d)'
    <2>1. leg[c] = "saved" /\ UNCHANGED <<controlVars, saved>> /\ broadcastPc[c] = "idle"
      BY <1>10, <1>4 DEF Send, In, Knows
    <2>2. CASE leg'[c] = "idle" /\ UNCHANGED broadcastVars
      <3>1. Knows(c)'
        BY <2>1, <2>2, <1>4 DEF Knows, controlVars, broadcastVars, sendVars
      <3> QED BY <2>1, <2>2, <3>1, <1>6 DEF controlVars, broadcastVars, sendVars
    <2>3. CASE leg'[c] = "sending" /\ Broadcast!Call(c, controlJob[c])
      <3>1. /\ broadcastPc' = [broadcastPc EXCEPT ![c] = "readPrior"]
            /\ broadcastJob' = [broadcastJob EXCEPT ![c] = controlJob[c]]
        BY <2>3 DEF Broadcast!Call
      <3>2. broadcastPc'[c] = "readPrior" /\ broadcastJob'[c] = controlJob[c]
        BY <3>1, <1>0 DEF Broadcast!TypeOK
      <3>3. Knows(c)'
        BY <2>1, <2>3, <3>2, <1>4 DEF Knows, controlVars
      <3> QED BY <2>1, <3>1, <3>3, <1>6 DEF controlVars
    <2> QED BY <1>10, <2>2, <2>3 DEF Send, Goto, LegInv
  <1>11. ASSUME Sending(c) PROVE Knows(c)' /\ \A d \in Callers \ {c} : Knows(d)'
    <2>1. /\ leg[c] = "sending" /\ Broadcast!CallerStep(c) /\ UNCHANGED <<controlVars, saved>>
          /\ leg'[c] = IF broadcastPc'[c] = "idle" THEN "idle" ELSE "sending"
          /\ broadcastPc[c] = "revalidate" /\ broadcastPc'[c] = "record" => policy = Deny
      BY <1>11 DEF Sending, In, Goto, DenySeen, Broadcast!At, LegInv
    <2>2. /\ broadcastPc[c] # "idle" /\ broadcastJob' = broadcastJob
          /\ \A d \in Callers \ {c} : broadcastPc'[d] = broadcastPc[d]
          /\ broadcastPc'[c] = "send" => broadcastPc[c] = "record"
          /\ broadcastPc'[c] = "record" => broadcastPc[c] = "revalidate"
      BY <2>1, <1>0, SendStep
    <2>3. broadcastPc'[c] = "record" => c \in calm'
      BY <2>1, <2>2 DEF NoteCalm, controlVars
    <2>4. broadcastPc'[c] = "send" => c \in calm'
      BY <2>1, <2>2, <1>3, <1>4 DEF Knows
    <2>5. Knows(c)'
      BY <2>1, <2>2, <2>3, <2>4, <1>4 DEF Knows, controlVars
    <2>6. \A d \in Callers \ {c} : Knows(d)'
      BY <2>1, <2>2, <1>6 DEF controlVars
    <2> QED BY <2>5, <2>6
  <1>12. ASSUME Crash(c) PROVE Knows(c)' /\ \A d \in Callers \ {c} : Knows(d)'
    <2>1. leg'[c] = "idle" /\ saved' = saved
      BY <1>12 DEF Crash, Goto, LegInv
    <2>2. /\ evidence' = evidence /\ controlJob' = controlJob
          /\ \A d \in Callers \ {c} : /\ controlPc'[d] = controlPc[d]
                                      /\ controlOutcome'[d] = controlOutcome[d]
          /\ controlPc'[c] = "unlock" => controlPc[c] = "unlock" /\ controlOutcome'[c] = controlOutcome[c]
      <3>1. CASE UNCHANGED controlVars
        BY <3>1 DEF controlVars
      <3>2. CASE Control!Crash(c)
        BY <3>2, <1>0 DEF Control!Crash, Control!Throw, Control!Resolve, Control!storeVars,
           Control!TypeOK
      <3> QED BY <1>12, <3>1, <3>2 DEF Crash
    <2>3. /\ broadcastJob' = broadcastJob /\ broadcastPc'[c] = "idle"
          /\ \A d \in Callers \ {c} : broadcastPc'[d] = broadcastPc[d]
      <3>1. CASE leg[c] = "sending"
        BY <3>1, <1>12, <1>0 DEF Crash, In, Broadcast!Crash, Broadcast!TypeOK
      <3>2. CASE leg[c] # "sending"
        BY <3>2, <1>12, <1>4 DEF Crash, In, Knows, broadcastVars, sendVars
      <3> QED BY <3>1, <3>2
    <2>4. Knows(c)'
      BY <2>1, <2>2, <2>3, <1>4 DEF Knows
    <2> QED BY <2>1, <2>2, <2>3, <2>4, <1>6
  <1> QED BY <1>7, <1>8, <1>9, <1>10, <1>11, <1>12 DEF CallerStep

LEMMA WorldStep ==
    ASSUME LegInv, ((Provider \/ Network) /\ NoteCalm) \/ UNCHANGED vars
    PROVE  LegInv'
  <1>1. /\ leg' = leg /\ saved' = saved /\ evidence' = evidence /\ controlJob' = controlJob
        /\ controlPc' = controlPc /\ controlOutcome' = controlOutcome
        /\ broadcastPc' = broadcastPc /\ broadcastJob' = broadcastJob
    <2>1. CASE Provider
      BY <2>1 DEF Provider, legVars, broadcastVars, sendVars, Control!ApplyUpdate,
             Control!ProviderSigns, Control!ExternalEdit, Control!RemoveAbandonedLock,
             Control!Recover, Control!callVars, Control!storeVars
    <2>2. CASE Network
      BY <2>2 DEF Network, legVars, controlVars, Broadcast!Invalidate, Broadcast!ChainMoves,
             Broadcast!RemoveAbandonedLock, Broadcast!callVars
    <2>3. CASE UNCHANGED vars
      BY <2>3 DEF vars, legVars, controlVars, broadcastVars, sendVars
    <2> QED BY <2>1, <2>2, <2>3
  <1>2. \A c \in Callers : leg'[c] = "sending" /\ c \in calm => c \in calm'
    BY <1>1 DEF NoteCalm, vars
  <1> QED BY <1>1, <1>2, Stays DEF LegInv

LEMMA LegAlways == Spec => []LegInv
  <1>1. Init => LegInv
    BY DEF Init, Control!Init, Broadcast!Init, LegInv, Knows
  <1>2. Typed /\ LegInv /\ [Next]_vars => LegInv'
    BY LegStep, WorldStep DEF Next
  <1>3. Spec => Broadcast!Spec
    BY ImplementsBroadcast
  <1>4. Control!TypeOK /\ Broadcast!TypeOK => Typed
    BY DEF Typed
  <1>5. Spec => []Typed
    BY ControlTyped, <1>3, <1>4, BroadcastTypeCorrect, PTL
  <1> QED BY <1>1, <1>2, <1>5, PTL DEF Spec

\* What operatorSend hands to the network was signed in a recorded window, can be
\* recovered from its flow, was valid when its broadcast began, and goes out after
\* the wallet was seen under DENY.
THEOREM SendsSafely == Spec => SentSafely
  <1> DEFINE Fresh == \A c \in Callers :
                 Broadcast!At(c, "send") /\ Broadcast!At(c, "await")' =>
                    c \notin stale /\ signed[broadcastJob[c]] # "none"
             Safe == \A c \in Callers :
                 Broadcast!At(c, "send") /\ Broadcast!At(c, "await")' =>
                    LET j == broadcastJob[c] IN
                    /\ j \in evidence \cap saved /\ signed[j] # "none"
                    /\ c \notin stale /\ c \in calm
  <1>1. Spec => Broadcast!Spec
    BY ImplementsBroadcast
  <1>2. Broadcast!SendIsFresh => [][Fresh]_(Broadcast!vars)
    BY DEF Broadcast!SendIsFresh
  <1>3. LegInv /\ [Fresh]_(Broadcast!vars) => [Safe]_vars
    <2> SUFFICES ASSUME LegInv, [Fresh]_(Broadcast!vars), NEW c \in Callers,
                        broadcastPc[c] = "send", broadcastPc'[c] = "await"
                 PROVE  LET j == broadcastJob[c] IN
                        /\ j \in evidence \cap saved /\ signed[j] # "none"
                        /\ c \notin stale /\ c \in calm
      BY DEF Broadcast!At
    <2>1. Fresh
      BY DEF Broadcast!vars, Broadcast!callVars
    <2>2. Knows(c)
      BY DEF LegInv
    <2> QED BY <2>1, <2>2 DEF Knows, Broadcast!At
  <1>4. Spec => []LegInv
    BY LegAlways
  <1>5. Spec => [][Safe]_vars
    BY <1>1, <1>2, <1>3, <1>4, FreshSend, PTL
  <1> QED BY <1>5 DEF SentSafely
=============================================================================
