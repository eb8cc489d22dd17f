---------------------------- MODULE DurableStore ----------------------------
(***************************************************************************)
(* One record of the single-host store (apps/web/src/lib/server/           *)
(* durable-store.ts) and the lock directory its writers take: temporary    *)
(* file, fsync, rename, fsync of the directory, under mkdir/rmdir.  The    *)
(* record is a set of updates; a writer reads it inside the lock, adds its *)
(* own update and writes the result, as save() does with the flow index.   *)
(* A process can be killed between any two system calls, and the machine   *)
(* can lose power: what was not fsynced may then be torn or undone.        *)
(***************************************************************************)
EXTENDS Naturals

CONSTANTS
    Writers,    \* concurrent calls of exclusive(), in one process or several
    Updates,    \* what they add to the record
    Torn        \* content of a file whose bytes did not all reach the disk

ASSUME TornAssumption == \A record \in SUBSET Updates : Torn # record

VARIABLES
    file,       \* what open(target) reads
    durable,    \* what the target held when the directory was last flushed
    between,    \* what it has held since, before the file that has its name now
    temp,       \* writer -> its temporary file
    locked,     \* the lock directory exists
    pc, seen,   \* writer -> where it is, and what it read
    adds,       \* writer -> the update it is adding
    acked       \* history: updates whose write() has returned

storeVars == <<file, durable, between, temp, locked, pc, seen, adds, acked>>

Contents == (SUBSET Updates) \cup {Torn}
Files == [data: Contents, flushed: BOOLEAN]
Empty == [data |-> {}, flushed |-> TRUE]
Steps == {"idle", "locked", "read", "opened", "written", "synced", "renamed", "unlocking"}
\* The files that may have the name after a power loss: directory entries reach the
\* disk in order, but how many of them have is not known before the flush.
Left == {file, durable} \cup between
\* The steps at which a failing system call makes write() throw.
InWrite == {"read", "opened", "written", "synced", "renamed"}

\* The last conjunct: no temporary file outlives the write that made it.
StoreTypeOK ==
    /\ file \in Files /\ durable \in Files /\ between \subseteq Files
    /\ temp \in [Writers -> Files]
    /\ locked \in BOOLEAN
    /\ pc \in [Writers -> Steps] /\ seen \in [Writers -> Contents]
    /\ adds \in [Writers -> Updates] /\ acked \subseteq Updates
    /\ \A w \in Writers : temp[w] # Empty => pc[w] \in {"opened", "written", "synced"}

\* No file yet: read() answers null, which the callers take as empty.
StoreInit ==
    /\ file = Empty /\ durable = Empty /\ between = {} /\ temp = [w \in Writers |-> Empty]
    /\ locked = FALSE
    /\ pc = [w \in Writers |-> "idle"] /\ seen = [w \in Writers |-> {}]
    /\ adds \in [Writers -> Updates]
    /\ acked = {}

At(w, here, there) == pc[w] = here /\ pc' = [pc EXCEPT ![w] = there]

\* Mutant: an existing lock directory is taken over.
AcquireStale(w) ==
    /\ At(w, "idle", "locked")
    /\ locked' = TRUE
    /\ UNCHANGED <<file, durable, between, temp, seen, adds, acked>>

\* exclusive(): mkdir fails, and the call with it, while the directory exists.
Acquire(w) ==
    /\ At(w, "idle", "locked")
    /\ ~locked /\ locked' = TRUE
    /\ UNCHANGED <<file, durable, between, temp, seen, adds, acked>>

\* A torn record makes read() throw: the call ends through the finally.
ReadRecord(w) ==
    /\ pc[w] = "locked"
    /\ IF file.data = Torn
       THEN /\ pc' = [pc EXCEPT ![w] = "unlocking"]
            /\ UNCHANGED <<seen, adds>>
       ELSE /\ pc' = [pc EXCEPT ![w] = "read"]
            /\ seen' = [seen EXCEPT ![w] = file.data]
            /\ \E u \in Updates : adds' = [adds EXCEPT ![w] = u]
    /\ UNCHANGED <<file, durable, between, temp, locked, acked>>

OpenTemp(w) ==
    /\ At(w, "read", "opened")
    /\ temp' = [temp EXCEPT ![w] = [data |-> Torn, flushed |-> FALSE]]
    /\ UNCHANGED <<file, durable, between, locked, seen, adds, acked>>

WriteTemp(w) ==
    /\ At(w, "opened", "written")
    /\ temp' = [temp EXCEPT ![w].data = seen[w] \cup {adds[w]}]
    /\ UNCHANGED <<file, durable, between, locked, seen, adds, acked>>

\* Mutant: the file is not flushed before it is renamed.
SyncNothing(w) ==
    /\ At(w, "written", "synced")
    /\ UNCHANGED <<file, durable, between, temp, locked, seen, adds, acked>>

Sync(w) ==
    /\ At(w, "written", "synced")
    /\ temp' = [temp EXCEPT ![w].flushed = TRUE]
    /\ UNCHANGED <<file, durable, between, locked, seen, adds, acked>>

Rename(w) ==
    /\ At(w, "synced", "renamed")
    /\ file' = temp[w] /\ between' = between \cup {file}
    /\ temp' = [temp EXCEPT ![w] = Empty]
    /\ UNCHANGED <<durable, locked, seen, adds, acked>>

\* write() returns.
SyncDirectory(w) ==
    /\ At(w, "renamed", "unlocking")
    /\ durable' = file /\ between' = {}
    /\ acked' = acked \cup {adds[w]}
    /\ UNCHANGED <<file, temp, locked, seen, adds>>

\* A system call of write() fails: the temporary file is removed, if it still
\* has its name, and write() throws.  A failure after the rename throws too,
\* with the record already replaced.
WriteFails(w) ==
    /\ pc[w] \in InWrite
    /\ pc' = [pc EXCEPT ![w] = "unlocking"]
    /\ temp' = [temp EXCEPT ![w] = Empty]
    /\ UNCHANGED <<file, durable, between, locked, seen, adds, acked>>

\* The finally of exclusive(); a failing rmdir leaves the directory.
Release(w) ==
    /\ At(w, "unlocking", "idle")
    /\ locked' \in {FALSE, TRUE}
    /\ UNCHANGED <<file, durable, between, temp, seen, adds, acked>>

\* The process dies: nobody removes the lock directory.
Kill(w) ==
    /\ pc[w] # "idle"
    /\ pc' = [pc EXCEPT ![w] = "idle"]
    /\ temp' = [temp EXCEPT ![w] = Empty]
    /\ UNCHANGED <<file, durable, between, locked, seen, adds, acked>>

\* Of the renames that were not flushed any number may be on the disk, also of
\* several writers that died or failed between their rename and the flush.
PowerLoss ==
    /\ pc' = [w \in Writers |-> "idle"]
    /\ temp' = [w \in Writers |-> Empty]
    /\ \E f \in Left :
          /\ file' = [f EXCEPT !.data = IF f.flushed THEN @ ELSE Torn, !.flushed = TRUE]
          /\ durable' = file' /\ between' = {}
    /\ UNCHANGED <<locked, seen, adds, acked>>

\* The operator inspects an abandoned lock and removes it.
RemoveAbandonedLock ==
    /\ locked /\ \A w \in Writers : pc[w] = "idle"
    /\ locked' = FALSE
    /\ UNCHANGED <<file, durable, between, temp, pc, seen, adds, acked>>

WriterStep(w) ==
    \/ Acquire(w) \/ ReadRecord(w) \/ OpenTemp(w) \/ WriteTemp(w) \/ Sync(w)
    \/ Rename(w) \/ SyncDirectory(w) \/ WriteFails(w) \/ Release(w)

StoreNext == (\E w \in Writers : WriterStep(w) \/ Kill(w)) \/ PowerLoss \/ RemoveAbandonedLock

StoreSpec == StoreInit /\ [][StoreNext]_storeVars

(***************************************************************************)
(* Properties                                                              *)
(***************************************************************************)

\* A reader never sees a record half written, before or after a power loss at
\* any step of a write: the flush comes before the rename.
NeverTorn == \A f \in Left : f.data # Torn

\* An update whose write() returned is in the record for ever after: neither a
\* power loss, nor a concurrent writer that read the record before it, nor the
\* removal of an abandoned lock loses it.
AcknowledgedSurvive == \A f \in Left : acked \subseteq f.data

\* Files, locks and system calls come to a record that is updated atomically: a rename
\* is the update, the flush of the directory is the answer, and no kill, failing call
\* or power loss shows anything in between.
Record == INSTANCE AtomicRecord WITH
              record <- file.data, kept <- durable.data,
              recent <- {f.data : f \in between}, told <- acked
ImplementsAtomicRecord == Record!Spec
=============================================================================
