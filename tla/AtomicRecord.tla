---------------------------- MODULE AtomicRecord ----------------------------
(***************************************************************************)
(* What the other services take a record of the durable store for, without *)
(* files, locks or processes: a set to which updates are added one at a    *)
(* time, each to the latest content, that is whole at every moment.  A     *)
(* writer that got its answer will find its update for ever; without one   *)
(* the update may or may not be there, and a loss of power may take it     *)
(* back, together with what was added after it: the record is then one it  *)
(* has been since somebody was last told.                                  *)
(***************************************************************************)
CONSTANT Updates

VARIABLES
    record,     \* what a reader finds
    kept,       \* what of it can no longer be lost
    recent,     \* the records it has been since then, before the present one
    told        \* updates whose writers have been told

recordVars == <<record, kept, recent, told>>

Init == record = {} /\ kept = {} /\ recent = {} /\ told = {}

Update(u) ==
    /\ record' = record \cup {u}
    /\ recent' = recent \cup {record}
    /\ UNCHANGED <<kept, told>>

\* Whoever is told of an update, all of the record is safe.
Tell(u) ==
    /\ u \in record
    /\ kept' = record /\ recent' = {}
    /\ told' = told \cup {u}
    /\ UNCHANGED record

\* After a loss of power what can be read cannot be lost any more.
LosePower ==
    /\ record' \in {record, kept} \cup recent
    /\ kept' = record' /\ recent' = {}
    /\ UNCHANGED told

Next == LosePower \/ \E u \in Updates : Update(u) \/ Tell(u)

Spec == Init /\ [][Next]_recordVars
=============================================================================
