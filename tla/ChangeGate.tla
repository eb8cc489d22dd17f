----------------------------- MODULE ChangeGate -----------------------------
(***************************************************************************)
(* What the execution gate promises, without versions, epochs, nonces or   *)
(* hashes: a change is applied at most once, only after an approval, and   *)
(* only if nothing it depends on has moved since it was requested.  The    *)
(* authority (roles and allowed calls) and the content of each target are  *)
(* the world; a requested change whose world moves is stale for good, even *)
(* if the world later moves back.                                          *)
(*                                                                         *)
(* This is the promise of docs/threat-model.md:21-27, read off the guards  *)
(* of contracts/src/ParamShieldExecutor.sol.                               *)
(***************************************************************************)
CONSTANTS Changes, Targets, TargetOf(_)

VARIABLES
    pending, approved, applied, closed,     \* disjoint sets of changes
    stale,                                  \* requested changes whose world moved
    authority, content                      \* the world; content is per target

requested == pending \cup approved \cup applied \cup closed
world == <<authority, content>>
cgVars == <<pending, approved, applied, closed, stale, world>>

Init ==
    /\ pending = {} /\ approved = {} /\ applied = {} /\ closed = {}
    /\ stale = {}

\* The changes whose world moves in this step.
Affected == {c \in requested : \/ authority' # authority
                               \/ content'[TargetOf(c)] # content[TargetOf(c)]}

Request(c) ==
    /\ c \in Changes \ requested
    /\ pending' = pending \cup {c}
    /\ UNCHANGED <<approved, applied, closed, stale, world>>

Approve(c) ==
    /\ c \in pending \ stale
    /\ pending' = pending \ {c}
    /\ approved' = approved \cup {c}
    /\ UNCHANGED <<applied, closed, stale, world>>

\* A refusal, an escalation or an expiry: none of them is ever undone.
Close(c) ==
    /\ c \in pending \cup approved
    /\ pending' = pending \ {c}
    /\ approved' = approved \ {c}
    /\ closed' = closed \cup {c}
    /\ UNCHANGED <<applied, stale, world>>

\* Only the target of an applied change moves.
Apply(c) ==
    /\ c \in approved \ stale
    /\ approved' = approved \ {c}
    /\ applied' = applied \cup {c}
    /\ \A t \in Targets \ {TargetOf(c)} : content'[t] = content[t]
    /\ stale' = stale \cup Affected
    /\ UNCHANGED <<pending, closed, authority>>

\* Somebody else moves the world.
Disturb ==
    /\ UNCHANGED <<pending, approved, applied, closed>>
    /\ stale' = stale \cup Affected

Next ==
    \/ Disturb
    \/ \E c \in pending \cup approved : Approve(c) \/ Close(c) \/ Apply(c)
    \/ \E c \in Changes : Request(c)

Spec == Init /\ [][Next]_cgVars
=============================================================================
