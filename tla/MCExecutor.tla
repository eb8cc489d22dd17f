----------------------------- MODULE MCExecutor -----------------------------
(***************************************************************************)
(* GateIndex for TLC.  Accounts, thresholds, contents and nonces           *)
(* are only compared, and every property here is a safety property, so     *)
(* permuting them is sound.                                                *)
(***************************************************************************)
EXTENDS GateIndex

Symmetry == Permutations(Accounts) \cup Permutations(Thresholds) \cup Permutations(Rests) \cup Permutations(Nonces)

\* The bound of the run: the changes proposed expire together.
OneDeadline == \A c, d \in DOMAIN proposals : c.intent.expiresAt = d.intent.expiresAt
=============================================================================
