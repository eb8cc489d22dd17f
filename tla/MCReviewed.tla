----------------------------- MODULE MCReviewed -----------------------------
(***************************************************************************)
(* ReviewedState for TLC.  Contents are only compared.                     *)
(***************************************************************************)
EXTENDS ReviewedState

Symmetry == Permutations(Contents)
=============================================================================
