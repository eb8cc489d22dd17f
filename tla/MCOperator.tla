----------------------------- MODULE MCOperator -----------------------------
(***************************************************************************)
(* OperatorControl for TLC.  Jobs and callers are only compared, and no    *)
(* liveness is checked, so both may be permuted.                           *)
(***************************************************************************)
EXTENDS OperatorControl, TLC

Symmetry == Permutations(Callers) \cup Permutations(Jobs)
=============================================================================
