--------------------------- MODULE MCOperatorLeg ---------------------------
(***************************************************************************)
(* OperatorLeg for TLC.  Callers are only compared.                        *)
(***************************************************************************)
EXTENDS OperatorLeg, TLC

Symmetry == Permutations(Callers)
=============================================================================
