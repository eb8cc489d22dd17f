----------------------------- MODULE MCSigning -----------------------------
(***************************************************************************)
(* TransactionSigning for TLC.  Callers, jobs and bodies are only          *)
(* compared.                                                               *)
(***************************************************************************)
EXTENDS TransactionSigning, TLC

Symmetry == Permutations(Callers) \cup Permutations(Jobs) \cup Permutations(Bodies)
=============================================================================
