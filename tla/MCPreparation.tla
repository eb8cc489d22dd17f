--------------------------- MODULE MCPreparation ---------------------------
(* SigningPreparation on a small instance: see MCPreparation.cfg. *)
EXTENDS SigningPreparation
=============================================================================
