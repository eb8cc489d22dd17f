------------------------------ MODULE MCConsole ------------------------------
(***************************************************************************)
(* ConsoleService for TLC.  Flow ids are only compared; the liveness run   *)
(* has a single flow and no symmetry.                                      *)
(***************************************************************************)
EXTENDS ConsoleService, FiniteSets, TLC

Symmetry == Permutations(Ids)

\* The bound of the run: two flows go any way they can, or one of them goes on
\* beside others that are being analysed or whose analysis failed.
Early == {i \in Ids : Stage(i) \in {"none", "ANALYZING", "FAILED"}}
Bystanders == (\A i \in Ids : Exists(i)) => Cardinality(Ids \ Early) <= 1
=============================================================================
