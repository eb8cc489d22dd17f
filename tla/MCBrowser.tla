------------------------------ MODULE MCBrowser ------------------------------
(***************************************************************************)
(* BrowserConsole for TLC: two interchangeable tabs.                       *)
(***************************************************************************)
EXTENDS BrowserConsole, TLC

Symmetry == Permutations(Tabs)

\* The bound of the run of two tabs: one of them at a time shows storageError, and
\* leaves polling to the other.
OneBroken == Cardinality(broken) <= 1 /\ \A t \in broken : reads[t] = {}
=============================================================================
