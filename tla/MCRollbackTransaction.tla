------------------------ MODULE MCRollbackTransaction ------------------------
(* Bounded instances of RollbackTransaction for TLC: identifiers and builds *)
(* are model values, and only whether two of them are equal is ever asked.  *)
EXTENDS RollbackTransaction, TLC

Symmetry == Permutations(Ids) \cup Permutations(Builds)
=============================================================================
