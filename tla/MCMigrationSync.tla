---------------------------- MODULE MCMigrationSync ----------------------------
(* Small instances of MigrationSync. *)
EXTENDS MigrationSync, TLC

Symmetry == Permutations(Table) \cup Permutations(Column)
=============================================================================
