------------------------------- MODULE MCSync -------------------------------
(* Small instances of Sync. *)
EXTENDS Sync, TLC

Symmetry == Permutations(Id) \cup Permutations(Column) \cup Permutations(Sync)
=============================================================================
