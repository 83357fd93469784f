------------------------- MODULE MCColumnObservation -------------------------
(* Small instances of ColumnObservation. *)
EXTENDS ColumnObservation, TLC

Symmetry == Permutations(Id)
=============================================================================
