----------------------------- MODULE MCModelEditing -----------------------------
(* Small instances of ModelEditing. *)
EXTENDS ModelEditing, TLC

Symmetry == Permutations(Column)
=============================================================================
