-------------------------- MODULE MCRecordCaching ---------------------------
(* Small instances of RecordCaching. *)
EXTENDS RecordCaching, TLC

Symmetry == Permutations(Id)
=============================================================================
