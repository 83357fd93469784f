---------------------------- MODULE MCWorkQueue -----------------------------
(* Small instances of WorkQueue. *)
EXTENDS WorkQueue, TLC

Symmetry == Permutations(Writer) \cup Permutations(Item \ Writer)
=============================================================================
