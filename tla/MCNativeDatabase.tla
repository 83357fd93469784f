-------------------------- MODULE MCNativeDatabase ---------------------------
(* Small instances of NativeDatabase. *)
EXTENDS NativeDatabase, TLC

Symmetry == Permutations(Adapter)
=============================================================================
