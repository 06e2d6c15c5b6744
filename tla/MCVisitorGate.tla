--------------------------- MODULE MCVisitorGate ---------------------------
(* Small instances of VisitorGate. *)
EXTENDS VisitorGate, TLC

Symmetry == Permutations(Threads)
=============================================================================
