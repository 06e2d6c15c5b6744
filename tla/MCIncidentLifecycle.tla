------------------------ MODULE MCIncidentLifecycle ------------------------
(* Small instances of IncidentLifecycle. *)
EXTENDS IncidentReports, TLC

Symmetry == Permutations(Threads)
=============================================================================
