---------------------------- MODULE MCShiftRoster ----------------------------
(* Two guards; every combination of families that share a row.             *)
EXTENDS ShiftRoster, TLC

Symmetry == Permutations(Threads)

Scope(families, guards, assigned, asked, shifts, swaps) ==
    [families |-> families, active |-> guards, roster |-> assigned,
     asked |-> asked, shifts |-> shifts, swaps |-> swaps]

MCScopes ==
    {Scope({"week", "day", "staff"}, {1, 2}, <<1>>, <<>>, 3, 0),
     Scope({"duty", "day", "week"}, {1}, <<1>>, <<>>, 2, 0),
     Scope({"duty", "ask", "approve"}, {2}, <<1, 2>>, <<>>, 2, 1),
     Scope({"approve", "week"}, {1, 2}, <<1, 2>>, <<<<1, 2>>>>, 4, 1),
     Scope({"ask", "approve", "refuse"}, {1, 2}, <<1, 2>>, <<>>, 2, 1),
     Scope({"ask", "approve"}, {1, 2}, <<1, 2, 2>>, <<<<1, 2>>>>, 3, 2)}
=============================================================================
