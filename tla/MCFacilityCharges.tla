------------------------ MODULE MCFacilityCharges ------------------------
(* Small instances of FacilityCharges: three vehicles, which share the     *)
(* free limit and an empty wallet, or two items of any kinds, which share  *)
(* a wallet with two fees.                                                 *)
EXTENDS FacilityCharges, TLC

Motorist == [kind : [Items -> {"vehicle"}], balance : {0}]
Others   == [kind : {k \in [Items -> Kinds \cup {None}] :
                        Cardinality({i \in Items : k[i] = None}) = 1},
             balance : {2}]

MCResidents == Motorist \cup Others

Symmetry == Permutations(Threads) \cup Permutations(Items)
=============================================================================
