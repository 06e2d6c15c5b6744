----------------------------- MODULE MCServices ------------------------------
(* Two residents, a co-resident, a guard; every combination of families    *)
(* that share a row or a unique key.                                       *)
EXTENDS Services, TLC

CONSTANTS rb1, rb2, ri, Flat, flat, Duplex,
          r1, r2, a1, g1, e1, e2, e3

MCRoomIds == [k \in {"BROADCAST", "INCIDENT"} |->
                CASE k = "BROADCAST" -> {rb1, rb2}
                  [] OTHER           -> {ri}]

MCLowered == [n \in Names |-> IF n = Duplex THEN Duplex ELSE flat]

Symmetry == Permutations(Threads)

At(given) == [p \in People |-> IF p \in DOMAIN given THEN given[p] ELSE None]

Scope(families, waiting, admitted) ==
    [families |-> families, waiting |-> At(waiting), admitted |-> admitted]

MCScopes ==
    {Scope({"join", "staff"}, r2 :> e2, {}),
     Scope({"join", "decide"}, r2 :> e2 @@ a1 :> e1, {}),
     Scope({"family", "decide"}, a1 :> e1, {}),
     Scope({"review", "nin"}, r1 :> e1 @@ r2 :> e2, {}),
     Scope({"nin"}, r1 :> e1 @@ g1 :> e3, {}),
     Scope({"join", "types"}, r2 :> e2, {}),
     Scope({"review", "profile", "types"}, r1 :> e1, {}),
     Scope({"nin", "profile"}, r1 :> e1, {}),
     Scope({"nin", "gate"}, r1 :> e1 @@ r2 :> e2, {r2}),
     Scope({"gate", "decide"}, r2 :> e2 @@ a1 :> e1, {r2}),
     Scope({"promote"}, g1 :> e3, {})}
=============================================================================
