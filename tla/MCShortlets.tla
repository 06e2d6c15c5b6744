---------------------------- MODULE MCShortlets ----------------------------
(* Small instances of Shortlets: every booking is of one property. *)
EXTENDS ShortletStays

MCPropertyOf == [k \in Bookings |-> CHOOSE p \in Properties : TRUE]
=============================================================================
