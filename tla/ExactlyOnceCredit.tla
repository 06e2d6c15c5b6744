------------------------- MODULE ExactlyOnceCredit -------------------------
(***************************************************************************)
(* What a payment integration promises: money charged under a reference is *)
(* credited to the payer's wallet once, in full, or not yet at all.        *)
(***************************************************************************)
EXTENDS Naturals

CONSTANTS References, Sums

VARIABLES charged, credited

Init ==
    /\ charged = [r \in References |-> 0]
    /\ credited = [r \in References |-> 0]

Charge(r) ==
    /\ charged[r] = 0
    /\ \E n \in Sums : charged' = [charged EXCEPT ![r] = n]
    /\ UNCHANGED credited

Credit(r) ==
    /\ charged[r] > 0
    /\ credited[r] = 0
    /\ credited' = [credited EXCEPT ![r] = charged[r]]
    /\ UNCHANGED charged

Next == \E r \in References : Charge(r) \/ Credit(r)

Spec == Init /\ [][Next]_<<charged, credited>>
=============================================================================
