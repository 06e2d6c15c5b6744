-------------------------- MODULE MCResidentWallet ---------------------------
(* One resident whose wallet funds one withdrawal or bill but not two;     *)
(* payments alone, a checkout or a bill amid a withdrawal, a bank transfer *)
(* amid two of them.                                                       *)
EXTENDS ResidentWallet, TLC

CONSTANTS f1, v1, v2, b1, w1, w2, w3

MCScopes == {{f1, v1, v2}, {f1, w3}, {b1, w3}, {v1, w1, w2}}

MCOwner   == [w \in Withdrawals |-> CHOOSE p \in Residents : TRUE]
MCAmount  == [w \in Withdrawals |-> 2]
MCOpening == [p \in Residents |-> 3]
MCPayer   == [r \in FundingRefs \cup TransferRefs |-> CHOOSE p \in Residents : TRUE]
MCDebtor     == [b \in Bills |-> CHOOSE p \in Residents : TRUE]
MCBillAmount == [b \in Bills |-> 2]
NoLevyRefs   == [r \in {} |-> r]

Symmetry == Permutations(Threads) \cup Permutations({w1, w2})
=============================================================================
