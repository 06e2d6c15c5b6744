------------------------ MODULE MCEstateWithdrawals ------------------------
(* Small instances of EstateWithdrawals: levies of two units fund less     *)
(* than the withdrawals of two units that are tried.                       *)
EXTENDS EstateWithdrawals

MCAmount     == [w \in Withdrawals |-> 2]
MCLevyAmount == [l \in Levies |-> 2]
=============================================================================
