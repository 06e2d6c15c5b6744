-------------------------- MODULE MCWalletPayments --------------------------
(* Small instances of WalletPayments: one resident, one or two references  *)
(* of each kind, bills of two units so that a partial payment exists.      *)
EXTENDS WalletPayments

MCPayer      == [r \in Refs |-> CHOOSE p \in Residents : TRUE]
MCBillOf     == [r \in LevyRefs |-> CHOOSE b \in Bills : TRUE]
MCDebtor     == [b \in Bills |-> CHOOSE p \in Residents : TRUE]
MCBillAmount == [b \in Bills |-> 2]
=============================================================================
