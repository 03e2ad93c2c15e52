------------------------- MODULE MCOperationLedger -------------------------
(* Bounded instances of the operation loop and its ledger. *)
EXTENDS OperationLedger
=============================================================================
