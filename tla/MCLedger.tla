------------------------------- MODULE MCLedger -------------------------------
(* Model-checking instance of the ledger: four scopes, two attempts.       *)
EXTENDS Ledger
=============================================================================
