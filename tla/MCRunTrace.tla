------------------------------ MODULE MCRunTrace ------------------------------
(* Model-checking instance: a root and two scopes below it, with one retry;  *)
(* the properties of Attempts are checked along with those of the records.   *)
EXTENDS RunTrace
=============================================================================
