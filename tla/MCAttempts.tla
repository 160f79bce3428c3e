------------------------------ MODULE MCAttempts ------------------------------
(* Model-checking instance for liveness: a root and one scope below it.      *)
EXTENDS Attempts
=============================================================================
