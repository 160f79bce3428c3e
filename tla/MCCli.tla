------------------------------- MODULE MCCli --------------------------------
(* A small instance of Cli: the constants are given in the .cfg files. *)
EXTENDS Cli
=============================================================================
