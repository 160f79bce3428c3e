------------------------------ MODULE MCStream -------------------------------
(* A small instance of Stream: the constants are given in MCStream.cfg.    *)
EXTENDS Stream, TLC

(* Content blocks are told apart by their index and by nothing else.       *)
Symmetry == Permutations(Indexes)
=============================================================================
