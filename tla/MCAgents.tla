------------------------------- MODULE MCAgents -------------------------------
(* Model-checking instance: three agents in any tree.                      *)
EXTENDS Agents
=============================================================================
