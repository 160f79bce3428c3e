----------------------------- MODULE MCAgentLoop -----------------------------
(* Model-checking instance: every response of up to two tool uses.         *)
EXTENDS AgentLoop
=============================================================================
