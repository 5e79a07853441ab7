---------------------------- MODULE MCAgentTurn ----------------------------
(* Instances of AgentTurn for TLC: the .cfg file gives the bounds. *)
EXTENDS AgentTurn
=============================================================================
