------------------------- MODULE MCAgentInteractive -------------------------
(* A terminal session of few messages, commands, tool rounds and questions. *)
EXTENDS AgentInteractive
=============================================================================
