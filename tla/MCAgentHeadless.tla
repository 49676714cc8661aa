-------------------------- MODULE MCAgentHeadless --------------------------
(* Prompts from stdin, or one from the command line. *)
EXTENDS AgentHeadless
=============================================================================
