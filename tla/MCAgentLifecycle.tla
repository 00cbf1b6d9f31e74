-------------------------- MODULE MCAgentLifecycle --------------------------
(***************************************************************************)
(* A small instance of AgentLifecycle for TLC.                             *)
(***************************************************************************)
EXTENDS AgentLifecycle

=============================================================================
