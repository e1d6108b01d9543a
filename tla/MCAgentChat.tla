------------------------------ MODULE MCAgentChat ------------------------------
(* A small instance of AgentChat. *)
EXTENDS AgentChat
===============================================================================
