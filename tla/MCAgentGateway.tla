---------------------------- MODULE MCAgentGateway ----------------------------
(* Model-checking instances of AgentGateway. *)
EXTENDS AgentGateway
===============================================================================
