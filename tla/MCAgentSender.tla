---------------------------- MODULE MCAgentSender ----------------------------
(* A backoff that outlasts a tick, a buffer that two failures fill.          *)
EXTENDS AgentSender
=============================================================================
