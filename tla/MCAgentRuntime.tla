--------------------------- MODULE MCAgentRuntime ---------------------------
(* AgentRuntime on small instances.                                        *)
EXTENDS AgentRuntime

CONSTANTS s1, s2
=============================================================================
