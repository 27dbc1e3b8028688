--------------------------- MODULE MCAgentRuntime ---------------------------
(* Small instances of AgentRuntime for TLC: what host code calls. *)
EXTENDS AgentRuntime

MCAllCalls == Operations
MCStartPause == {"start", "pause"}
MCPauseResume == {"pause", "resume"}
MCCancel == {"cancel"}
=============================================================================
