------------------------------ MODULE MCAgentLoop ------------------------------
(***************************************************************************)
(* Small instances of AgentLoop.                                           *)
(***************************************************************************)
EXTENDS AgentLoop

MCFailures == {"failed", "cleanup_failed", "context_limit", "validation_failed", "limit_exceeded"}

MCFaults == {"session_capacity", "workspace_blocked", "cleanup_failed", "service_stopped", "monitor_failed",
             "provider_cleanup", "context"}
=============================================================================
