------------------------------- MODULE MCSession -------------------------------
(***************************************************************************)
(* Small instances of Session.  The outcomes cover every legal kind of     *)
(* settlement and the illegal ones the reducer must refuse: a success with *)
(* a failure's reason, an interruption that is not recovery's, a           *)
(* cancellation nobody asked for, a recovery that reports a success.       *)
(***************************************************************************)
EXTENDS Recovery

Outcome(status, reason, origin) == [status |-> status, reason |-> reason, origin |-> origin]

MCFailures == {"failed", "cleanup_failed", "context_limit", "validation_failed", "limit_exceeded"}

MCOutcomes ==
  {Outcome("succeeded", "completed", "runner"), Outcome("succeeded", "failed", "runner"),
   Outcome("succeeded", "completed", "recovery"),
   Outcome("completed", "completed", "runner"), Outcome("completed", "completed", "recovery"),
   Outcome("failed", "failed", "runner"), Outcome("failed", "context_limit", "runner"),
   Outcome("failed", "validation_failed", "runner"),
   Outcome("failed", "limit_exceeded", "system"), Outcome("failed", "completed", "runner"),
   Outcome("denied", "denied", "runner"), Outcome("denied", "expired", "system"),
   Outcome("cancelled", "cancel_requested", "runner"),
   Outcome("interrupted", "interrupted", "recovery"), Outcome("interrupted", "interrupted", "runner")}

\* The outcomes of the run with three calls and restarts: there the facts of recovery come from its plan alone.
MCFewOutcomes ==
  {Outcome("succeeded", "completed", "runner"), Outcome("completed", "completed", "runner"),
   Outcome("failed", "cleanup_failed", "runner"), Outcome("failed", "context_limit", "runner"),
   Outcome("denied", "denied", "runner"), Outcome("cancelled", "cancel_requested", "runner")}
=============================================================================
