------------------------------- MODULE RunFacts -------------------------------
(***************************************************************************)
(* What is true of every run record a legal history produces.  The         *)
(* reducer keeps the same fact in several places (a call's status, the     *)
(* active set, the step, the approval map) and a guard reads whichever is  *)
(* at hand; these predicates say the places never disagree, and what the   *)
(* guards together promise.                                                *)
(***************************************************************************)
EXTENDS RunReducer

(***************************************************************************)
(* The active identities are exactly the open operations, and they all     *)
(* belong to the one open step.  A lost or stale identity would either     *)
(* block the run for good or let a second operation start.                 *)
(***************************************************************************)
ActiveSetsAgree(run) ==
  /\ \A k \in Steps : run.steps[k] = "running" <=> run.activeStep = k
  /\ \A q \in Requests : run.requests[q].status = "running" <=> run.activeRequest = q
  /\ \A t \in Calls : run.tools[t].status = "running" <=> t \in run.activeTools
  /\ run.activeCompaction <=> run.compaction.status = "running"
  /\ run.activeRequest # NoRequest => run.activeRequest[1] = run.activeStep
  /\ \A t \in Calls : IsOpen(run.tools[t]) => t[1] = run.activeStep
  /\ \A t \in Calls : run.approvals[t] = "pending" => run.tools[t].status = "waiting_for_approval"

(***************************************************************************)
(* "The reducer permits no simultaneous provider request, tool, or         *)
(* compaction", nor any of them beside a pending approval.                 *)
(***************************************************************************)
OneKindOpen(run) ==
  /\ run.activeRequest # NoRequest => run.activeTools = {} /\ ~run.activeCompaction /\ ~PendingApproval(run)
  /\ run.activeTools # {} => ~run.activeCompaction /\ ~PendingApproval(run)
  /\ run.activeCompaction => ~PendingApproval(run)

\* At most one approval waits for a decision.
OnePending(run) ==
  \A t, u \in Calls : run.approvals[t] = "pending" /\ run.approvals[u] = "pending" => t = u

(***************************************************************************)
(* Calls are created, and settle, in the order the response declared them, *)
(* whatever the order their bodies complete in.                            *)
(***************************************************************************)
SettledInOrder(run) ==
  \A t \in Calls : \A u \in EarlierSlots(t) :
    /\ run.tools[t].status # "absent" => run.tools[u].status # "absent"
    /\ run.tools[t].status \in TerminalCall => run.tools[u].status \in TerminalCall

(***************************************************************************)
(* An exclusive call runs alone, after everything declared before it; a    *)
(* parallel one runs only beside parallel siblings that already started.   *)
(***************************************************************************)
ExclusiveAlone(run) ==
  \A t \in Calls : run.tools[t].status = "running" =>
    /\ run.tools[t].mode = "exclusive" => run.activeTools = {t} /\ EarlierOpen(run, t) = {}
    /\ \A u \in EarlierOpen(run, t) : run.tools[u].status = "running" /\ run.tools[u].mode = "parallel"

(***************************************************************************)
(* The gate: a gated call that was ever dispatched holds its own allow     *)
(* decision, and a call whose approval was refused was never dispatched.   *)
(***************************************************************************)
GateHeld(run) ==
  \A t \in Calls : run.tools[t].started /\ run.tools[t].gated => run.approvals[t] = "allowed"

(***************************************************************************)
(* A terminal run is closed: nothing of it is open, so no callback can     *)
(* settle later.                                                           *)
(***************************************************************************)
TerminalIsClosed(run) == run.status \in TerminalStatus => Settled(run)

(***************************************************************************)
(* A completed run hides no failed child: no cancellation, no recorded     *)
(* failure, every step completed, all but the last asked for tools and     *)
(* accounted for each of them, and the last answered without any.          *)
(***************************************************************************)
CompletedIsWhole(run) ==
  run.status = "completed" =>
    /\ run.userMessage /\ ~run.cancelRequested /\ run.blockedReason = NoReason
    /\ \A k \in Steps : run.steps[k] # "absent" =>
         /\ run.steps[k] = "completed" /\ LastRequest(run, k).status = "succeeded"
         /\ IsLastStep(run, k) <=> LastRequest(run, k).calls = 0
         /\ \A i \in Slots : run.tools[<<k, i>>].status \in TerminalCall <=> i <= LastRequest(run, k).calls

(***************************************************************************)
(* A call that ended in cleanup_failed marks the run, so that neither the  *)
(* run nor the step reports success or a clean cancellation.               *)
(***************************************************************************)
CleanupFailureKept(run) ==
  \A t \in Calls : run.tools[t].reason = "cleanup_failed" =>
    /\ run.blockedReason = "cleanup_failed" /\ run.status \notin {"completed", "cancelled"}
    /\ run.steps[t[1]] \notin {"completed", "cancelled"}

(***************************************************************************)
(* A step has a second request only after its first failed with            *)
(* context_limit, and a call only after its last request succeeded.        *)
(***************************************************************************)
RetryIsRecovery(run) ==
  \A k \in Steps :
    /\ run.requests[<<k, 2>>].status # "absent" =>
         run.requests[<<k, 1>>].status = "failed" /\ run.requests[<<k, 1>>].reason = "context_limit"
    /\ \A i \in Slots : run.tools[<<k, i>>].status # "absent" =>
         LastRequest(run, k).status = "succeeded" /\ i <= LastRequest(run, k).calls
=============================================================================
