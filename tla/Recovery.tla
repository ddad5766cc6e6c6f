------------------------------- MODULE Recovery -------------------------------
(***************************************************************************)
(* packages/core/src/recovery.ts planRecovery and the startup transaction  *)
(* that applies it (storage-database.ts recoverOnOpen).  The process may   *)
(* die after any event; the next one replays the history and closes the    *)
(* active run with facts of recovery origin, each of which goes through    *)
(* applyEvent like any other event.  One refused fact aborts the           *)
(* transaction and the store does not open.  A definition named Faulty...  *)
(* is a plausible bug, never used (see RunReducer).                        *)
(***************************************************************************)
EXTENDS ModelHistory

Interrupted == [status |-> "interrupted", reason |-> "interrupted", origin |-> "recovery"]

\* Calls and steps in insertion order.
CallOrder    == [n \in 1..(MaxCall * MaxStep) |-> <<1 + ((n - 1) \div MaxCall), 1 + ((n - 1) % MaxCall)>>]
StepOrder    == [n \in Steps |-> n]

(***************************************************************************)
(* The plan so far: the facts were all accepted (ok) and led to run.       *)
(***************************************************************************)
Add(plan, accepted, run) == [ok |-> plan.ok /\ accepted, run |-> run]

CloseCompaction(plan) ==
  IF plan.run.activeCompaction
  THEN Add(plan, CanSettleCompaction(plan.run), FailCompaction(plan.run))
  ELSE plan

CloseRequest(plan, q) ==
  IF plan.run.requests[q].status = "running"
  THEN Add(plan, CanFinishRequest(plan.run, q, Interrupted, 0), FinishRequest(plan.run, q, Interrupted, 0))
  ELSE plan

CloseApproval(plan, t) ==
  IF plan.run.approvals[t] = "pending"
  THEN Add(plan, CanResolveApproval(plan.run, t, "cancelled", "recovery"), ResolveApproval(plan.run, t, "cancelled"))
  ELSE plan

CloseTool(plan, t) ==
  IF IsOpen(plan.run.tools[t])
  THEN Add(plan, CanFinishTool(plan.run, t, Interrupted), FinishTool(plan.run, t, Interrupted))
  ELSE plan

CloseStep(plan, k) ==
  IF plan.run.steps[k] = "running"
  THEN Add(plan, CanFinishStep(plan.run, k, Interrupted), FinishStep(plan.run, k, Interrupted))
  ELSE plan

CloseRun(plan) == Add(plan, CanFinishRun(plan.run, Interrupted), FinishRun(plan.run, Interrupted))

FaultyPlanRecovery(run) ==
  LET compaction == CloseCompaction([ok |-> TRUE, run |-> run])
      requests   == FoldLeft(CloseRequest, compaction, RequestOrder)
      tools      == FoldLeft(CloseTool, requests, CallOrder)
      approvals  == FoldLeft(CloseApproval, tools, CallOrder)
      steps      == FoldLeft(CloseStep, approvals, StepOrder)
  IN CloseRun(steps)

PlanRecovery(run) ==
  LET compaction == CloseCompaction([ok |-> TRUE, run |-> run])
      requests   == FoldLeft(CloseRequest, compaction, RequestOrder)
      approvals  == FoldLeft(CloseApproval, requests, CallOrder)
      tools      == FoldLeft(CloseTool, approvals, CallOrder)
      steps      == FoldLeft(CloseStep, tools, StepOrder)
  IN CloseRun(steps)

\* The process died and the store opens again.
Reopen ==
  /\ activeRunId # NoRun
  /\ LET plan == PlanRecovery(runs[activeRunId])
     IN /\ plan.ok
        /\ runs' = [runs EXCEPT ![activeRunId] = plan.run]
  /\ activeRunId' = NoRun
  /\ activity' = "idle"
  /\ UNCHANGED <<created, resolved>>

RecoveryNext == Next \/ Reopen

RecoverySpec == Init /\ [][RecoveryNext]_vars

-----------------------------------------------------------------------------
(***************************************************************************)
(* Every history can be reopened: whatever was open when the process died, *)
(* the reducer accepts every planned fact, in the planned order, and the   *)
(* run ends closed and interrupted.  Otherwise the whole store, with all   *)
(* its other sessions, would refuse to open.                               *)
(***************************************************************************)
AlwaysReopens ==
  activeRunId # NoRun =>
    LET plan == PlanRecovery(runs[activeRunId])
    IN plan.ok /\ Settled(plan.run) /\ plan.run.status = "interrupted"

(***************************************************************************)
(* Recovery invents nothing: it keeps every settled fact and approval      *)
(* decision, dispatches nothing, and leaves a blocker exactly for the      *)
(* calls whose start was recorded and whose outcome was not, and for a     *)
(* call that ended in cleanup_failed.                                      *)
(***************************************************************************)
RecoveryInventsNothing ==
  activeRunId # NoRun =>
    LET run  == runs[activeRunId]
        next == PlanRecovery(run).run
    IN /\ \A q \in Requests : run.requests[q].status # "running" => next.requests[q] = run.requests[q]
       /\ \A t \in Calls :
            /\ ~IsOpen(run.tools[t]) => next.tools[t] = run.tools[t]
            /\ run.approvals[t] # "pending" => next.approvals[t] = run.approvals[t]
            /\ next.tools[t].started = run.tools[t].started
       /\ \A t \in Calls : t \in RunBlockers(next) \ RunBlockers(run) <=> run.tools[t].status = "running"
       /\ (\E t \in Calls : run.tools[t].reason = "cleanup_failed") => CleanupBlocker \in RunBlockers(next)
=============================================================================
