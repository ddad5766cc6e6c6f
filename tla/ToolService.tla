------------------------------ MODULE ToolService ------------------------------
(***************************************************************************)
(* packages/server/src/execution/tool-service.ts with the part of          *)
(* agent-loop.ts that drives one call (settleTool): a worker per declared  *)
(* call of the open step.  Every await of the code is a boundary: a worker *)
(* loads the stored run, decides, and appends; between the two the user,   *)
(* the approval deadline, the siblings and the shutdown of the service may *)
(* act, and the store then judges the append by the run as it is (the      *)
(* reducer's guards).                                                      *)
(*                                                                         *)
(* Polling is left out: a worker that would only load, find nothing new    *)
(* and sleep, waits.  A definition named Faulty... is never used: it is a  *)
(* plausible bug the properties catch.                                     *)
(***************************************************************************)
EXTENDS RunReducer

CONSTANT
  Faults  \* what else may go wrong, in this instance

ASSUME FaultsAssumption ==
  Faults \subseteq {"session_capacity",   \* the session's normal payload budget is exhausted
                    "workspace_blocked",  \* another session left a blocker on this workspace
                    "cleanup_failed",     \* a tool body cannot establish its cleanup
                    "service_stopped",    \* the service closes
                    "monitor_failed",     \* the loop's monitor cannot read the run
                    "write_refused",      \* the store refuses to save a dispatched call's result: queue full, too large
                    "provider_cleanup",   \* a provider stream does not close
                    "context"}            \* the context policy is on: compaction, and requests too large

\* Providers and tool bodies report failures of their own.
ASSUME FailedAssumption == "failed" \in FailureReasons

VARIABLES
  run,           \* the run as the store has it
  control,       \* reason of the run's AbortController: "none", "cancel_requested" or an error ("stopped")
  stopping,      \* the service's shutdown signal
  due,           \* the pending approval's deadline has passed
  unresolvable,  \* the slots whose tool name or arguments the registry refuses
  effects,       \* how often each call's body took effect
  worker,        \* per slot: where its settleTool is, what it is about to append, with which outcome
  failure        \* the first error a worker threw, "none" before

toolVars == <<run, control, stopping, due, unresolvable, effects, worker, failure>>

NoOutcome == [status |-> "none", reason |-> "none", origin |-> "none"]
Idle      == [at |-> "idle", out |-> NoOutcome]

WorkerPoints ==
  {"idle", "advance", "cancel", "refuse", "reject", "ask", "expire", "start", "waiting",
   "before", "effect", "body", "commit", "finish", "done", "failed"}

Outcome(status, reason, origin) == [status |-> status, reason |-> reason, origin |-> origin]

Cancelled == Outcome("cancelled", "cancel_requested", "runner")

ToolsTypeOK ==
  /\ run \in RunType
  /\ control \in {"none", "cancel_requested", "stopped"}
  /\ stopping \in BOOLEAN /\ due \in BOOLEAN
  /\ unresolvable \subseteq Slots
  /\ effects \in [Calls -> 0..1]
  /\ \A i \in Slots : worker[i].at \in WorkerPoints

\* The call of slot i in the open step.
CallAt(i) == <<run.activeStep, i>>

Busy(i) == worker[i].at \notin {"idle", "done", "failed"}
BusySlots == {i \in Slots : Busy(i)}

Goto(i, at) == worker' = [worker EXCEPT ![i].at = at]
Hold(i, at, out) == worker' = [worker EXCEPT ![i] = [at |-> at, out |-> out]]

\* The worker's promise rejects; only the first error of a pool is kept.
Fail(i, code) ==
  /\ Goto(i, "failed")
  /\ failure' = IF failure = "none" THEN code ELSE failure

-----------------------------------------------------------------------------
(***************************************************************************)
(* The store's verdict on an append that dispatches something: the         *)
(* workspace gate first, then the reducer, then the session's normal       *)
(* budget.  Terminal facts are outside the gate and within the reserve.    *)
(***************************************************************************)
DispatchError ==
  CASE run.cancelRequested -> "cancelled-dispatch"
    [] ~run.cancelRequested /\ run.blockedReason # NoReason -> "failed-dispatch"
    [] OTHER -> "busy"

Verdicts(accepted) ==
  IF RunBlockers(run) # {} THEN {"workspace_blocked"}
  ELSE (IF accepted THEN {"accepted"} \cup (Faults \cap {"session_capacity"}) ELSE {DispatchError})
         \cup (Faults \cap {"workspace_blocked"})

\* checkService: the shutdown signal, or an abort of the run that is not the user's.
Stopped == stopping \/ control = "stopped"

-----------------------------------------------------------------------------
(***************************************************************************)
(* advanceOnce: what the loaded run tells a worker to do.                  *)
(***************************************************************************)
MayAdvance(t) == MayStartTool(run, t)

Decision(i, t) ==
  IF ~IsOpen(run.tools[t])                           THEN "done"
  ELSE IF run.cancelRequested                        THEN "cancel"
  ELSE IF run.approvals[t] \in {"denied", "expired"} THEN "refuse"
  ELSE IF i \in unresolvable                         THEN "reject"
  ELSE IF run.tools[t].gated /\ run.approvals[t] = "absent" THEN "ask"
  ELSE IF run.approvals[t] = "pending" THEN IF due THEN "expire" ELSE "waiting"
  ELSE "start"

\* checkControl and checkService, the load, and the choice.
Advance(i) ==
  /\ worker[i].at = "advance"
  /\ LET t == CallAt(i)
     IN \/ Stopped /\ Fail(i, "service_stopped")
        \/ ~Stopped /\ run.tools[t].status = "running" /\ Fail(i, "unowned_dispatch")
        \/ ~Stopped /\ run.tools[t].status # "running" /\ IsOpen(run.tools[t]) /\ ~MayAdvance(t) /\ Fail(i, "tool_order")
        \/ /\ ~Stopped
           /\ ~IsOpen(run.tools[t]) \/ (run.tools[t].status # "running" /\ MayAdvance(t))
           /\ Goto(i, Decision(i, t))
           /\ UNCHANGED failure
  /\ UNCHANGED <<run, control, stopping, due, unresolvable, effects>>

FaultyWake(i) ==
  /\ worker[i].at = "waiting"
  /\ run.approvals[CallAt(i)] # "pending" \/ run.cancelRequested \/ Stopped
  /\ Goto(i, "advance")
  /\ UNCHANGED <<run, control, stopping, due, unresolvable, effects, failure>>

\* settleTool's poll finds a decision, the deadline, a cancellation or a shutdown.
Wake(i) ==
  /\ worker[i].at = "waiting"
  /\ run.approvals[CallAt(i)] # "pending" \/ due \/ run.cancelRequested \/ Stopped
  /\ Goto(i, "advance")
  /\ UNCHANGED <<run, control, stopping, due, unresolvable, effects, failure>>

-----------------------------------------------------------------------------
(***************************************************************************)
(* The appends that settle a call which was never dispatched.  They do not *)
(* wait for the commit turn: an earlier sibling still running makes the    *)
(* reducer refuse them.                                                    *)
(***************************************************************************)
\* The facts appended before tool.finished in the same batch.
Resolved(t, decision) ==
  IF run.approvals[t] = "pending" THEN ResolveApproval(run, t, decision) ELSE run

Settle(i, before, out) ==
  LET t == CallAt(i)
  IN IF CanFinishTool(before, t, out)
     THEN /\ run' = FinishTool(before, t, out)
          /\ Goto(i, "done")
          /\ UNCHANGED failure
     ELSE /\ Fail(i, IF ~NextTool(before, t) THEN "tool-order" ELSE "invalid-outcome")
          /\ UNCHANGED run

SettleUndispatched(i) ==
  /\ \/ worker[i].at = "cancel" /\ Settle(i, Resolved(CallAt(i), "cancelled"), Cancelled)
     \/ worker[i].at = "refuse" /\ Settle(i, run, Outcome("denied", run.approvals[CallAt(i)], "runner"))
     \/ worker[i].at = "reject" /\ Settle(i, run, Outcome("failed", "validation_failed", "runner"))
  /\ UNCHANGED <<control, stopping, due, unresolvable, effects>>

\* The expiry batch loses to a saved decision or cancellation: the gate is read again.
Expire(i) ==
  LET t == CallAt(i)
  IN /\ worker[i].at = "expire"
     /\ IF CanResolveApproval(run, t, "expired", "system")
        THEN Settle(i, ResolveApproval(run, t, "expired"), Outcome("denied", "expired", "runner"))
        ELSE Goto(i, "advance") /\ UNCHANGED <<run, failure>>
     /\ UNCHANGED <<control, stopping, due, unresolvable, effects>>

Ask(i) ==
  LET t == CallAt(i)
  IN /\ worker[i].at = "ask"
     /\ \E v \in Verdicts(CanRequestApproval(run, t)) :
          IF v = "accepted"
          THEN run' = RequestApproval(run, t) /\ due' = FALSE /\ Goto(i, "waiting") /\ UNCHANGED failure
          ELSE Fail(i, v) /\ UNCHANGED <<run, due>>
     /\ UNCHANGED <<control, stopping, unresolvable, effects>>

Start(i) ==
  LET t == CallAt(i)
  IN /\ worker[i].at = "start"
     /\ \E v \in Verdicts(CanStartTool(run, t)) :
          IF v = "accepted"
          THEN run' = StartTool(run, t) /\ Goto(i, "before") /\ UNCHANGED failure
          ELSE Fail(i, v) /\ UNCHANGED run
     /\ UNCHANGED <<control, stopping, due, unresolvable, effects>>

-----------------------------------------------------------------------------
(***************************************************************************)
(* The tool's body: it may fail before its effect; beforeEffect reads the  *)
(* run once more; after the effect anything but a refusal may be reported, *)
(* a cancellation only when one is recorded.                               *)
(***************************************************************************)
BodyFailures == {Outcome("failed", "failed", "runner")}
                  \cup (IF "cleanup_failed" \in Faults THEN {Outcome("failed", "cleanup_failed", "runner")} ELSE {})

BeforeEffect(i) ==
  /\ worker[i].at = "before"
  /\ \/ Stopped /\ Fail(i, "service_stopped")
     \/ ~Stopped /\ run.cancelRequested /\ Hold(i, "commit", Cancelled) /\ UNCHANGED failure
     \/ ~Stopped /\ ~run.cancelRequested /\ Goto(i, "effect") /\ UNCHANGED failure
     \/ \E out \in BodyFailures : Hold(i, "commit", out) /\ UNCHANGED failure
  /\ UNCHANGED <<run, control, stopping, due, unresolvable, effects>>

FaultyEffect(i) ==
  /\ worker[i].at = "effect"
  /\ effects' = [effects EXCEPT ![CallAt(i)] = @ + 1]
  /\ Goto(i, "body") \/ Goto(i, "before")
  /\ UNCHANGED <<run, control, stopping, due, unresolvable, failure>>

Effect(i) ==
  /\ worker[i].at = "effect"
  /\ effects' = [effects EXCEPT ![CallAt(i)] = @ + 1]
  /\ Goto(i, "body")
  /\ UNCHANGED <<run, control, stopping, due, unresolvable, failure>>

\* A shell polls beforeEffect while it runs, so a shutdown may also throw.
BodyEnds(i) ==
  /\ worker[i].at = "body"
  /\ \/ \E out \in BodyFailures \cup {Outcome("succeeded", "completed", "runner")} :
          Hold(i, "commit", out) /\ UNCHANGED failure
     \/ run.cancelRequested /\ ~Stopped /\ Hold(i, "commit", Cancelled) /\ UNCHANGED failure
     \/ Stopped /\ Fail(i, "service_stopped")
  /\ UNCHANGED <<run, control, stopping, due, unresolvable, effects>>

\* waitForCommitTurn: until every call declared earlier has settled.
CommitTurn(i) ==
  /\ worker[i].at = "commit"
  /\ \/ Stopped /\ Fail(i, "service_stopped")
     \/ ~Stopped /\ EarlierOpen(run, CallAt(i)) = {} /\ Goto(i, "finish") /\ UNCHANGED failure
  /\ UNCHANGED <<run, control, stopping, due, unresolvable, effects>>

Finish(i) ==
  /\ worker[i].at = "finish"
  /\ \/ Settle(i, run, worker[i].out)
     \/ "write_refused" \in Faults /\ Fail(i, "write_refused") /\ UNCHANGED run
  /\ UNCHANGED <<control, stopping, due, unresolvable, effects>>

WorkerStep(i) ==
  Advance(i) \/ Wake(i) \/ SettleUndispatched(i) \/ Expire(i) \/ Ask(i) \/ Start(i)
    \/ BeforeEffect(i) \/ Effect(i) \/ BodyEnds(i) \/ CommitTurn(i) \/ Finish(i)
=============================================================================
