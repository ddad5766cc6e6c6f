------------------------------- MODULE AgentLoop -------------------------------
(***************************************************************************)
(* packages/server/src/execution/agent-loop.ts drive: the owner of one     *)
(* accepted run, from its first model request to its terminal fact, with   *)
(* the workers of ToolService it launches, the monitor that polls for      *)
(* cancellation, the user, the approval clock and the service's shutdown.  *)
(*                                                                         *)
(* pc is the await the loop is at.  A load and the code after it are one   *)
(* step, an append is another: whatever happens in between is judged by    *)
(* the store.  An error that leaves drive with the run still open is a     *)
(* service error, and `error` keeps its code.                              *)
(*                                                                         *)
(* The run is stored and alone in its session; a run that already has      *)
(* steps is refused by drive and is not modelled, nor are the sizes and    *)
(* contents of requests.  maxSteps is MaxStep.                             *)
(***************************************************************************)
EXTENDS ToolService

CONSTANT
  MaxParallel  \* maxParallelToolCalls

ASSUME ParallelAssumption == MaxParallel \in Nat \ {0}

VARIABLES
  pc,         \* the await the loop is at
  answer,     \* the model outcome being recorded, with the number of calls it declares
  compacted,  \* what the last call of compact returned
  next,       \* the slot to prepare or to launch
  goal,       \* the outcome the run is to be closed with
  error,      \* the code of the error drive ended with or is handling
  caught      \* the loop is inside drive's catch block

loopVars == <<pc, answer, compacted, next, goal, error, caught>>
vars == <<toolVars, loopVars>>

Points ==
  {"top", "compact", "summarizing", "compactionAnswered", "afterCompact", "openStep",
   "request", "launch", "reading", "answered", "record", "recorded",
   "prepare", "create", "pool", "waitStart", "await", "starve", "tooled", "closeStep", "stepClosed",
   "cancel", "sweep", "sweeping", "finish", "close", "catch", "ended"}

Answer(status, reason, calls) == [status |-> status, reason |-> reason, origin |-> "runner", calls |-> calls]
NoAnswer == Answer("none", "none", 0)

Completed == Outcome("completed", "completed", "runner")
Failed(reason) == Outcome("failed", reason, "runner")

TypeOK ==
  /\ ToolsTypeOK
  /\ pc \in Points
  /\ answer.calls \in 0..MaxCall
  /\ next \in 1..(MaxCall + 1)
  /\ compacted \in BOOLEAN /\ caught \in BOOLEAN

\* run.submit recorded run.started and user.message.
Init ==
  /\ \E c \in Commands : run = AdmitMessage(StartedRun(c))
  /\ control = "none" /\ stopping = FALSE /\ due = FALSE
  /\ unresolvable = {}
  /\ effects = [t \in Calls |-> 0]
  /\ worker = [i \in Slots |-> Idle]
  /\ failure = "none"
  /\ pc = "top" /\ answer = NoAnswer /\ compacted = FALSE /\ next = 1
  /\ goal = Completed /\ error = "none" /\ caught = FALSE

OpenSteps == {k \in Steps : run.steps[k] # "absent"}
NextStep  == Cardinality(OpenSteps) + 1
\* The attempt the open step's next request is.
NextAttempt == IF run.requests[<<run.activeStep, 1>>].status = "absent" THEN 1 ELSE 2

\* The loop's own variables, apart from pc, stay.
Stay == UNCHANGED <<answer, compacted, next, goal, error, caught>>

GotoLoop(p) == pc' = p /\ Stay

\* drive's catch block takes every error thrown outside it.
Throw(code) ==
  /\ pc' = IF caught THEN "ended" ELSE "catch"
  /\ error' = code
  /\ UNCHANGED <<answer, compacted, next, goal, caught>>

CloseWith(outcome) ==
  /\ pc' = "finish" /\ goal' = outcome
  /\ UNCHANGED <<answer, compacted, next, error, caught>>

LoopStopped == control = "stopped"

-----------------------------------------------------------------------------
(***************************************************************************)
(* checkControl before or after a load: the service stops or the monitor   *)
(* failed, and the error leaves drive whatever is still running.           *)
(***************************************************************************)
Halt ==
  /\ LoopStopped
  /\ pc \in {"top", "compactionAnswered", "request", "launch", "answered", "recorded", "prepare", "waitStart",
             "tooled", "stepClosed", "cancel", "sweep", "finish"}
  /\ Throw("service_stopped")
  /\ UNCHANGED toolVars

\* A load that finds a recorded cancellation.
Top ==
  /\ pc = "top" /\ ~LoopStopped
  /\ IF run.cancelRequested THEN GotoLoop("cancel")
     ELSE GotoLoop("openStep") \/ ("context" \in Faults /\ GotoLoop("compact"))
  /\ UNCHANGED toolVars

OpenStep ==
  /\ pc = "openStep"
  /\ \E v \in Verdicts(CanStartStep(run, NextStep)) :
       IF v = "accepted"
       THEN run' = StartStep(run, NextStep) /\ GotoLoop("request")
       ELSE Throw(v) /\ UNCHANGED run
  /\ UNCHANGED <<control, stopping, due, unresolvable, effects, worker, failure>>

-----------------------------------------------------------------------------
(***************************************************************************)
(* compact: before a step under pressure, or inside it after the first     *)
(* context_limit answer.  No plan, too large a request or no capacity is   *)
(* FALSE; the compaction is outside the workspace gate.                    *)
(***************************************************************************)
Trigger == IF run.activeStep = 0 THEN "pressure" ELSE "context_overflow"

Compacted(result) ==
  /\ pc' = "afterCompact" /\ compacted' = result
  /\ UNCHANGED <<answer, next, goal, error, caught>>

Compact ==
  /\ pc = "compact"
  /\ \/ Compacted(FALSE) /\ UNCHANGED run
     \/ /\ CanStartCompaction(run, Trigger)
        /\ run' = StartCompaction(run, Trigger)
        /\ GotoLoop("summarizing")
     \/ ~CanStartCompaction(run, Trigger) /\ Throw(DispatchError) /\ UNCHANGED run
  /\ UNCHANGED <<control, stopping, due, unresolvable, effects, worker, failure>>

\* executeModelRequest of the checkpoint: an abort of the run ends it without a summary.
Summarize ==
  /\ pc = "summarizing"
  /\ \/ /\ control = "none" /\ \E ok \in BOOLEAN : pc' = "compactionAnswered" /\ compacted' = ok
        /\ UNCHANGED <<answer, next, goal, error, caught>>
     \/ /\ control = "cancel_requested" /\ pc' = "compactionAnswered" /\ compacted' = FALSE
        /\ UNCHANGED <<answer, next, goal, error, caught>>
     \/ LoopStopped /\ Throw("service_stopped")
     \/ "provider_cleanup" \in Faults /\ Throw("provider_cleanup")
  /\ UNCHANGED toolVars

SettleCompaction ==
  /\ pc = "compactionAnswered" /\ ~LoopStopped
  /\ CanSettleCompaction(run)
  /\ run' = IF compacted THEN SucceedCompaction(run) ELSE FailCompaction(run)
  /\ GotoLoop("afterCompact")
  /\ UNCHANGED <<control, stopping, due, unresolvable, effects, worker, failure>>

FaultyAfterCompact ==
  /\ pc = "afterCompact"
  /\ IF run.cancelRequested THEN GotoLoop("cancel")
     ELSE IF run.activeStep = 0
          THEN GotoLoop("openStep") \/ (~compacted /\ CloseWith(Failed("limit_exceeded")))
          ELSE GotoLoop("request")
  /\ UNCHANGED toolVars

\* Under pressure a failed compaction is fatal only above the hard limit.
AfterCompact ==
  /\ pc = "afterCompact"
  /\ IF run.cancelRequested THEN GotoLoop("cancel")
     ELSE IF run.activeStep = 0
          THEN GotoLoop("openStep") \/ (~compacted /\ CloseWith(Failed("limit_exceeded")))
          ELSE IF compacted THEN GotoLoop("request") ELSE CloseWith(Failed("context_limit"))
  /\ UNCHANGED toolVars

-----------------------------------------------------------------------------
(***************************************************************************)
(* One model request: start, stream, settle.                               *)
(***************************************************************************)
TooLarge ==
  /\ pc = "request" /\ ~LoopStopped
  /\ "context" \in Faults
  /\ CloseWith(Failed("limit_exceeded"))
  /\ UNCHANGED toolVars

StartModelRequest ==
  /\ pc = "request" /\ ~LoopStopped
  /\ \E v \in Verdicts(CanStartRequest(run, run.activeStep, NextAttempt)) :
       CASE v = "accepted" -> /\ run' = StartRequest(run, run.activeStep, NextAttempt)
                              /\ GotoLoop("launch")
         [] v = "session_capacity" -> CloseWith(Failed("limit_exceeded")) /\ UNCHANGED run
         [] OTHER -> Throw(v) /\ UNCHANGED run
  /\ UNCHANGED <<control, stopping, due, unresolvable, effects, worker, failure>>

\* control.abort("cancel_requested") of a signal that may be aborted already.
AbortForCancel == IF run.cancelRequested /\ control = "none" THEN "cancel_requested" ELSE control

Launch ==
  /\ pc = "launch" /\ ~LoopStopped
  /\ control' = AbortForCancel
  /\ IF control' = "cancel_requested"
     THEN pc' = "answered" /\ answer' = Answer("cancelled", "cancel_requested", 0)
     ELSE pc' = "reading" /\ answer' = NoAnswer
  /\ UNCHANGED <<compacted, next, goal, error, caught>>
  /\ UNCHANGED <<run, stopping, due, unresolvable, effects, worker, failure>>

Answered(result) ==
  /\ pc' = "answered" /\ answer' = result
  /\ UNCHANGED <<compacted, next, goal, error, caught>>

ModelFailures == {"failed", "limit_exceeded"} \cup (IF "context" \in Faults THEN {"context_limit"} ELSE {})

\* Every answer races with the abort, which wins; no late data is admitted.
Reading ==
  /\ pc = "reading"
  /\ \/ control = "none" /\ \E n \in 0..MaxCall : Answered(Answer("succeeded", "completed", n))
     \/ control = "none" /\ \E reason \in ModelFailures : Answered(Answer("failed", reason, 0))
     \/ control = "cancel_requested" /\ Answered(Answer("cancelled", "cancel_requested", 0))
     \/ LoopStopped /\ Throw("service_stopped")
     \/ "provider_cleanup" \in Faults /\ Throw("provider_cleanup")
  /\ UNCHANGED toolVars

\* onDeltas: a batch refused because of a cancellation aborts the reading; one without capacity ends it.
AppendDelta ==
  LET q == run.activeRequest
  IN /\ pc = "reading" /\ control = "none"
     /\ \/ CanRecordDelta(run, q) /\ run' = RecordDelta(run, q) /\ GotoLoop("reading") /\ UNCHANGED control
        \/ /\ MaxDelta > 0 /\ run.cancelRequested
           /\ control' = "cancel_requested"
           /\ Answered(Answer("cancelled", "cancel_requested", 0)) /\ UNCHANGED run
        \/ /\ "session_capacity" \in Faults
           /\ Answered(Answer("failed", "limit_exceeded", 0)) /\ UNCHANGED <<run, control>>
     /\ UNCHANGED <<stopping, due, unresolvable, effects, worker, failure>>

\* The last load before the outcome is saved.
CheckAnswer ==
  /\ pc = "answered" /\ ~LoopStopped
  /\ pc' = "record"
  /\ answer' = IF run.cancelRequested THEN Answer("cancelled", "cancel_requested", 0) ELSE answer
  /\ UNCHANGED <<compacted, next, goal, error, caught>>
  /\ UNCHANGED toolVars

RecordAnswer ==
  /\ pc = "record"
  /\ IF CanFinishRequest(run, run.activeRequest, answer, answer.calls)
     THEN run' = FinishRequest(run, run.activeRequest, answer, answer.calls) /\ GotoLoop("recorded")
     ELSE Throw("invalid-outcome") /\ UNCHANGED run
  /\ UNCHANGED <<control, stopping, due, unresolvable, effects, worker, failure>>

\* What the answer leads to.  The overflow compaction does not look at a cancellation first.
Recorded ==
  /\ pc = "recorded" /\ ~LoopStopped
  /\ IF answer.reason = "context_limit" /\ LastAttempt(run, run.activeStep) = 1 /\ "context" \in Faults
     THEN GotoLoop("compact")
     ELSE IF answer.status # "succeeded"
     THEN CloseWith(Outcome(IF answer.status = "cancelled" THEN "cancelled" ELSE "failed", answer.reason, "runner"))
     ELSE IF answer.calls = 0
     THEN CloseWith(Completed)
     ELSE /\ pc' = "prepare" /\ next' = 1
          /\ UNCHANGED <<answer, compacted, goal, error, caught>>
  /\ UNCHANGED toolVars

-----------------------------------------------------------------------------
(***************************************************************************)
(* The tools of one answer: every declaration is prepared in order, then   *)
(* dispatched.  A session_capacity error settles the first call that is    *)
(* open and not dispatched, and closes the run.                            *)
(***************************************************************************)
ThrowInTools(code) == IF code = "session_capacity" THEN GotoLoop("starve") ELSE Throw(code)

Prepare ==
  /\ pc = "prepare" /\ ~LoopStopped
  /\ IF run.cancelRequested THEN GotoLoop("cancel")
     ELSE IF next <= answer.calls THEN GotoLoop("create")
     ELSE /\ pc' = "pool" /\ next' = 1
          /\ UNCHANGED <<answer, compacted, goal, error, caught>>
  /\ UNCHANGED toolVars

\* What the registry says of a declared call: reads run in parallel and ungated, the rest alone.  The gate
\* goes by the tool's name only: a gated call's arguments may be refused too.
CallKinds == {[mode |-> "parallel", gated |-> FALSE, resolvable |-> TRUE],
              [mode |-> "exclusive", gated |-> FALSE, resolvable |-> TRUE],
              [mode |-> "exclusive", gated |-> TRUE, resolvable |-> TRUE],
              [mode |-> "exclusive", gated |-> FALSE, resolvable |-> FALSE],
              [mode |-> "exclusive", gated |-> TRUE, resolvable |-> FALSE]}

CreateDeclared ==
  /\ pc = "create"
  /\ LET t == CallAt(next)
     IN \E v \in Verdicts(CanCreateCall(run, t)) :
          IF v = "accepted"
          THEN /\ \E kind \in CallKinds :
                    /\ run' = CreateCall(run, t, kind.gated, kind.mode)
                    /\ unresolvable' = IF kind.resolvable THEN unresolvable ELSE unresolvable \cup {next}
               /\ pc' = "prepare" /\ next' = next + 1
               /\ UNCHANGED <<answer, compacted, goal, error, caught>>
          ELSE ThrowInTools(v) /\ UNCHANGED <<run, unresolvable>>
  /\ UNCHANGED <<control, stopping, due, effects, worker, failure>>

Mode(i) == run.tools[CallAt(i)].mode

\* The loop starts a call's settleTool and goes on to await it at p.
LaunchWorker(i, p) ==
  /\ Goto(i, "advance")
  /\ pc' = p /\ next' = i + 1
  /\ UNCHANGED <<answer, compacted, goal, error, caught>>
  /\ UNCHANGED <<run, control, stopping, due, unresolvable, effects, failure>>

FaultyPool ==
  /\ pc = "pool"
  /\ IF next <= answer.calls /\ failure = "none"
     THEN LaunchWorker(next, IF Mode(next) = "parallel" THEN "waitStart" ELSE "await")
     ELSE /\ BusySlots = {}
          /\ IF failure = "none" THEN GotoLoop("tooled") ELSE ThrowInTools(failure)
          /\ UNCHANGED toolVars

FaultyPoolEnd ==
  /\ pc = "pool"
  /\ IF next <= answer.calls /\ failure = "none"
     THEN IF Mode(next) = "parallel"
          THEN Cardinality(BusySlots) < MaxParallel /\ LaunchWorker(next, "waitStart")
          ELSE BusySlots = {} /\ LaunchWorker(next, "await")
     ELSE /\ IF failure = "none" THEN GotoLoop("tooled") ELSE ThrowInTools(failure)
          /\ UNCHANGED toolVars

\* dispatchToolCalls: a full pool, an exclusive call, the end and a failure all wait for the active ones.
Pool ==
  /\ pc = "pool"
  /\ IF next <= answer.calls /\ failure = "none"
     THEN IF Mode(next) = "parallel"
          THEN Cardinality(BusySlots) < MaxParallel /\ LaunchWorker(next, "waitStart")
          ELSE BusySlots = {} /\ LaunchWorker(next, "await")
     ELSE /\ BusySlots = {}
          /\ IF failure = "none" THEN GotoLoop("tooled") ELSE ThrowInTools(failure)
          /\ UNCHANGED toolVars

\* waitForToolStart, and the await of an exclusive call's settleTool.
WaitStart ==
  /\ pc = "waitStart" /\ ~LoopStopped
  /\ ~Busy(next - 1) \/ run.tools[CallAt(next - 1)].started
       \/ run.tools[CallAt(next - 1)].status \notin {"created", "waiting_for_approval"}
  /\ GotoLoop("pool")
  /\ UNCHANGED toolVars

AwaitExclusive ==
  /\ pc = "await" /\ ~Busy(next - 1)
  /\ GotoLoop("pool")
  /\ UNCHANGED toolVars

FirstUndispatched(i) ==
  /\ run.tools[CallAt(i)].status \in {"created", "waiting_for_approval"}
  /\ \A j \in 1..(i - 1) : run.tools[CallAt(j)].status \notin {"created", "waiting_for_approval"}

Starve ==
  LET out == Outcome("failed", "limit_exceeded", "system")
  IN /\ pc = "starve"
     /\ IF \E i \in Slots : FirstUndispatched(i)
        THEN \E i \in Slots : /\ FirstUndispatched(i)
                              /\ IF CanFinishTool(run, CallAt(i), out)
                                 THEN run' = FinishTool(run, CallAt(i), out) /\ CloseWith(Failed("limit_exceeded"))
                                 ELSE Throw("tool-order") /\ UNCHANGED run
        ELSE CloseWith(Failed("limit_exceeded")) /\ UNCHANGED run
     /\ UNCHANGED <<control, stopping, due, unresolvable, effects, worker, failure>>

FaultyTooled ==
  /\ pc = "tooled"
  /\ IF run.cancelRequested THEN GotoLoop("cancel") ELSE ~LoopStopped /\ GotoLoop("closeStep")
  /\ UNCHANGED toolVars

Tooled ==
  /\ pc = "tooled"
  /\ IF run.blockedReason = "cleanup_failed" THEN CloseWith(Failed("cleanup_failed"))
     ELSE IF run.cancelRequested THEN GotoLoop("cancel")
     ELSE ~LoopStopped /\ GotoLoop("closeStep")
  /\ UNCHANGED toolVars

CloseStep ==
  /\ pc = "closeStep"
  /\ IF CanFinishStep(run, run.activeStep, Completed)
     THEN run' = FinishStep(run, run.activeStep, Completed) /\ GotoLoop("stepClosed")
     ELSE Throw("unsettled-step") /\ UNCHANGED run
  /\ UNCHANGED <<control, stopping, due, unresolvable, effects, worker, failure>>

\* The workers of the closed step are gone.
StepClosed ==
  /\ pc = "stepClosed" /\ ~LoopStopped
  /\ IF NextStep > MaxStep THEN CloseWith(Failed("limit_exceeded")) ELSE GotoLoop("top")
  /\ due' = FALSE /\ unresolvable' = {} /\ worker' = [i \in Slots |-> Idle]
  /\ UNCHANGED <<run, control, stopping, effects, failure>>

-----------------------------------------------------------------------------
(***************************************************************************)
(* finishCancellation: the open request, then every call not dispatched,   *)
(* are settled as cancelled.  A call still running is nobody's.            *)
(***************************************************************************)
Cancel ==
  /\ pc = "cancel" /\ ~LoopStopped
  /\ run' = IF run.activeRequest # NoRequest
            THEN FinishRequest(run, run.activeRequest, Cancelled, 0) ELSE run
  /\ GotoLoop("sweep")
  /\ UNCHANGED <<control, stopping, due, unresolvable, effects, worker, failure>>

FirstOpen(i) == IsOpen(run.tools[CallAt(i)]) /\ \A j \in 1..(i - 1) : ~IsOpen(run.tools[CallAt(j)])

Sweep ==
  /\ pc = "sweep" /\ ~LoopStopped
  /\ IF run.activeStep # 0 /\ \E i \in Slots : FirstOpen(i)
     THEN \E i \in Slots :
            /\ FirstOpen(i)
            /\ IF run.tools[CallAt(i)].status = "running"
               THEN Throw("unowned_dispatch") /\ UNCHANGED toolVars
               ELSE /\ Goto(i, "advance") /\ failure' = "none"
                    /\ pc' = "sweeping" /\ next' = i + 1
                    /\ UNCHANGED <<answer, compacted, goal, error, caught>>
                    /\ UNCHANGED <<run, control, stopping, due, unresolvable, effects>>
     ELSE /\ IF run.blockedReason = "cleanup_failed" THEN CloseWith(Failed("cleanup_failed")) ELSE CloseWith(Cancelled)
          /\ UNCHANGED toolVars

Sweeping ==
  /\ pc = "sweeping" /\ ~Busy(next - 1)
  /\ IF worker[next - 1].at = "done" THEN GotoLoop("sweep") ELSE Throw(failure)
  /\ UNCHANGED toolVars

-----------------------------------------------------------------------------
(***************************************************************************)
(* finish: read the run once more, then close the step and the run in one  *)
(* batch, which a cancellation recorded in between makes the store refuse. *)
(***************************************************************************)
FinishLoad ==
  /\ pc = "finish" /\ ~LoopStopped
  /\ IF run.status \in TerminalStatus THEN GotoLoop("ended")
     ELSE IF run.cancelRequested /\ goal.status # "cancelled" /\ goal.reason # "cleanup_failed"
     THEN GotoLoop("cancel")
     ELSE GotoLoop("close")
  /\ UNCHANGED toolVars

CloseRun ==
  LET open   == run.activeStep # 0
      closed == IF open THEN FinishStep(run, run.activeStep, goal) ELSE run
  IN /\ pc = "close"
     /\ IF (open => CanFinishStep(run, run.activeStep, goal)) /\ CanFinishRun(closed, goal)
        THEN run' = FinishRun(closed, goal) /\ GotoLoop("ended")
        ELSE Throw("unsettled-step") /\ UNCHANGED run
     /\ UNCHANGED <<control, stopping, due, unresolvable, effects, worker, failure>>

FaultyCancelledRace == {"cancelled-dispatch", "late-event", "late-approval"}

\* The errors drive takes for a lost race when a cancellation is recorded.
CancelledRace == {"cancelled-dispatch", "late-event", "late-approval", "unsettled-step"}

Catch ==
  /\ pc = "catch"
  /\ IF error \in CancelledRace /\ run.cancelRequested
     THEN pc' = "cancel" /\ error' = "none" /\ caught' = TRUE
     ELSE pc' = "ended" /\ UNCHANGED <<error, caught>>
  /\ UNCHANGED <<answer, compacted, next, goal>>
  /\ UNCHANGED toolVars

LoopStep ==
  \/ Halt \/ Top \/ OpenStep
  \/ Compact \/ Summarize \/ SettleCompaction \/ AfterCompact
  \/ TooLarge \/ StartModelRequest \/ Launch \/ Reading \/ AppendDelta \/ CheckAnswer \/ RecordAnswer \/ Recorded
  \/ Prepare \/ CreateDeclared \/ Pool \/ WaitStart \/ AwaitExclusive \/ Starve \/ Tooled \/ CloseStep \/ StepClosed
  \/ Cancel \/ Sweep \/ Sweeping \/ FinishLoad \/ CloseRun \/ Catch

-----------------------------------------------------------------------------
(***************************************************************************)
(* Everybody else.                                                         *)
(***************************************************************************)
\* The polling monitor, until drive's finally block stops it: a cancellation, or its own failure, aborts the run.
Monitor ==
  /\ pc # "ended" /\ run.cancelRequested /\ control = "none"
  /\ control' = "cancel_requested"
  /\ UNCHANGED <<run, stopping, due, unresolvable, effects, worker, failure>>
  /\ UNCHANGED loopVars

MonitorFails ==
  /\ "monitor_failed" \in Faults
  /\ pc # "ended" /\ control = "none"
  /\ control' = "stopped"
  /\ UNCHANGED <<run, stopping, due, unresolvable, effects, worker, failure>>
  /\ UNCHANGED loopVars

\* run.cancel of the active run.
UserCancels ==
  /\ run.status \in LiveStatus /\ CanRequestCancel(run)
  /\ run' = RequestCancel(run)
  /\ UNCHANGED <<control, stopping, due, unresolvable, effects, worker, failure>>
  /\ UNCHANGED loopVars

\* approval.resolve: before the deadline and before a cancellation.
UserDecides(t, decision) ==
  /\ run.status \in LiveStatus /\ ~run.cancelRequested /\ ~due
  /\ CanResolveApproval(run, t, decision, "user")
  /\ run' = ResolveApproval(run, t, decision)
  /\ UNCHANGED <<control, stopping, due, unresolvable, effects, worker, failure>>
  /\ UNCHANGED loopVars

\* The pending approval's deadline passes.
Deadline ==
  /\ ~due /\ PendingApproval(run)
  /\ due' = TRUE
  /\ UNCHANGED <<run, control, stopping, unresolvable, effects, worker, failure>>
  /\ UNCHANGED loopVars

\* close(): an abort that comes second does not replace the first reason.
ServiceCloses ==
  /\ "service_stopped" \in Faults /\ ~stopping
  /\ stopping' = TRUE
  /\ control' = IF control = "none" THEN "stopped" ELSE control
  /\ UNCHANGED <<run, due, unresolvable, effects, worker, failure>>
  /\ UNCHANGED loopVars

Next ==
  \/ LoopStep
  \/ \E i \in Slots : WorkerStep(i) /\ UNCHANGED loopVars
  \/ Monitor
  \/ MonitorFails
  \/ UserCancels
  \/ \E t \in Calls, d \in {"allowed", "denied"} : UserDecides(t, d)
  \/ Deadline
  \/ ServiceCloses

(***************************************************************************)
(* The loop's own steps, its workers and its monitor are promises the      *)
(* event loop resumes; a model request ends by its timeout and a tool body *)
(* by its own limits; the clock reaches a deadline.  Nothing is assumed of *)
(* the user, nor of the service's shutdown.                                *)
(***************************************************************************)
Fairness ==
  /\ WF_vars(LoopStep)
  /\ \A i \in Slots : WF_vars(WorkerStep(i) /\ UNCHANGED loopVars)
  /\ WF_vars(Monitor)
  /\ WF_vars(Deadline)

Spec == Init /\ [][Next]_vars /\ Fairness

-----------------------------------------------------------------------------
(***************************************************************************)
(* Properties                                                              *)
(***************************************************************************)
\* Whatever the user, the model, the tools and the clock do, the loop ends and its workers with it.
LoopEnds == <>(pc = "ended" /\ BusySlots = {})

\* Without a fault the loop closes its run.
LoopCloses == <>(run.status \in TerminalStatus)

\* A dispatched call whose worker is gone without its result: the store refused to save it.
Unsaved == \E t \in run.activeTools : worker[t[2]].at = "failed"

\* The loop leaves its run open only when it is stopped, when the store or the provider fails, when a
\* cancellation reaches a call behind a running sibling, when capacity ran out before several open calls, or
\* when a result could not be saved.
LeftOpen ==
  pc = "ended" /\ run.status \notin TerminalStatus =>
    \/ Stopped
    \/ error \in {"workspace_blocked", "provider_cleanup", "session_capacity"}
    \/ error = "tool-order" /\ run.cancelRequested
    \/ error = "unsettled-step" /\ goal = Failed("limit_exceeded")
    \/ Unsaved

\* The second request of a step rests on a checkpoint that was saved for this step: the reducer reads the
\* run's last compaction and would take one that an earlier step left behind.
RetryHasCheckpoint ==
  run.activeStep # 0 /\ run.requests[<<run.activeStep, 2>>].status # "absent" =>
    run.compaction = [status |-> "succeeded", trigger |-> "context_overflow", step |-> run.activeStep]

\* At most MaxParallel calls are driven, and dispatched, at once.
PoolBound == Cardinality(BusySlots) <= MaxParallel /\ Cardinality(run.activeTools) <= MaxParallel

\* A loop that was not stopped leaves no worker behind; a dispatched call without a result is over, and its
\* result could not be saved.
Drained ==
  pc = "ended" /\ ~Stopped => BusySlots = {} /\ \A t \in run.activeTools : worker[t[2]].out # NoOutcome

(***************************************************************************)
(* The calls keep the promises of EffectLedger.                            *)
(***************************************************************************)
Phase(t) ==
  LET tool == run.tools[t]
  IN CASE tool.status = "absent"                        -> "undeclared"
       [] IsOpen(tool) /\ ~tool.started                 -> "held"
       [] IsOpen(tool) /\ tool.started                  -> "dispatched"
       [] tool.status \in TerminalCall /\ ~tool.started -> "refused"
       [] tool.status \in TerminalCall /\ tool.started  -> IF tool.status = "succeeded" THEN "succeeded" ELSE "settled"

Gate(t) == IF ~run.tools[t].gated THEN "open" ELSE IF run.approvals[t] = "allowed" THEN "decided" ELSE "shut"

L == INSTANCE EffectLedger
       WITH phase <- [t \in Calls |-> Phase(t)],
            gate <- [t \in Calls |-> Gate(t)],
            parallel <- {t \in Calls : run.tools[t].mode = "parallel" /\ run.tools[t].status # "absent"},
            effects <- effects

\* A body takes effect only after its call is dispatched behind its gate, at most once, and never after the
\* call's result; results are saved in the order of declaration.
Ledger == L!Spec

(***************************************************************************)
(* What the documentation promises.                                        *)
(***************************************************************************)
\* docs/agent-loop.md: a cancellation closes what is pending, whatever its siblings do.
CancelCloses == pc = "ended" /\ run.cancelRequested => run.status \in TerminalStatus

\* docs/agent-loop.md: exhausting the session's capacity closes the active lifecycle with limit_exceeded.
CapacityCloses == pc = "ended" => run.status \in TerminalStatus

\* docs/agent-loop.md: a storage write failure propagates as a service error.
RefusedWritePropagates == failure = "write_refused" ~> pc = "ended"

\* docs/agent-loop.md: accepted cancellation prevents new model dispatch, a checkpoint's request included.
NoCompactionAfterCancel ==
  [][pc # "summarizing" /\ pc' = "summarizing" => ~run.cancelRequested]_vars
=============================================================================
