------------------------------ MODULE RunReducer ------------------------------
(***************************************************************************)
(* packages/core/src/reducer.ts and state.ts, seen from one run: a run     *)
(* record, and for every event of applyEvent a guard (Can...) made of its  *)
(* requireFact calls and the record it returns.  Everything here is a pure *)
(* operator, so that a batch of events, a recovery plan or another         *)
(* component composes them.                                                *)
(*                                                                         *)
(* Identities are positions.  A request is <<step, attempt>>, because a    *)
(* step never has more than two; a call is <<step, slot>>, because         *)
(* tool.call.created must consume exactly the next declared call; an       *)
(* approval is named by the call it gates.  What an event repeats about    *)
(* its parent (request_id, attempt, tool_name, cwd, arguments) is therefore *)
(* determined by the position, and the equality checks on it (requestFor,  *)
(* callFor, frozenCall) are left out.                                      *)
(*                                                                         *)
(* Texts, timings, usage and errors are left out: no guard reads them.     *)
(* "cancelled" and "cancel_requested" are one reason, since every guard    *)
(* treats them alike.                                                      *)
(*                                                                         *)
(* A definition named Faulty... is never used: it is the plausible bug     *)
(* that, put in place of the definition after it, the properties catch.    *)
(***************************************************************************)
EXTENDS Integers, FiniteSets

CONSTANTS
  MaxStep,        \* bound: model steps of a run
  MaxCall,        \* bound: tool calls one response declares
  MaxDelta,       \* bound: stream fragments kept of one response
  Commands,       \* command identities
  FailureReasons  \* the reasons a failure carries

ASSUME BoundsAssumption ==
  /\ MaxStep \in Nat \ {0}
  /\ MaxCall \in Nat
  /\ MaxDelta \in Nat

\* A failure never carries the reason of another outcome; these reasons the reducer treats apart.
ASSUME ReasonsAssumption ==
  /\ FailureReasons \cap {"none", "completed", "cancel_requested", "denied", "expired", "interrupted"} = {}
  /\ {"cleanup_failed", "context_limit", "validation_failed", "limit_exceeded"} \subseteq FailureReasons

Steps    == 1..MaxStep
Slots    == 1..MaxCall
Attempts == 1..2
Requests == Steps \X Attempts
Calls    == Steps \X Slots

NoReason  == "none"
NoRequest == <<0, 0>>
NoCommand == "no command"

Reasons == FailureReasons \cup {"completed", "cancel_requested", "denied", "expired", "interrupted"}

LiveStatus     == {"running", "waiting_for_approval", "cancelling"}
TerminalStatus == {"completed", "failed", "cancelled", "interrupted"}
OpenCall       == {"created", "waiting_for_approval", "running"}
TerminalCall   == {"succeeded", "failed", "denied", "cancelled", "interrupted"}
Triggers       == {"pressure", "context_overflow"}

(***************************************************************************)
(* The record.  A status of "absent" is a missing map entry.  Of the       *)
(* compactions only the last is kept, the one the reducer reads; its step, *)
(* the open one when it started (0 between two steps), stands for its      *)
(* startedSeq, which no guard compares with the step's.                    *)
(***************************************************************************)
RequestType == [status : {"absent", "running", "succeeded", "failed", "cancelled", "interrupted"},
                reason : Reasons \cup {NoReason},
                calls  : 0..MaxCall,
                deltas : 0..MaxDelta]

CallType == [status  : {"absent"} \cup OpenCall \cup TerminalCall,
             reason  : Reasons \cup {NoReason},
             started : BOOLEAN,
             gated   : BOOLEAN,
             mode    : {"parallel", "exclusive"}]

CompactionType == [status  : {"absent", "running", "succeeded", "failed"},
                   trigger : Triggers,
                   step    : 0..MaxStep]

RunType == [status           : {"absent"} \cup LiveStatus \cup TerminalStatus,
            reason           : Reasons \cup {NoReason},
            command          : Commands \cup {NoCommand},
            blockedReason    : Reasons \cup {NoReason},
            cancelRequested  : BOOLEAN,
            userMessage      : BOOLEAN,
            activeStep       : 0..MaxStep,
            activeRequest    : Requests \cup {NoRequest},
            activeTools      : SUBSET Calls,
            activeCompaction : BOOLEAN,
            compaction       : CompactionType,
            steps            : [Steps -> {"absent", "running"} \cup TerminalStatus],
            requests         : [Requests -> RequestType],
            tools            : [Calls -> CallType],
            approvals        : [Calls -> {"absent", "pending", "allowed", "denied", "expired", "cancelled"}]]

AbsentRun ==
  [status           |-> "absent",
   reason           |-> NoReason,
   command          |-> NoCommand,
   blockedReason    |-> NoReason,
   cancelRequested  |-> FALSE,
   userMessage      |-> FALSE,
   activeStep       |-> 0,
   activeRequest    |-> NoRequest,
   activeTools      |-> {},
   activeCompaction |-> FALSE,
   compaction       |-> [status |-> "absent", trigger |-> "pressure", step |-> 0],
   steps            |-> [k \in Steps |-> "absent"],
   requests         |-> [q \in Requests |-> [status |-> "absent", reason |-> NoReason, calls |-> 0, deltas |-> 0]],
   tools            |-> [t \in Calls |-> [status |-> "absent", reason |-> NoReason, started |-> FALSE,
                                          gated |-> FALSE, mode |-> "exclusive"]],
   approvals        |-> [t \in Calls |-> "absent"]]

-----------------------------------------------------------------------------
(***************************************************************************)
(* The helpers of reducer.ts.                                              *)
(***************************************************************************)
IsOpen(call) == call.status \in OpenCall

PendingApproval(run) == \E t \in Calls : run.approvals[t] = "pending"

Activity(run) ==
  CASE run.cancelRequested                            -> "cancelling"
    [] ~run.cancelRequested /\ PendingApproval(run)   -> "waiting_for_approval"
    [] ~run.cancelRequested /\ ~PendingApproval(run)  -> "running"

\* replaceRun without `finished`: the status follows the facts just recorded.
Refresh(run) == [run EXCEPT !.status = Activity(run)]

FaultyDispatchable(run) == run.blockedReason = NoReason

Dispatchable(run) ==
  /\ ~run.cancelRequested /\ run.status # "cancelling"
  /\ run.blockedReason = NoReason

\* `run.blockedReason ?? reason`: the first reason stays.
BlockedOr(run, reason) == IF run.blockedReason = NoReason THEN reason ELSE run.blockedReason

\* step.requestIds.at(-1), and the request it names (absent when there is none).
LastAttempt(run, k) == IF run.requests[<<k, 2>>].status # "absent" THEN 2 ELSE 1
LastRequest(run, k) == run.requests[<<k, LastAttempt(run, k)>>]

\* k is run.steps.size.
IsLastStep(run, k) ==
  /\ run.steps[k] # "absent"
  /\ k < MaxStep => run.steps[k + 1] = "absent"

EarlierSlots(t) == {<<t[1], i>> : i \in 1..(t[2] - 1)}
EarlierOpen(run, t) == {u \in EarlierSlots(t) : IsOpen(run.tools[u])}

FaultyNextTool(run, t) ==
  /\ run.steps[t[1]] = "running" /\ run.activeStep = t[1]
  /\ EarlierOpen(run, t) = {}

\* nextTool: t is the first call of the active step that has not settled.
NextTool(run, t) ==
  /\ run.steps[t[1]] = "running" /\ run.activeStep = t[1]
  /\ IsOpen(run.tools[t])
  /\ EarlierOpen(run, t) = {}

FaultyMayStartTool(run, t) ==
  IF run.tools[t].mode = "exclusive"
  THEN EarlierOpen(run, t) = {} /\ run.activeTools = {}
  ELSE /\ \A u \in run.activeTools : run.tools[u].mode = "parallel"
       /\ \A u \in EarlierOpen(run, t) : run.tools[u].mode = "parallel"

MayStartTool(run, t) ==
  IF run.tools[t].mode = "exclusive"
  THEN EarlierOpen(run, t) = {} /\ run.activeTools = {}
  ELSE /\ \A u \in run.activeTools : run.tools[u].mode = "parallel"
       /\ \A u \in EarlierOpen(run, t) : run.tools[u].mode = "parallel" /\ run.tools[u].status = "running"

\* terminalSemantics for an outcome [status, reason, origin].
TerminalSemantics(run, o) ==
  /\ o.status \in {"completed", "succeeded"} => o.reason = "completed"
  /\ o.status = "cancelled" => run.cancelRequested /\ o.reason = "cancel_requested"
  /\ o.status = "interrupted" => o.origin = "recovery" /\ o.reason = "interrupted"
  /\ o.status = "failed" => o.reason \in FailureReasons
  /\ o.origin = "recovery" => o.status = "interrupted"

-----------------------------------------------------------------------------
(***************************************************************************)
(* run.started, user.message, run.cancel_requested                         *)
(***************************************************************************)
StartedRun(command) == [AbsentRun EXCEPT !.status = "running", !.command = command]

CanAdmitMessage(run, command) ==
  /\ ~run.userMessage /\ command = run.command
  /\ Dispatchable(run)

AdmitMessage(run) == Refresh([run EXCEPT !.userMessage = TRUE])

CanRequestCancel(run) == ~run.cancelRequested

RequestCancel(run) == Refresh([run EXCEPT !.cancelRequested = TRUE])

-----------------------------------------------------------------------------
(***************************************************************************)
(* step.started: k is the next number, and the step before it ended in a   *)
(* response that asked for tools.                                          *)
(***************************************************************************)
CanStartStep(run, k) ==
  /\ Dispatchable(run)
  /\ run.userMessage /\ run.activeStep = 0 /\ ~PendingApproval(run)
  /\ run.steps[k] = "absent"
  /\ k > 1 => /\ run.steps[k - 1] = "completed"
              /\ LastRequest(run, k - 1).calls > 0

StartStep(run, k) == Refresh([run EXCEPT !.activeStep = k, !.steps[k] = "running"])

(***************************************************************************)
(* model.request.started: attempt 1, or attempt 2 after a context_limit    *)
(* failure when the run's last compaction is a succeeded overflow one.     *)
(***************************************************************************)
ValidAttempt(run, k, a) ==
  \/ a = 1 /\ run.requests[<<k, 1>>].status = "absent"
  \/ /\ a = 2
     /\ run.requests[<<k, 1>>].status = "failed" /\ run.requests[<<k, 1>>].reason = "context_limit"
     /\ run.compaction.status = "succeeded" /\ run.compaction.trigger = "context_overflow"

FaultyCanStartRequest(run, k, a) ==
  /\ Dispatchable(run)
  /\ run.steps[k] = "running" /\ run.activeStep = k
  /\ run.requests[<<k, 2>>].status = "absent"
  /\ run.activeRequest = NoRequest /\ run.activeTools = {}
  /\ ~PendingApproval(run)
  /\ ValidAttempt(run, k, a)

CanStartRequest(run, k, a) ==
  /\ Dispatchable(run)
  /\ run.steps[k] = "running" /\ run.activeStep = k
  /\ run.requests[<<k, 2>>].status = "absent"
  /\ run.activeRequest = NoRequest /\ run.activeTools = {} /\ ~run.activeCompaction
  /\ ~PendingApproval(run)
  /\ ValidAttempt(run, k, a)

StartRequest(run, k, a) ==
  Refresh([run EXCEPT !.activeRequest = <<k, a>>,
                      !.requests[<<k, a>>] = [status |-> "running", reason |-> NoReason, calls |-> 0, deltas |-> 0]])

CanRecordDelta(run, q) ==
  /\ ~run.cancelRequested
  /\ run.activeRequest = q /\ run.requests[q].status = "running"
  /\ run.requests[q].deltas < MaxDelta

RecordDelta(run, q) ==
  Refresh([run EXCEPT !.requests[q] = [@ EXCEPT !.deltas = run.requests[q].deltas + 1]])

(***************************************************************************)
(* model.request.finished: `calls` tool calls are declared by a succeeded  *)
(* response; their distinct provider identities are the slots.  What an    *)
(* unsuccessful response declares is never read.                           *)
(***************************************************************************)
CanFinishRequest(run, q, o, calls) ==
  /\ run.requests[q].status = "running" /\ run.activeRequest = q
  /\ TerminalSemantics(run, o)
  /\ o.status # "succeeded" => calls = 0

FinishRequest(run, q, o, calls) ==
  Refresh([run EXCEPT !.activeRequest = NoRequest,
                      !.blockedReason = IF o.status = "succeeded" \/ (o.reason = "context_limit" /\ q[2] = 1)
                                        THEN @ ELSE BlockedOr(run, o.reason),
                      !.requests[q] = [@ EXCEPT !.status = o.status, !.reason = o.reason, !.calls = calls]])

-----------------------------------------------------------------------------
(***************************************************************************)
(* context.compaction.*: an overflow compaction answers the first          *)
(* context_limit failure of the open step; any other runs between steps.   *)
(* The source prefix and the shadowed identities are projection data.      *)
(***************************************************************************)
CanStartCompaction(run, trigger) ==
  /\ ~run.activeCompaction
  /\ run.activeRequest = NoRequest /\ run.activeTools = {} /\ ~PendingApproval(run)
  /\ IF trigger = "context_overflow"
     THEN /\ run.activeStep # 0 /\ run.steps[run.activeStep] = "running"
          /\ LastAttempt(run, run.activeStep) = 1
          /\ LastRequest(run, run.activeStep).status = "failed"
          /\ LastRequest(run, run.activeStep).reason = "context_limit"
          /\ run.blockedReason = NoReason
     ELSE Dispatchable(run) /\ run.activeStep = 0

StartCompaction(run, trigger) ==
  Refresh([run EXCEPT !.activeCompaction = TRUE,
                      !.compaction = [status |-> "running", trigger |-> trigger, step |-> run.activeStep]])

CanSettleCompaction(run) == run.activeCompaction /\ run.compaction.status = "running"

SucceedCompaction(run) ==
  Refresh([run EXCEPT !.activeCompaction = FALSE,
                      !.compaction = [@ EXCEPT !.status = "succeeded"]])

FailCompaction(run) ==
  Refresh([run EXCEPT !.activeCompaction = FALSE,
                      !.blockedReason = IF run.compaction.trigger = "context_overflow" THEN "context_limit" ELSE @,
                      !.compaction = [@ EXCEPT !.status = "failed"]])

-----------------------------------------------------------------------------
(***************************************************************************)
(* tool.call.created: t is the next call the succeeded response declared.  *)
(***************************************************************************)
CanCreateCall(run, t) ==
  /\ Dispatchable(run)
  /\ run.steps[t[1]] = "running" /\ run.activeStep = t[1] /\ run.activeRequest = NoRequest
  /\ LastRequest(run, t[1]).status = "succeeded" /\ t[2] <= LastRequest(run, t[1]).calls
  /\ run.tools[t].status = "absent"
  /\ \A u \in EarlierSlots(t) : run.tools[u].status # "absent"

CreateCall(run, t, gated, mode) ==
  Refresh([run EXCEPT !.tools[t] = [status |-> "created", reason |-> NoReason, started |-> FALSE,
                                    gated |-> gated, mode |-> mode]])

CanRequestApproval(run, t) ==
  /\ Dispatchable(run)
  /\ NextTool(run, t)
  /\ run.tools[t].gated /\ run.tools[t].status = "created" /\ run.approvals[t] = "absent"
  /\ ~PendingApproval(run) /\ run.activeTools = {}

RequestApproval(run, t) ==
  Refresh([run EXCEPT !.approvals[t] = "pending",
                      !.tools[t] = [@ EXCEPT !.status = "waiting_for_approval"]])

(***************************************************************************)
(* approval.resolved: recovery and cancellation only cancel, expiry is the *)
(* system's, and a user never cancels an approval.                         *)
(***************************************************************************)
CanResolveApproval(run, t, decision, origin) ==
  /\ run.approvals[t] = "pending" /\ IsOpen(run.tools[t])
  /\ run.cancelRequested => decision = "cancelled"
  /\ origin = "recovery" => decision = "cancelled"
  /\ decision = "expired" => origin = "system"
  /\ decision = "cancelled" => origin # "user" /\ (run.cancelRequested \/ origin = "recovery")

ResolveApproval(run, t, decision) ==
  Refresh([run EXCEPT !.approvals[t] = decision,
                      !.tools[t] = IF decision = "allowed" THEN [@ EXCEPT !.status = "created"] ELSE @])

FaultyCanStartTool(run, t) ==
  /\ Dispatchable(run)
  /\ run.tools[t].status = "created" /\ MayStartTool(run, t)
  /\ run.activeRequest = NoRequest /\ ~PendingApproval(run)
  /\ run.tools[t].gated => run.approvals[t] # "denied"

CanStartTool(run, t) ==
  /\ Dispatchable(run)
  /\ run.tools[t].status = "created" /\ MayStartTool(run, t)
  /\ run.activeRequest = NoRequest /\ ~PendingApproval(run)
  /\ run.tools[t].gated => run.approvals[t] = "allowed"

StartTool(run, t) ==
  Refresh([run EXCEPT !.activeTools = @ \cup {t},
                      !.tools[t] = [@ EXCEPT !.status = "running", !.started = TRUE]])

(***************************************************************************)
(* tool.finished: a dispatched call is neither denied nor rejected by      *)
(* validation; a call never dispatched has one of five ways to settle.     *)
(***************************************************************************)
CanFinishTool(run, t, o) ==
  /\ NextTool(run, t)
  /\ run.approvals[t] # "pending"
  /\ TerminalSemantics(run, o)
  /\ IF run.tools[t].status = "running"
     THEN t \in run.activeTools /\ o.status # "denied" /\ o.reason # "validation_failed"
     ELSE \/ o.status = "denied" /\ run.approvals[t] \in {"denied", "expired"} /\ o.reason = run.approvals[t]
          \/ o.status = "failed" /\ o.reason = "validation_failed"
          \/ o.status = "failed" /\ o.reason = "limit_exceeded" /\ o.origin = "system"
          \/ o.status \in {"cancelled", "interrupted"}

FaultyFinishTool(run, t, o) ==
  Refresh([run EXCEPT !.blockedReason = IF o.reason = "cleanup_failed" THEN "cleanup_failed" ELSE @,
                      !.tools[t] = [@ EXCEPT !.status = o.status, !.reason = o.reason]])

FinishTool(run, t, o) ==
  Refresh([run EXCEPT !.activeTools = @ \ {t},
                      !.blockedReason = IF o.reason = "cleanup_failed" THEN "cleanup_failed" ELSE @,
                      !.tools[t] = [@ EXCEPT !.status = o.status, !.reason = o.reason]])

-----------------------------------------------------------------------------
(***************************************************************************)
(* step.finished and run.finished                                          *)
(***************************************************************************)
FaultyAllDeclaredCreated(run, k) ==
  \A i \in Slots : i < LastRequest(run, k).calls => run.tools[<<k, i>>].status # "absent"

AllDeclaredCreated(run, k) ==
  \A i \in Slots : i <= LastRequest(run, k).calls => run.tools[<<k, i>>].status # "absent"

FaultyCanFinishStep(run, k, o) ==
  /\ run.steps[k] = "running" /\ run.activeStep = k
  /\ run.activeRequest = NoRequest /\ run.activeTools = {}
  /\ \A i \in Slots : ~IsOpen(run.tools[<<k, i>>])
  /\ ~PendingApproval(run)
  /\ TerminalSemantics(run, o)
  /\ o.status = "completed" => /\ ~run.cancelRequested /\ run.blockedReason = NoReason
                               /\ LastRequest(run, k).status = "succeeded"
                               /\ AllDeclaredCreated(run, k)

CanFinishStep(run, k, o) ==
  /\ run.steps[k] = "running" /\ run.activeStep = k
  /\ run.activeRequest = NoRequest /\ run.activeTools = {}
  /\ \A i \in Slots : ~IsOpen(run.tools[<<k, i>>])
  /\ ~PendingApproval(run)
  /\ TerminalSemantics(run, o)
  /\ o.status = "cancelled" => run.blockedReason # "cleanup_failed"
  /\ o.status = "completed" => /\ ~run.cancelRequested /\ run.blockedReason = NoReason
                               /\ LastRequest(run, k).status = "succeeded"
                               /\ AllDeclaredCreated(run, k)

FinishStep(run, k, o) ==
  Refresh([run EXCEPT !.activeStep = 0,
                      !.blockedReason = IF o.status = "completed" THEN @ ELSE BlockedOr(run, o.reason),
                      !.steps[k] = o.status])

\* No child of the run is open.
Settled(run) ==
  /\ run.activeStep = 0 /\ run.activeRequest = NoRequest /\ run.activeTools = {}
  /\ ~run.activeCompaction
  /\ \A k \in Steps : run.steps[k] # "running"
  /\ \A q \in Requests : run.requests[q].status # "running"
  /\ \A t \in Calls : ~IsOpen(run.tools[t])
  /\ ~PendingApproval(run)

\* The last step answered without asking for tools.
HasFinalAnswer(run) ==
  \E k \in Steps : /\ IsLastStep(run, k)
                   /\ run.steps[k] = "completed"
                   /\ LastRequest(run, k).status = "succeeded" /\ LastRequest(run, k).calls = 0

FaultyCanFinishRun(run, o) ==
  /\ run.activeStep = 0 /\ run.activeRequest = NoRequest /\ run.activeTools = {}
  /\ TerminalSemantics(run, o)
  /\ o.status = "cancelled" => run.blockedReason # "cleanup_failed"
  /\ o.status = "completed" => /\ run.userMessage /\ ~run.cancelRequested /\ run.blockedReason = NoReason
                               /\ HasFinalAnswer(run)

CanFinishRun(run, o) ==
  /\ Settled(run)
  /\ TerminalSemantics(run, o)
  /\ o.status = "cancelled" => run.blockedReason # "cleanup_failed"
  /\ o.status = "completed" => /\ run.userMessage /\ ~run.cancelRequested /\ run.blockedReason = NoReason
                               /\ HasFinalAnswer(run)

FinishRun(run, o) == [run EXCEPT !.status = o.status, !.reason = o.reason]

-----------------------------------------------------------------------------
(***************************************************************************)
(* recovery.ts workspaceBlockers: what may still be wrong in the workspace *)
(* after the run closed.  A blocker is the interrupted dispatched call, or *)
(* CleanupBlocker for the run as a whole.                                  *)
(***************************************************************************)
CleanupBlocker == <<0, 0>>

FaultyRunBlockers(run) ==
  {t \in Calls : run.tools[t].status = "interrupted"}
    \cup (IF "cleanup_failed" \in {run.reason, run.blockedReason} THEN {CleanupBlocker} ELSE {})

RunBlockers(run) ==
  {t \in Calls : run.tools[t].started /\ run.tools[t].status = "interrupted"}
    \cup (IF "cleanup_failed" \in {run.reason, run.blockedReason} THEN {CleanupBlocker} ELSE {})
=============================================================================
