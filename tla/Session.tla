-------------------------------- MODULE Session --------------------------------
(***************************************************************************)
(* packages/core/src/reducer.ts: one session's execution state, and one    *)
(* action per event applyEvent accepts.  The environment is any writer of  *)
(* the ledger: it may offer every event at any time, and the guards decide *)
(* what becomes history.  Events of a run that is not the active one are   *)
(* offered too (a callback that arrives late).  A definition named         *)
(* Faulty... is a plausible bug, never used (see RunReducer).              *)
(***************************************************************************)
EXTENDS RunFacts

CONSTANTS
  Runs,       \* run identities
  NoRun,      \* activeRunId null
  Outcomes    \* the [status, reason, origin] a terminal event may carry

ASSUME RunAssumption == NoRun \notin Runs

ASSUME OutcomesAssumption ==
  Outcomes \subseteq [status : TerminalStatus \cup TerminalCall, reason : Reasons,
                      origin : {"runner", "system", "recovery"}]

VARIABLES
  created,      \* session.created is recorded
  activity,     \* "idle" or the active run's status
  activeRunId,
  runs,         \* one record per run; an unused identity is AbsentRun
  resolved      \* resolvedWorkspaceBlockers, as <<run, blocker>>

vars == <<created, activity, activeRunId, runs, resolved>>

RequestOutcomes == {o \in Outcomes : o.status \in {"succeeded", "failed", "cancelled", "interrupted"}}
ToolOutcomes    == {o \in Outcomes : o.status \in TerminalCall}
StepOutcomes    == {o \in Outcomes : o.status \in TerminalStatus}

TypeOK ==
  /\ created \in BOOLEAN
  /\ activity \in {"idle"} \cup LiveStatus
  /\ activeRunId \in Runs \cup {NoRun}
  /\ runs \in [Runs -> RunType]
  /\ resolved \subseteq Runs \X (Calls \cup {CleanupBlocker})

Init ==
  /\ created = FALSE
  /\ activity = "idle"
  /\ activeRunId = NoRun
  /\ runs = [r \in Runs |-> AbsentRun]
  /\ resolved = {}

-----------------------------------------------------------------------------
\* replaceRun at session level.
Replace(r, run) ==
  /\ runs' = [runs EXCEPT ![r] = run]
  /\ activity' = run.status
  /\ activeRunId' = r
  /\ UNCHANGED <<created, resolved>>

\* The guard in front of every event that belongs to a run.
Active(r) == created /\ activeRunId = r

CreateSession ==
  /\ ~created
  /\ created' = TRUE
  /\ UNCHANGED <<activity, activeRunId, runs, resolved>>

RunStarted(r, command) ==
  /\ created
  /\ activeRunId = NoRun
  /\ runs[r].status = "absent"
  /\ \A other \in Runs : runs[other].command # command
  /\ Replace(r, StartedRun(command))

UserMessage(r, command) ==
  /\ Active(r)
  /\ CanAdmitMessage(runs[r], command)
  /\ Replace(r, AdmitMessage(runs[r]))

RunCancelRequested(r) ==
  /\ Active(r)
  /\ CanRequestCancel(runs[r])
  /\ Replace(r, RequestCancel(runs[r]))

StepStarted(r, k) ==
  /\ Active(r)
  /\ CanStartStep(runs[r], k)
  /\ Replace(r, StartStep(runs[r], k))

ModelRequestStarted(r, k, a) ==
  /\ Active(r)
  /\ CanStartRequest(runs[r], k, a)
  /\ Replace(r, StartRequest(runs[r], k, a))

ModelResponseDelta(r, q) ==
  /\ Active(r)
  /\ CanRecordDelta(runs[r], q)
  /\ Replace(r, RecordDelta(runs[r], q))

ModelRequestFinished(r, q, o, calls) ==
  /\ Active(r)
  /\ CanFinishRequest(runs[r], q, o, calls)
  /\ Replace(r, FinishRequest(runs[r], q, o, calls))

CompactionStarted(r, trigger) ==
  /\ Active(r)
  /\ CanStartCompaction(runs[r], trigger)
  /\ Replace(r, StartCompaction(runs[r], trigger))

CompactionSucceeded(r) ==
  /\ Active(r)
  /\ CanSettleCompaction(runs[r])
  /\ Replace(r, SucceedCompaction(runs[r]))

CompactionFailed(r) ==
  /\ Active(r)
  /\ CanSettleCompaction(runs[r])
  /\ Replace(r, FailCompaction(runs[r]))

ToolCallCreated(r, t, gated, mode) ==
  /\ Active(r)
  /\ CanCreateCall(runs[r], t)
  /\ Replace(r, CreateCall(runs[r], t, gated, mode))

ApprovalRequested(r, t) ==
  /\ Active(r)
  /\ CanRequestApproval(runs[r], t)
  /\ Replace(r, RequestApproval(runs[r], t))

ApprovalResolved(r, t, decision, origin) ==
  /\ Active(r)
  /\ CanResolveApproval(runs[r], t, decision, origin)
  /\ Replace(r, ResolveApproval(runs[r], t, decision))

ToolStarted(r, t) ==
  /\ Active(r)
  /\ CanStartTool(runs[r], t)
  /\ Replace(r, StartTool(runs[r], t))

ToolFinished(r, t, o) ==
  /\ Active(r)
  /\ CanFinishTool(runs[r], t, o)
  /\ Replace(r, FinishTool(runs[r], t, o))

StepFinished(r, k, o) ==
  /\ Active(r)
  /\ CanFinishStep(runs[r], k, o)
  /\ Replace(r, FinishStep(runs[r], k, o))

FaultyRunFinished(r, o) ==
  /\ Active(r)
  /\ CanFinishRun(runs[r], o)
  /\ Replace(r, FinishRun(runs[r], o))

RunFinished(r, o) ==
  /\ Active(r)
  /\ CanFinishRun(runs[r], o)
  /\ runs' = [runs EXCEPT ![r] = FinishRun(runs[r], o)]
  /\ activity' = "idle"
  /\ activeRunId' = NoRun
  /\ UNCHANGED <<created, resolved>>

FaultyBlockerResolved(r, blocker) ==
  /\ created
  /\ activeRunId = NoRun /\ activity = "idle"
  /\ runs[r].status \in TerminalStatus
  /\ <<r, blocker>> \notin resolved
  /\ resolved' = resolved \cup {<<r, blocker>>}
  /\ UNCHANGED <<created, activity, activeRunId, runs>>

\* An operator attests one blocker of a terminal run, once.
BlockerResolved(r, blocker) ==
  /\ created
  /\ activeRunId = NoRun /\ activity = "idle"
  /\ runs[r].status \in TerminalStatus
  /\ blocker \in RunBlockers(runs[r])
  /\ <<r, blocker>> \notin resolved
  /\ resolved' = resolved \cup {<<r, blocker>>}
  /\ UNCHANGED <<created, activity, activeRunId, runs>>

-----------------------------------------------------------------------------
Next ==
  \/ CreateSession
  \/ \E r \in Runs :
       \/ \E c \in Commands : RunStarted(r, c) \/ UserMessage(r, c)
       \/ RunCancelRequested(r)
       \/ \E k \in Steps : StepStarted(r, k)
       \/ \E k \in Steps, a \in Attempts : ModelRequestStarted(r, k, a)
       \/ \E q \in Requests : ModelResponseDelta(r, q)
       \/ \E q \in Requests, o \in RequestOutcomes, n \in 0..MaxCall : ModelRequestFinished(r, q, o, n)
       \/ \E trigger \in Triggers : CompactionStarted(r, trigger)
       \/ CompactionSucceeded(r)
       \/ CompactionFailed(r)
       \/ \E t \in Calls, gated \in BOOLEAN, mode \in {"parallel", "exclusive"} :
            ToolCallCreated(r, t, gated, mode)
       \/ \E t \in Calls : ApprovalRequested(r, t)
       \/ \E t \in Calls, d \in {"allowed", "denied", "expired", "cancelled"}, origin \in {"user", "system", "recovery"} :
            ApprovalResolved(r, t, d, origin)
       \/ \E t \in Calls : ToolStarted(r, t)
       \/ \E t \in Calls, o \in ToolOutcomes : ToolFinished(r, t, o)
       \/ \E k \in Steps, o \in StepOutcomes : StepFinished(r, k, o)
       \/ \E o \in StepOutcomes : RunFinished(r, o)
       \/ \E b \in Calls \cup {CleanupBlocker} : BlockerResolved(r, b)

Spec == Init /\ [][Next]_vars
-----------------------------------------------------------------------------
(***************************************************************************)
(* Invariants                                                              *)
(***************************************************************************)
\* The session's projection agrees with its runs: at most one run is live, and it is the active one.
OneLiveRun ==
  /\ \A r \in Runs : runs[r].status \in LiveStatus <=> activeRunId = r
  /\ activity = IF activeRunId = NoRun THEN "idle" ELSE runs[activeRunId].status

\* One accepted command never starts two runs.
CommandStartsOneRun ==
  \A r, s \in Runs : runs[r].status # "absent" /\ runs[r].command = runs[s].command => r = s

\* No guard is fed by a fact that disagrees with another (RunFacts).
ActiveSets == \A r \in Runs : ActiveSetsAgree(runs[r])

\* At most one kind of operation is open, and at most one approval is pending.
OneOperation == \A r \in Runs : OneKindOpen(runs[r]) /\ OnePending(runs[r])

\* Tool calls settle in declaration order, and exclusive ones run alone.
ToolOrder == \A r \in Runs : SettledInOrder(runs[r]) /\ ExclusiveAlone(runs[r])

\* No gated call was dispatched without its own approval.
Gate == \A r \in Runs : GateHeld(runs[r])

\* A terminal run has no open child.
TerminalClosed == \A r \in Runs : TerminalIsClosed(runs[r])

\* A completed run hides no failure and accounts for every declared call.
CompletedWhole == \A r \in Runs : CompletedIsWhole(runs[r])

\* A cleanup failure is never reported as success or clean cancellation.
CleanupKept == \A r \in Runs : CleanupFailureKept(runs[r])

\* A second request exists only as a context recovery; calls only after a success.
RetryRecovers == \A r \in Runs : RetryIsRecovery(runs[r])

\* Every attested blocker was real and still is: no later event makes the attestation void.
ResolvedAreReal ==
  \A p \in resolved : runs[p[1]].status \in TerminalStatus /\ p[2] \in RunBlockers(runs[p[1]])

(***************************************************************************)
(* Action properties                                                       *)
(***************************************************************************)
\* What r has that it had not before the step.
NewlyDispatched(r) ==
  \/ \E k \in Steps : runs[r].steps[k] = "absent" /\ runs'[r].steps[k] # "absent"
  \/ \E q \in Requests : runs[r].requests[q].status = "absent" /\ runs'[r].requests[q].status # "absent"
  \/ \E t \in Calls : \/ runs[r].tools[t].status = "absent" /\ runs'[r].tools[t].status # "absent"
                      \/ runs[r].approvals[t] = "absent" /\ runs'[r].approvals[t] # "absent"
                      \/ ~runs[r].tools[t].started /\ runs'[r].tools[t].started

\* Once cancellation is recorded, or a failure blocks the run, no step, request, call, approval or tool starts.
NoDispatchOnceStopped ==
  [][\A r \in Runs : runs[r].cancelRequested \/ runs[r].blockedReason # NoReason => ~NewlyDispatched(r)]_vars

\* A settled fact is never rewritten, and a terminal run never reopened.
HistoryFrozen ==
  [][\A r \in Runs :
       /\ runs[r].status \in TerminalStatus => runs'[r] = runs[r]
       /\ \A k \in Steps : runs[r].steps[k] \in TerminalStatus => runs'[r].steps[k] = runs[r].steps[k]
       /\ \A q \in Requests : runs[r].requests[q].status \notin {"absent", "running"} =>
            runs'[r].requests[q] = runs[r].requests[q]
       /\ \A t \in Calls :
            /\ runs[r].tools[t].status \in TerminalCall => runs'[r].tools[t] = runs[r].tools[t]
            /\ runs[r].approvals[t] \notin {"absent", "pending"} => runs'[r].approvals[t] = runs[r].approvals[t]
       /\ runs[r].cancelRequested => runs'[r].cancelRequested]_vars
=============================================================================
