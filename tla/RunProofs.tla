------------------------------- MODULE RunProofs -------------------------------
(***************************************************************************)
(* Proofs about one run record: what every event of the reducer keeps,     *)
(* whoever offers it.  The state machines that replace a run's record by   *)
(* such a record (Session, AgentLoop) cite these lemmas.                   *)
(***************************************************************************)
EXTENDS RunFacts, TLAPS

TerminalRequest == {"succeeded", "failed", "cancelled", "interrupted"}

\* What a terminal event may carry.
IsOutcome(o, statuses) == o.status \in statuses /\ o.reason \in Reasons

\* A request belongs to a step that was opened.
RequestHasStep(run) ==
  \A q \in Requests : run.requests[q].status # "absent" => run.steps[q[1]] # "absent"

\* While a compaction is open, the open step (if any) has no successful response.
CompactionAside(run) ==
  run.activeCompaction /\ run.activeStep # 0 => LastRequest(run, run.activeStep).status # "succeeded"

(***************************************************************************)
(* The strengthening.  OneKindOpen alone is not inductive: tool.started    *)
(* and approval.requested do not look at activeCompactionId, and are safe  *)
(* only because an open call implies a successful last response of the     *)
(* open step (RetryIsRecovery, ActiveSetsAgree) while an open compaction   *)
(* excludes one (CompactionAside).                                         *)
(***************************************************************************)
RunInv(run) ==
  /\ run \in RunType
  /\ ActiveSetsAgree(run)
  /\ OneKindOpen(run)
  /\ OnePending(run)
  /\ GateHeld(run)
  /\ RetryIsRecovery(run)
  /\ RequestHasStep(run)
  /\ CompactionAside(run)

-----------------------------------------------------------------------------
(***************************************************************************)
(* What the events share.                                                  *)
(***************************************************************************)
LEMMA RefreshType ==
  ASSUME NEW run \in RunType
  PROVE  Refresh(run) \in RunType /\ Refresh(run).status \in LiveStatus
<1>1. Activity(run) \in LiveStatus
  BY DEF Activity, LiveStatus, RunType
<1> QED BY <1>1 DEF Refresh, RunType

\* RunInv reads nine fields only.
LEMMA SameFacts ==
  ASSUME NEW run, RunInv(run), NEW next \in RunType,
         next.activeStep = run.activeStep,
         next.activeRequest = run.activeRequest,
         next.activeTools = run.activeTools,
         next.activeCompaction = run.activeCompaction,
         next.compaction = run.compaction,
         next.steps = run.steps,
         next.requests = run.requests,
         next.tools = run.tools,
         next.approvals = run.approvals
  PROVE  RunInv(next)
<1>1. ActiveSetsAgree(next)
  BY DEF RunInv, ActiveSetsAgree
<1>2. OneKindOpen(next) /\ OnePending(next)
  BY DEF RunInv, OneKindOpen, OnePending, PendingApproval
<1>3. GateHeld(next)
  BY DEF RunInv, GateHeld
<1>4. RetryIsRecovery(next)
  BY DEF RunInv, RetryIsRecovery, LastRequest, LastAttempt
<1>5. CompactionAside(next) /\ RequestHasStep(next)
  BY DEF RunInv, CompactionAside, RequestHasStep, LastRequest, LastAttempt
<1> QED BY <1>1, <1>2, <1>3, <1>4, <1>5 DEF RunInv

LEMMA RefreshInv ==
  ASSUME NEW run, RunInv(run)
  PROVE  RunInv(Refresh(run)) /\ Refresh(run).status \in LiveStatus
<1> DEFINE next == Refresh(run)
<1>1. run \in RunType /\ next \in RunType /\ next.status \in LiveStatus
  BY RefreshType DEF RunInv
<1>2. /\ next.activeStep = run.activeStep
      /\ next.activeRequest = run.activeRequest
      /\ next.activeTools = run.activeTools
      /\ next.activeCompaction = run.activeCompaction
      /\ next.compaction = run.compaction
      /\ next.steps = run.steps
      /\ next.requests = run.requests
      /\ next.tools = run.tools
      /\ next.approvals = run.approvals
  BY <1>1 DEF Refresh, RunType
<1> HIDE DEF next
<1>3. RunInv(next)
  BY <1>1, <1>2, SameFacts
<1> QED BY <1>1, <1>3 DEF next

\* A running request is the last of its step, which has no call yet.
LEMMA RunningRequest ==
  ASSUME NEW run, RunInv(run), NEW q \in Requests, run.requests[q].status = "running"
  PROVE  /\ q[2] = 1 => run.requests[<<q[1], 2>>].status = "absent"
         /\ \A i \in Slots : run.tools[<<q[1], i>>].status = "absent"
<1>1. q[1] \in Steps /\ q[2] \in {1, 2} /\ q = <<q[1], q[2]>>
  BY DEF Requests, Attempts
<1>2. LastRequest(run, q[1]).status = "running"
  BY <1>1 DEF RunInv, RetryIsRecovery, LastRequest, LastAttempt
<1> QED BY <1>1, <1>2 DEF RunInv, RetryIsRecovery

\* An open call excludes an open request and an open compaction.
LEMMA OpenCallAlone ==
  ASSUME NEW run, RunInv(run), NEW t \in Calls, IsOpen(run.tools[t])
  PROVE  /\ run.activeStep = t[1]
         /\ run.activeRequest = NoRequest
         /\ ~run.activeCompaction
<1>1. run.activeStep = t[1] /\ t[1] \in Steps /\ t[2] \in Slots /\ t = <<t[1], t[2]>>
  BY DEF RunInv, ActiveSetsAgree, Calls
<1>2. run.tools[t].status # "absent"
  BY DEF IsOpen, OpenCall
<1>3. LastRequest(run, t[1]).status = "succeeded"
  BY <1>1, <1>2 DEF RunInv, RetryIsRecovery
<1>4. run.activeStep # 0
  BY <1>1, BoundsAssumption DEF Steps
<1>5. ~run.activeCompaction
  BY <1>1, <1>3, <1>4 DEF RunInv, CompactionAside
<1>6. ASSUME run.activeRequest # NoRequest PROVE FALSE
  <2>1. run.activeRequest \in Requests
    BY <1>6 DEF RunInv, RunType
  <2>2. run.requests[run.activeRequest].status = "running" /\ run.activeRequest[1] = t[1]
    BY <1>1, <1>6, <2>1 DEF RunInv, ActiveSetsAgree
  <2>3. run.tools[<<t[1], t[2]>>].status = "absent"
    BY <1>1, <2>1, <2>2, RunningRequest
  <2> QED BY <1>1, <1>2, <2>3
<1> QED BY <1>1, <1>5, <1>6

\* RetryIsRecovery and RequestHasStep of a step none of whose requests and calls changed.
LEMMA SameStep ==
  ASSUME NEW run, RetryIsRecovery(run), NEW next, NEW j \in Steps,
         next.requests[<<j, 1>>] = run.requests[<<j, 1>>],
         next.requests[<<j, 2>>] = run.requests[<<j, 2>>],
         \A i \in Slots : next.tools[<<j, i>>].status = run.tools[<<j, i>>].status
  PROVE  /\ next.requests[<<j, 2>>].status # "absent" =>
              next.requests[<<j, 1>>].status = "failed" /\ next.requests[<<j, 1>>].reason = "context_limit"
         /\ \A i \in Slots : next.tools[<<j, i>>].status # "absent" =>
              LastRequest(next, j).status = "succeeded" /\ i <= LastRequest(next, j).calls
BY DEF RetryIsRecovery, LastRequest, LastAttempt

-----------------------------------------------------------------------------
(***************************************************************************)
(* One lemma per event.                                                    *)
(***************************************************************************)
LEMMA AbsentInv ==
  RunInv(AbsentRun)
<1>1. AbsentRun \in RunType
  BY BoundsAssumption DEF AbsentRun, RunType, RequestType, CallType, CompactionType, Triggers, Requests, Calls,
     Steps, NoRequest, NoReason, NoCommand
<1>2. ActiveSetsAgree(AbsentRun)
  BY BoundsAssumption DEF AbsentRun, ActiveSetsAgree, IsOpen, OpenCall, Requests, Steps, NoRequest
<1>3. OneKindOpen(AbsentRun) /\ OnePending(AbsentRun) /\ GateHeld(AbsentRun)
  BY DEF AbsentRun, OneKindOpen, OnePending, GateHeld
<1>4. RetryIsRecovery(AbsentRun)
  BY DEF AbsentRun, RetryIsRecovery, Requests, Attempts, Calls
<1>5. RequestHasStep(AbsentRun) /\ CompactionAside(AbsentRun)
  BY DEF AbsentRun, RequestHasStep, CompactionAside
<1> QED BY <1>1, <1>2, <1>3, <1>4, <1>5 DEF RunInv

LEMMA StartedRunInv ==
  ASSUME NEW command \in Commands
  PROVE  RunInv(StartedRun(command)) /\ StartedRun(command).status \in LiveStatus
<1> DEFINE next == StartedRun(command)
<1>1. AbsentRun \in RunType
  BY AbsentInv DEF RunInv
<1>2. next \in RunType /\ next.status \in LiveStatus
  BY <1>1 DEF StartedRun, RunType, LiveStatus
<1>3. /\ next.activeStep = AbsentRun.activeStep
      /\ next.activeRequest = AbsentRun.activeRequest
      /\ next.activeTools = AbsentRun.activeTools
      /\ next.activeCompaction = AbsentRun.activeCompaction
      /\ next.compaction = AbsentRun.compaction
      /\ next.steps = AbsentRun.steps
      /\ next.requests = AbsentRun.requests
      /\ next.tools = AbsentRun.tools
      /\ next.approvals = AbsentRun.approvals
  BY <1>1 DEF StartedRun, RunType
<1> HIDE DEF next
<1>4. RunInv(next)
  BY <1>2, <1>3, AbsentInv, SameFacts
<1> QED BY <1>2, <1>4 DEF next

LEMMA AdmitMessageInv ==
  ASSUME NEW run, RunInv(run)
  PROVE  RunInv(AdmitMessage(run)) /\ AdmitMessage(run).status \in LiveStatus
<1> DEFINE next == [run EXCEPT !.userMessage = TRUE]
<1>1. next \in RunType /\ next.activeStep = run.activeStep /\ next.activeRequest = run.activeRequest
      /\ next.activeTools = run.activeTools /\ next.activeCompaction = run.activeCompaction
      /\ next.compaction = run.compaction /\ next.steps = run.steps /\ next.requests = run.requests
      /\ next.tools = run.tools /\ next.approvals = run.approvals
  BY DEF RunInv, RunType
<1> HIDE DEF next
<1>2. RunInv(next)
  BY <1>1, SameFacts
<1> QED BY <1>2, RefreshInv DEF AdmitMessage, next

LEMMA RequestCancelInv ==
  ASSUME NEW run, RunInv(run)
  PROVE  RunInv(RequestCancel(run)) /\ RequestCancel(run).status \in LiveStatus
<1> DEFINE next == [run EXCEPT !.cancelRequested = TRUE]
<1>1. next \in RunType /\ next.activeStep = run.activeStep /\ next.activeRequest = run.activeRequest
      /\ next.activeTools = run.activeTools /\ next.activeCompaction = run.activeCompaction
      /\ next.compaction = run.compaction /\ next.steps = run.steps /\ next.requests = run.requests
      /\ next.tools = run.tools /\ next.approvals = run.approvals
  BY DEF RunInv, RunType
<1> HIDE DEF next
<1>2. RunInv(next)
  BY <1>1, SameFacts
<1> QED BY <1>2, RefreshInv DEF RequestCancel, next

LEMMA StartStepInv ==
  ASSUME NEW run, RunInv(run), NEW k \in Steps, CanStartStep(run, k)
  PROVE  RunInv(StartStep(run, k)) /\ StartStep(run, k).status \in LiveStatus
<1> DEFINE next == [run EXCEPT !.activeStep = k, !.steps[k] = "running"]
<1>1. next \in RunType
  <2>1. k \in 0..MaxStep
    BY BoundsAssumption DEF Steps
  <2> QED BY <2>1 DEF RunInv, RunType
<1>2. /\ next.activeStep = k
      /\ next.activeRequest = run.activeRequest
      /\ next.activeTools = run.activeTools
      /\ next.activeCompaction = run.activeCompaction
      /\ next.compaction = run.compaction
      /\ next.steps = [run.steps EXCEPT ![k] = "running"]
      /\ next.requests = run.requests
      /\ next.tools = run.tools
      /\ next.approvals = run.approvals
  BY DEF RunInv, RunType
<1> HIDE DEF next
<1>3. \A t \in Calls : ~IsOpen(run.tools[t])
  BY BoundsAssumption DEF RunInv, ActiveSetsAgree, CanStartStep, Calls, Steps
<1>4. run.activeRequest = NoRequest
  BY BoundsAssumption DEF RunInv, ActiveSetsAgree, CanStartStep, RunType, Requests, Steps
<1>5. ActiveSetsAgree(next)
  <2>1. \A j \in Steps : run.steps[j] # "running"
    BY BoundsAssumption DEF RunInv, ActiveSetsAgree, CanStartStep, Steps
  <2> QED BY <1>2, <1>3, <1>4, <2>1 DEF RunInv, ActiveSetsAgree, RunType
<1>6. OneKindOpen(next) /\ OnePending(next) /\ GateHeld(next)
  BY <1>2 DEF RunInv, OneKindOpen, OnePending, GateHeld, PendingApproval
<1>7. RetryIsRecovery(next)
  BY <1>2 DEF RunInv, RetryIsRecovery, LastRequest, LastAttempt
<1>8. RequestHasStep(next)
  BY <1>2 DEF RunInv, RequestHasStep, RunType, Requests
<1>9. CompactionAside(next)
  <2>1. \A q \in Requests : q[1] = k => run.requests[q].status = "absent"
    BY DEF RunInv, RequestHasStep, CanStartStep
  <2>2. LastRequest(run, k).status = "absent"
    BY <2>1 DEF LastRequest, LastAttempt, Requests, Attempts
  <2> QED BY <1>2, <2>2 DEF CompactionAside, LastRequest, LastAttempt
<1> QED BY <1>1, <1>5, <1>6, <1>7, <1>8, <1>9, RefreshInv DEF RunInv, StartStep, next

LEMMA StartRequestInv ==
  ASSUME NEW run, RunInv(run), NEW k \in Steps, NEW a \in Attempts, CanStartRequest(run, k, a)
  PROVE  RunInv(StartRequest(run, k, a)) /\ StartRequest(run, k, a).status \in LiveStatus
<1> DEFINE q == <<k, a>>
           new == [status |-> "running", reason |-> NoReason, calls |-> 0, deltas |-> 0]
           next == [run EXCEPT !.activeRequest = q, !.requests[q] = new]
<1>1. run \in RunType /\ q \in Requests /\ new \in RequestType
  BY BoundsAssumption DEF RequestType, Requests, RunInv
<1>2. next \in RunType
  <2> HIDE DEF q, new
  <2> QED BY <1>1 DEF RunType
<1>3. /\ next.activeStep = run.activeStep
      /\ next.activeRequest = q
      /\ next.activeTools = run.activeTools
      /\ next.activeCompaction = run.activeCompaction
      /\ next.compaction = run.compaction
      /\ next.steps = run.steps
      /\ next.requests = [run.requests EXCEPT ![q] = new]
      /\ next.tools = run.tools
      /\ next.approvals = run.approvals
  <2> HIDE DEF q, new
  <2> QED BY <1>1 DEF RunType
<1> HIDE DEF next
<1>4. ActiveSetsAgree(next)
  BY <1>1, <1>3 DEF RunInv, ActiveSetsAgree, CanStartRequest, RunType, Requests, NoRequest, Steps
<1>5. OneKindOpen(next) /\ OnePending(next) /\ GateHeld(next)
  BY <1>3 DEF RunInv, OneKindOpen, OnePending, GateHeld, PendingApproval, CanStartRequest
<1>6. RetryIsRecovery(next)
  <2>1. run.requests[<<k, 2>>].status = "absent" /\ run.requests[<<k, 1>>].status # "succeeded"
    BY DEF CanStartRequest, ValidAttempt
  <2>2. \A i \in Slots : run.tools[<<k, i>>].status = "absent"
    BY <2>1 DEF RunInv, RetryIsRecovery, LastRequest, LastAttempt
  <2>3. a = 2 => run.requests[<<k, 1>>].status = "failed" /\ run.requests[<<k, 1>>].reason = "context_limit"
    BY DEF CanStartRequest, ValidAttempt
  <2>4. \A p \in Requests : p # q => next.requests[p] = run.requests[p]
    BY <1>1, <1>3 DEF RunType
  <2>5. ASSUME NEW j \in Steps
        PROVE  /\ next.requests[<<j, 2>>].status # "absent" =>
                    next.requests[<<j, 1>>].status = "failed" /\ next.requests[<<j, 1>>].reason = "context_limit"
               /\ \A i \in Slots : next.tools[<<j, i>>].status # "absent" =>
                    LastRequest(next, j).status = "succeeded" /\ i <= LastRequest(next, j).calls
    <3>1. <<j, 1>> \in Requests /\ <<j, 2>> \in Requests
      BY DEF Requests, Attempts
    <3>2. CASE j # k
      <4>1. next.requests[<<j, 1>>] = run.requests[<<j, 1>>] /\ next.requests[<<j, 2>>] = run.requests[<<j, 2>>]
        BY <3>1, <3>2, <2>4
      <4> QED BY <4>1, <1>3 DEF RunInv, RetryIsRecovery, LastRequest, LastAttempt
    <3>3. CASE j = k
      <4>1. a = 1 => next.requests[<<j, 2>>].status = "absent"
        BY <3>1, <3>3, <2>1, <2>4
      <4>2. a = 2 => next.requests[<<j, 1>>] = run.requests[<<j, 1>>]
        BY <3>1, <3>3, <2>4
      <4> QED BY <4>1, <4>2, <3>3, <2>2, <2>3, <1>3 DEF Attempts
    <3> QED BY <3>2, <3>3
  <2> QED BY <2>5 DEF RetryIsRecovery
<1>7. CompactionAside(next) /\ RequestHasStep(next)
  BY <1>1, <1>3 DEF RunInv, CompactionAside, RequestHasStep, CanStartRequest, RunType, Requests
<1> QED BY <1>2, <1>4, <1>5, <1>6, <1>7, RefreshInv DEF RunInv, StartRequest, next
LEMMA RecordDeltaInv ==
  ASSUME NEW run, RunInv(run), NEW q \in Requests, CanRecordDelta(run, q)
  PROVE  RunInv(RecordDelta(run, q)) /\ RecordDelta(run, q).status \in LiveStatus
<1> DEFINE new == [run.requests[q] EXCEPT !.deltas = run.requests[q].deltas + 1]
           next == [run EXCEPT !.requests[q] = new]
<1>1. run \in RunType /\ run.requests[q] \in RequestType
  BY DEF RunInv, RunType
<1>2. new \in RequestType /\ new.status = run.requests[q].status
      /\ new.reason = run.requests[q].reason /\ new.calls = run.requests[q].calls
  BY <1>1, BoundsAssumption DEF RequestType, CanRecordDelta
<1>3. /\ next \in RunType
      /\ next.activeStep = run.activeStep
      /\ next.activeRequest = run.activeRequest
      /\ next.activeTools = run.activeTools
      /\ next.activeCompaction = run.activeCompaction
      /\ next.compaction = run.compaction
      /\ next.steps = run.steps
      /\ next.requests = [run.requests EXCEPT ![q] = new]
      /\ next.tools = run.tools
      /\ next.approvals = run.approvals
  <2> HIDE DEF new
  <2> QED BY <1>1, <1>2 DEF RunType
<1>4. \A p \in Requests : /\ next.requests[p].status = run.requests[p].status
                          /\ next.requests[p].reason = run.requests[p].reason
                          /\ next.requests[p].calls = run.requests[p].calls
  <2> HIDE DEF new, next
  <2> QED BY <1>1, <1>2, <1>3 DEF RunType
<1> HIDE DEF next, new
<1>5. ActiveSetsAgree(next)
  BY <1>3, <1>4 DEF RunInv, ActiveSetsAgree
<1>6. OneKindOpen(next) /\ OnePending(next) /\ GateHeld(next)
  BY <1>3 DEF RunInv, OneKindOpen, OnePending, GateHeld, PendingApproval
<1>7. \A k \in Steps : LastRequest(next, k).status = LastRequest(run, k).status
                       /\ LastRequest(next, k).calls = LastRequest(run, k).calls
  BY <1>4 DEF LastRequest, LastAttempt, Requests, Attempts
<1>8. RetryIsRecovery(next)
  <2>1. \A k \in Steps : <<k, 1>> \in Requests /\ <<k, 2>> \in Requests
    BY DEF Requests, Attempts
  <2> QED BY <1>3, <1>4, <1>7, <2>1 DEF RunInv, RetryIsRecovery
<1>9. RequestHasStep(next)
  BY <1>3, <1>4 DEF RunInv, RequestHasStep
<1>10. CompactionAside(next)
  <2>1. run.activeStep # 0 => run.activeStep \in Steps
    BY <1>1, BoundsAssumption DEF RunType, Steps
  <2> QED BY <1>3, <1>7, <2>1 DEF RunInv, CompactionAside
<1>11. RunInv(next)
  BY <1>3, <1>5, <1>6, <1>8, <1>9, <1>10 DEF RunInv
<1>12. RecordDelta(run, q) = Refresh(next)
  BY DEF RecordDelta, next, new
<1> QED BY <1>11, <1>12, RefreshInv

LEMMA FinishRequestInv ==
  ASSUME NEW run, RunInv(run), NEW q \in Requests, NEW o, IsOutcome(o, TerminalRequest), NEW calls \in 0..MaxCall,
         CanFinishRequest(run, q, o, calls)
  PROVE  RunInv(FinishRequest(run, q, o, calls)) /\ FinishRequest(run, q, o, calls).status \in LiveStatus
<1> DEFINE new == [run.requests[q] EXCEPT !.status = o.status, !.reason = o.reason, !.calls = calls]
           blocked == IF o.status = "succeeded" \/ (o.reason = "context_limit" /\ q[2] = 1)
                      THEN run.blockedReason ELSE BlockedOr(run, o.reason)
           next == [run EXCEPT !.activeRequest = NoRequest, !.blockedReason = blocked, !.requests[q] = new]
<1>1. run \in RunType /\ run.requests[q] \in RequestType
  BY DEF RunInv, RunType
<1>2. /\ o.status \in {"succeeded", "failed", "cancelled", "interrupted"}
      /\ o.reason \in Reasons
  BY DEF IsOutcome, TerminalRequest
<1>3. new \in RequestType /\ new.status \notin {"absent", "running"}
  BY <1>1, <1>2 DEF RequestType
<1>4. blocked \in Reasons \cup {NoReason}
  BY <1>1, <1>2 DEF RunType, BlockedOr
<1>5. /\ next \in RunType
      /\ next.activeStep = run.activeStep
      /\ next.activeRequest = NoRequest
      /\ next.activeTools = run.activeTools
      /\ next.activeCompaction = run.activeCompaction
      /\ next.compaction = run.compaction
      /\ next.steps = run.steps
      /\ next.requests = [run.requests EXCEPT ![q] = new]
      /\ next.tools = run.tools
      /\ next.approvals = run.approvals
  <2> HIDE DEF new, blocked
  <2> QED BY <1>1, <1>3, <1>4 DEF RunType
<1> HIDE DEF next, new, blocked
<1>6. run.activeRequest = q /\ q # NoRequest /\ q[1] \in Steps /\ q[2] \in {1, 2} /\ q = <<q[1], q[2]>>
      /\ run.requests[q].status = "running"
  BY BoundsAssumption DEF CanFinishRequest, Requests, NoRequest, Steps, Attempts
<1>7. \A p \in Requests : p # q => next.requests[p] = run.requests[p]
  BY <1>1, <1>5 DEF RunType
<1>8. next.requests[q] = new
  BY <1>1, <1>5 DEF RunType
<1>9. \A p \in Requests : next.requests[p].status # "running"
  BY <1>3, <1>6, <1>7, <1>8 DEF RunInv, ActiveSetsAgree
<1>10. ActiveSetsAgree(next)
  <2>1. NoRequest \notin Requests
    BY BoundsAssumption DEF Requests, NoRequest, Steps
  <2> QED BY <1>5, <1>9, <2>1 DEF RunInv, ActiveSetsAgree
<1>11. OneKindOpen(next) /\ OnePending(next) /\ GateHeld(next)
  BY <1>5 DEF RunInv, OneKindOpen, OnePending, GateHeld, PendingApproval
<1>12. RetryIsRecovery(next)
  <2>1. /\ q[2] = 1 => run.requests[<<q[1], 2>>].status = "absent"
        /\ \A i \in Slots : run.tools[<<q[1], i>>].status = "absent"
    BY <1>6, RunningRequest
  <2>2. q[2] = 2 => run.requests[<<q[1], 1>>].status = "failed" /\ run.requests[<<q[1], 1>>].reason = "context_limit"
    BY <1>6 DEF RunInv, RetryIsRecovery
  <2>3. ASSUME NEW j \in Steps
        PROVE  /\ next.requests[<<j, 2>>].status # "absent" =>
                    next.requests[<<j, 1>>].status = "failed" /\ next.requests[<<j, 1>>].reason = "context_limit"
               /\ \A i \in Slots : next.tools[<<j, i>>].status # "absent" =>
                    LastRequest(next, j).status = "succeeded" /\ i <= LastRequest(next, j).calls
    <3>1. <<j, 1>> \in Requests /\ <<j, 2>> \in Requests
      BY DEF Requests, Attempts
    <3>2. CASE j # q[1]
      <4>1. next.requests[<<j, 1>>] = run.requests[<<j, 1>>] /\ next.requests[<<j, 2>>] = run.requests[<<j, 2>>]
        BY <3>1, <3>2, <1>6, <1>7
      <4> QED BY <4>1, <1>5, SameStep DEF RunInv
    <3>3. CASE j = q[1]
      <4>1. q[2] = 1 => next.requests[<<j, 2>>] = run.requests[<<j, 2>>]
        BY <3>1, <3>3, <1>6, <1>7
      <4>2. q[2] = 2 => next.requests[<<j, 1>>] = run.requests[<<j, 1>>]
        BY <3>1, <3>3, <1>6, <1>7
      <4> QED BY <4>1, <4>2, <3>3, <2>1, <2>2, <1>5, <1>6
    <3> QED BY <3>2, <3>3
  <2> QED BY <2>3 DEF RetryIsRecovery
<1>13. RequestHasStep(next)
  <2>1. run.steps[q[1]] # "absent"
    BY <1>6 DEF RunInv, RequestHasStep
  <2> QED BY <1>5, <1>7, <2>1 DEF RunInv, RequestHasStep
<1>14. CompactionAside(next)
  BY <1>5, <1>6 DEF RunInv, OneKindOpen, CompactionAside
<1> QED BY <1>5, <1>10, <1>11, <1>12, <1>13, <1>14, RefreshInv DEF RunInv, FinishRequest, next, new, blocked

LEMMA StartCompactionInv ==
  ASSUME NEW run, RunInv(run), NEW trigger \in Triggers, CanStartCompaction(run, trigger)
  PROVE  RunInv(StartCompaction(run, trigger)) /\ StartCompaction(run, trigger).status \in LiveStatus
<1> DEFINE new == [status |-> "running", trigger |-> trigger, step |-> run.activeStep]
           next == [run EXCEPT !.activeCompaction = TRUE, !.compaction = new]
<1>1. run \in RunType /\ new \in CompactionType
  BY DEF RunInv, RunType, CompactionType
<1>2. /\ next \in RunType
      /\ next.activeStep = run.activeStep
      /\ next.activeRequest = run.activeRequest
      /\ next.activeTools = run.activeTools
      /\ next.activeCompaction = TRUE
      /\ next.compaction = new
      /\ next.steps = run.steps
      /\ next.requests = run.requests
      /\ next.tools = run.tools
      /\ next.approvals = run.approvals
  <2> HIDE DEF new
  <2> QED BY <1>1 DEF RunType
<1>3. new.status = "running"
  OBVIOUS
<1> HIDE DEF next, new
<1>4. ActiveSetsAgree(next)
  BY <1>2, <1>3 DEF RunInv, ActiveSetsAgree
<1>5. OneKindOpen(next) /\ OnePending(next) /\ GateHeld(next)
  BY <1>2 DEF RunInv, OneKindOpen, OnePending, GateHeld, PendingApproval, CanStartCompaction
<1>6. RetryIsRecovery(next) /\ RequestHasStep(next)
  BY <1>2 DEF RunInv, RetryIsRecovery, RequestHasStep, LastRequest, LastAttempt
<1>7. CompactionAside(next)
  <2>1. run.activeStep # 0 => LastRequest(run, run.activeStep).status = "failed"
    BY DEF CanStartCompaction
  <2> QED BY <1>2, <2>1 DEF CompactionAside, LastRequest, LastAttempt
<1> QED BY <1>2, <1>4, <1>5, <1>6, <1>7, RefreshInv DEF RunInv, StartCompaction, next, new

\* Both settlements close the compaction; `blocked` is what they leave in blockedReason.
LEMMA SettleCompactionInv ==
  ASSUME NEW run, RunInv(run), NEW status \in {"succeeded", "failed"}, NEW blocked \in Reasons \cup {NoReason}
  PROVE  RunInv([run EXCEPT !.activeCompaction = FALSE, !.blockedReason = blocked,
                            !.compaction = [@ EXCEPT !.status = status]])
<1> DEFINE new == [run.compaction EXCEPT !.status = status]
           next == [run EXCEPT !.activeCompaction = FALSE, !.blockedReason = blocked, !.compaction = new]
<1>1. run \in RunType /\ new \in CompactionType /\ new.status = status
  BY DEF RunInv, RunType, CompactionType
<1>2. /\ next \in RunType
      /\ next.activeStep = run.activeStep
      /\ next.activeRequest = run.activeRequest
      /\ next.activeTools = run.activeTools
      /\ next.activeCompaction = FALSE
      /\ next.compaction = new
      /\ next.steps = run.steps
      /\ next.requests = run.requests
      /\ next.tools = run.tools
      /\ next.approvals = run.approvals
  <2> HIDE DEF new
  <2> QED BY <1>1 DEF RunType
<1> HIDE DEF next, new
<1>4. ActiveSetsAgree(next)
  BY <1>1, <1>2 DEF RunInv, ActiveSetsAgree
<1>5. OneKindOpen(next) /\ OnePending(next) /\ GateHeld(next)
  BY <1>2 DEF RunInv, OneKindOpen, OnePending, GateHeld, PendingApproval
<1>6. RetryIsRecovery(next) /\ RequestHasStep(next) /\ CompactionAside(next)
  BY <1>2 DEF RunInv, RetryIsRecovery, RequestHasStep, CompactionAside, LastRequest, LastAttempt
<1> QED BY <1>2, <1>4, <1>5, <1>6 DEF RunInv, next, new

LEMMA SucceedCompactionInv ==
  ASSUME NEW run, RunInv(run)
  PROVE  RunInv(SucceedCompaction(run)) /\ SucceedCompaction(run).status \in LiveStatus
<1>1. run \in RunType /\ run.blockedReason \in Reasons \cup {NoReason}
  BY DEF RunInv, RunType
<1>2. [run EXCEPT !.activeCompaction = FALSE, !.compaction = [@ EXCEPT !.status = "succeeded"]]
        = [run EXCEPT !.activeCompaction = FALSE, !.blockedReason = run.blockedReason,
                      !.compaction = [@ EXCEPT !.status = "succeeded"]]
  BY <1>1 DEF RunType
<1> QED BY <1>1, <1>2, SettleCompactionInv, RefreshInv DEF SucceedCompaction

LEMMA FailCompactionInv ==
  ASSUME NEW run, RunInv(run)
  PROVE  RunInv(FailCompaction(run)) /\ FailCompaction(run).status \in LiveStatus
<1> DEFINE blocked == IF run.compaction.trigger = "context_overflow" THEN "context_limit" ELSE run.blockedReason
<1>1. blocked \in Reasons \cup {NoReason}
  BY ReasonsAssumption DEF RunInv, RunType, Reasons
<1> HIDE DEF blocked
<1>2. RunInv([run EXCEPT !.activeCompaction = FALSE, !.blockedReason = blocked,
                         !.compaction = [@ EXCEPT !.status = "failed"]])
  BY <1>1, SettleCompactionInv
<1> QED BY <1>2, RefreshInv DEF FailCompaction, blocked
(***************************************************************************)
(* The events of a call change its record and perhaps its approval or the  *)
(* active set; requests, steps and compaction stay.                        *)
(***************************************************************************)
LEMMA CreateCallInv ==
  ASSUME NEW run, RunInv(run), NEW t \in Calls, NEW gated \in BOOLEAN, NEW mode \in {"parallel", "exclusive"},
         CanCreateCall(run, t)
  PROVE  RunInv(CreateCall(run, t, gated, mode)) /\ CreateCall(run, t, gated, mode).status \in LiveStatus
<1> DEFINE new == [status |-> "created", reason |-> NoReason, started |-> FALSE, gated |-> gated, mode |-> mode]
           next == [run EXCEPT !.tools[t] = new]
<1>1. run \in RunType /\ new \in CallType /\ new.status = "created" /\ new.started = FALSE
  BY DEF RunInv, CallType, OpenCall
<1>2. /\ next \in RunType
      /\ next.activeStep = run.activeStep
      /\ next.activeRequest = run.activeRequest
      /\ next.activeTools = run.activeTools
      /\ next.activeCompaction = run.activeCompaction
      /\ next.compaction = run.compaction
      /\ next.steps = run.steps
      /\ next.requests = run.requests
      /\ next.tools = [run.tools EXCEPT ![t] = new]
      /\ next.approvals = run.approvals
  <2> HIDE DEF new
  <2> QED BY <1>1 DEF RunType
<1> HIDE DEF next, new
<1>3. next.tools[t] = new /\ \A u \in Calls : u # t => next.tools[u] = run.tools[u]
  BY <1>1, <1>2 DEF RunType
<1>4. run.activeStep = t[1] /\ run.tools[t].status = "absent"
  BY DEF CanCreateCall
<1>5. run.approvals[t] # "pending"
  BY <1>4 DEF RunInv, ActiveSetsAgree
<1>6. t \notin run.activeTools
  BY <1>4 DEF RunInv, ActiveSetsAgree
<1>7. ActiveSetsAgree(next)
  BY <1>1, <1>2, <1>3, <1>4, <1>5, <1>6 DEF RunInv, ActiveSetsAgree
<1>8. OneKindOpen(next) /\ OnePending(next)
  BY <1>2 DEF RunInv, OneKindOpen, OnePending, PendingApproval
<1>9. GateHeld(next)
  BY <1>1, <1>2, <1>3 DEF RunInv, GateHeld
<1>10. RetryIsRecovery(next)
  <2>1. t[1] \in Steps /\ t[2] \in Slots /\ t = <<t[1], t[2]>>
    BY DEF Calls
  <2>2. LastRequest(run, t[1]).status = "succeeded" /\ t[2] <= LastRequest(run, t[1]).calls
    BY DEF CanCreateCall
  <2>3. \A k \in Steps : LastRequest(next, k) = LastRequest(run, k)
    BY <1>2 DEF LastRequest, LastAttempt
  <2>4. \A k \in Steps, i \in Slots : <<k, i>> \in Calls
    BY DEF Calls
  <2>5. \A k \in Steps, i \in Slots : next.tools[<<k, i>>].status # "absent" =>
          LastRequest(next, k).status = "succeeded" /\ i <= LastRequest(next, k).calls
    <3> SUFFICES ASSUME NEW k \in Steps, NEW i \in Slots, next.tools[<<k, i>>].status # "absent"
                 PROVE  LastRequest(next, k).status = "succeeded" /\ i <= LastRequest(next, k).calls
      OBVIOUS
    <3>1. CASE <<k, i>> = t
      BY <3>1, <2>1, <2>2, <2>3
    <3>2. CASE <<k, i>> # t
      <4>1. run.tools[<<k, i>>].status # "absent"
        BY <3>2, <1>3, <2>4
      <4>2. LastRequest(run, k).status = "succeeded" /\ i <= LastRequest(run, k).calls
        BY <4>1 DEF RunInv, RetryIsRecovery
      <4> QED BY <4>2, <2>3
    <3> QED BY <3>1, <3>2
  <2> QED BY <1>2, <2>5 DEF RunInv, RetryIsRecovery
<1>11. RequestHasStep(next) /\ CompactionAside(next)
  BY <1>2 DEF RunInv, RequestHasStep, CompactionAside, LastRequest, LastAttempt
<1> QED BY <1>2, <1>7, <1>8, <1>9, <1>10, <1>11, RefreshInv DEF RunInv, CreateCall, next, new

(***************************************************************************)
(* The record of a call that exists is replaced by `new`, in which the     *)
(* call still exists: what concerns requests and steps does not change.    *)
(***************************************************************************)
LEMMA CallUpdate ==
  ASSUME NEW run, RunInv(run), NEW t \in Calls, NEW next,
         run.tools[t].status # "absent", next.tools[t].status # "absent",
         \A u \in Calls : u # t => next.tools[u] = run.tools[u],
         next.activeStep = run.activeStep,
         next.activeCompaction = run.activeCompaction,
         next.steps = run.steps,
         next.requests = run.requests
  PROVE  RetryIsRecovery(next) /\ RequestHasStep(next) /\ CompactionAside(next)
<1>1. \A k \in Steps, i \in Slots : <<k, i>> \in Calls
  BY DEF Calls
<1>2. \A k \in Steps : LastRequest(next, k) = LastRequest(run, k)
  BY DEF LastRequest, LastAttempt
<1>3. \A k \in Steps, i \in Slots : next.tools[<<k, i>>].status # "absent" => run.tools[<<k, i>>].status # "absent"
  BY <1>1
<1>4. RetryIsRecovery(next)
  BY <1>2, <1>3 DEF RunInv, RetryIsRecovery
<1> QED BY <1>4 DEF RunInv, RequestHasStep, CompactionAside, LastRequest, LastAttempt

LEMMA RequestApprovalInv ==
  ASSUME NEW run, RunInv(run), NEW t \in Calls, CanRequestApproval(run, t)
  PROVE  RunInv(RequestApproval(run, t)) /\ RequestApproval(run, t).status \in LiveStatus
<1> DEFINE new == [run.tools[t] EXCEPT !.status = "waiting_for_approval"]
           next == [run EXCEPT !.approvals[t] = "pending", !.tools[t] = new]
<1>1. run \in RunType /\ run.tools[t] \in CallType
  BY DEF RunInv, RunType
<1>2. new \in CallType /\ new.status = "waiting_for_approval" /\ new.started = run.tools[t].started
      /\ new.gated = run.tools[t].gated
  BY <1>1 DEF CallType, OpenCall
<1>3. /\ next \in RunType
      /\ next.activeStep = run.activeStep
      /\ next.activeRequest = run.activeRequest
      /\ next.activeTools = run.activeTools
      /\ next.activeCompaction = run.activeCompaction
      /\ next.compaction = run.compaction
      /\ next.steps = run.steps
      /\ next.requests = run.requests
      /\ next.tools = [run.tools EXCEPT ![t] = new]
      /\ next.approvals = [run.approvals EXCEPT ![t] = "pending"]
  <2> HIDE DEF new
  <2> QED BY <1>1, <1>2 DEF RunType
<1> HIDE DEF next, new
<1>4. /\ next.tools[t] = new /\ \A u \in Calls : u # t => next.tools[u] = run.tools[u]
      /\ next.approvals[t] = "pending" /\ \A u \in Calls : u # t => next.approvals[u] = run.approvals[u]
  BY <1>1, <1>3 DEF RunType
<1>5. run.tools[t].status = "created" /\ IsOpen(run.tools[t]) /\ IsOpen(new) /\ ~PendingApproval(run)
      /\ run.activeTools = {} /\ run.approvals[t] = "absent"
  BY <1>2 DEF CanRequestApproval, IsOpen, OpenCall
<1>6. run.activeStep = t[1] /\ run.activeRequest = NoRequest /\ ~run.activeCompaction
  BY <1>5, OpenCallAlone
<1>7. ActiveSetsAgree(next)
  BY <1>2, <1>3, <1>4, <1>5, <1>6 DEF RunInv, ActiveSetsAgree
<1>8. OneKindOpen(next) /\ OnePending(next)
  BY <1>3, <1>4, <1>5, <1>6 DEF OneKindOpen, OnePending, PendingApproval
<1>9. GateHeld(next)
  BY <1>2, <1>4, <1>5 DEF RunInv, GateHeld
<1>10. RetryIsRecovery(next) /\ RequestHasStep(next) /\ CompactionAside(next)
  <2>1. run.tools[t].status # "absent" /\ next.tools[t].status # "absent"
    BY <1>2, <1>4, <1>5
  <2> QED BY <2>1, <1>3, <1>4, CallUpdate
<1> QED BY <1>3, <1>7, <1>8, <1>9, <1>10, RefreshInv DEF RunInv, RequestApproval, next, new

LEMMA ResolveApprovalInv ==
  ASSUME NEW run, RunInv(run), NEW t \in Calls, NEW decision \in {"allowed", "denied", "expired", "cancelled"},
         NEW origin, CanResolveApproval(run, t, decision, origin)
  PROVE  RunInv(ResolveApproval(run, t, decision)) /\ ResolveApproval(run, t, decision).status \in LiveStatus
<1> DEFINE new == IF decision = "allowed" THEN [run.tools[t] EXCEPT !.status = "created"] ELSE run.tools[t]
           next == [run EXCEPT !.approvals[t] = decision, !.tools[t] = new]
<1>1. run \in RunType /\ run.tools[t] \in CallType /\ run.approvals[t] = "pending"
  BY DEF RunInv, RunType, CanResolveApproval
<1>2. run.tools[t].status = "waiting_for_approval"
  BY <1>1 DEF RunInv, ActiveSetsAgree
<1>3. new \in CallType /\ new.status \in {"created", "waiting_for_approval"} /\ new.started = run.tools[t].started
      /\ new.gated = run.tools[t].gated
  BY <1>1, <1>2 DEF CallType, OpenCall
<1>4. /\ next \in RunType
      /\ next.activeStep = run.activeStep
      /\ next.activeRequest = run.activeRequest
      /\ next.activeTools = run.activeTools
      /\ next.activeCompaction = run.activeCompaction
      /\ next.compaction = run.compaction
      /\ next.steps = run.steps
      /\ next.requests = run.requests
      /\ next.tools = [run.tools EXCEPT ![t] = new]
      /\ next.approvals = [run.approvals EXCEPT ![t] = decision]
  <2> HIDE DEF new
  <2> QED BY <1>1, <1>3 DEF RunType
<1> HIDE DEF next, new
<1>5. /\ next.tools[t] = new /\ \A u \in Calls : u # t => next.tools[u] = run.tools[u]
      /\ next.approvals[t] = decision /\ \A u \in Calls : u # t => next.approvals[u] = run.approvals[u]
  BY <1>1, <1>4 DEF RunType
<1>6. \A u \in Calls : next.approvals[u] # "pending"
  BY <1>1, <1>5 DEF RunInv, OnePending
<1>7. IsOpen(run.tools[t]) /\ IsOpen(new) /\ t \notin run.activeTools
  BY <1>2, <1>3 DEF RunInv, ActiveSetsAgree, IsOpen, OpenCall
<1>8. ActiveSetsAgree(next)
  BY <1>3, <1>4, <1>5, <1>6, <1>7 DEF RunInv, ActiveSetsAgree
<1>9. OneKindOpen(next) /\ OnePending(next)
  BY <1>4, <1>6 DEF RunInv, OneKindOpen, OnePending, PendingApproval
<1>10. GateHeld(next)
  BY <1>1, <1>3, <1>5 DEF RunInv, GateHeld
<1>11. RetryIsRecovery(next) /\ RequestHasStep(next) /\ CompactionAside(next)
  <2>1. run.tools[t].status # "absent" /\ next.tools[t].status # "absent"
    BY <1>2, <1>3, <1>5
  <2> QED BY <2>1, <1>4, <1>5, CallUpdate
<1> QED BY <1>4, <1>8, <1>9, <1>10, <1>11, RefreshInv DEF RunInv, ResolveApproval, next, new

LEMMA StartToolInv ==
  ASSUME NEW run, RunInv(run), NEW t \in Calls, CanStartTool(run, t)
  PROVE  RunInv(StartTool(run, t)) /\ StartTool(run, t).status \in LiveStatus
<1> DEFINE new == [run.tools[t] EXCEPT !.status = "running", !.started = TRUE]
           next == [run EXCEPT !.activeTools = @ \cup {t}, !.tools[t] = new]
<1>1. run \in RunType /\ run.tools[t] \in CallType
  BY DEF RunInv, RunType
<1>2. new \in CallType /\ new.status = "running" /\ new.gated = run.tools[t].gated
  BY <1>1 DEF CallType, OpenCall
<1>3. /\ next \in RunType
      /\ next.activeStep = run.activeStep
      /\ next.activeRequest = run.activeRequest
      /\ next.activeTools = run.activeTools \cup {t}
      /\ next.activeCompaction = run.activeCompaction
      /\ next.compaction = run.compaction
      /\ next.steps = run.steps
      /\ next.requests = run.requests
      /\ next.tools = [run.tools EXCEPT ![t] = new]
      /\ next.approvals = run.approvals
  <2> HIDE DEF new
  <2> QED BY <1>1, <1>2 DEF RunType
<1> HIDE DEF next, new
<1>4. next.tools[t] = new /\ \A u \in Calls : u # t => next.tools[u] = run.tools[u]
  BY <1>1, <1>3 DEF RunType
<1>5. run.tools[t].status = "created" /\ IsOpen(run.tools[t]) /\ ~PendingApproval(run)
  BY DEF CanStartTool, IsOpen, OpenCall
<1>6. run.activeStep = t[1] /\ run.activeRequest = NoRequest /\ ~run.activeCompaction
  BY <1>5, OpenCallAlone
<1>7. ActiveSetsAgree(next)
  BY <1>2, <1>3, <1>4, <1>5, <1>6 DEF RunInv, ActiveSetsAgree, PendingApproval
<1>8. OneKindOpen(next) /\ OnePending(next)
  BY <1>3, <1>5, <1>6 DEF OneKindOpen, OnePending, PendingApproval
<1>9. GateHeld(next)
  BY <1>2, <1>3, <1>4 DEF RunInv, GateHeld, CanStartTool
<1>10. RetryIsRecovery(next) /\ RequestHasStep(next) /\ CompactionAside(next)
  <2>1. run.tools[t].status # "absent" /\ next.tools[t].status # "absent"
    BY <1>2, <1>4, <1>5
  <2> QED BY <2>1, <1>3, <1>4, CallUpdate
<1> QED BY <1>3, <1>7, <1>8, <1>9, <1>10, RefreshInv DEF RunInv, StartTool, next, new

LEMMA FinishToolInv ==
  ASSUME NEW run, RunInv(run), NEW t \in Calls, NEW o, IsOutcome(o, TerminalCall), CanFinishTool(run, t, o)
  PROVE  RunInv(FinishTool(run, t, o)) /\ FinishTool(run, t, o).status \in LiveStatus
<1> DEFINE new == [run.tools[t] EXCEPT !.status = o.status, !.reason = o.reason]
           blocked == IF o.reason = "cleanup_failed" THEN "cleanup_failed" ELSE run.blockedReason
           next == [run EXCEPT !.activeTools = @ \ {t}, !.blockedReason = blocked, !.tools[t] = new]
<1>1. run \in RunType /\ run.tools[t] \in CallType
  BY DEF RunInv, RunType
<1>2. o.status \in TerminalCall /\ o.reason \in Reasons
  BY DEF IsOutcome
<1>3. new \in CallType /\ new.status \in TerminalCall /\ new.started = run.tools[t].started
      /\ new.gated = run.tools[t].gated
  BY <1>1, <1>2 DEF CallType
<1>4. blocked \in Reasons \cup {NoReason}
  BY <1>1, <1>2 DEF RunType
<1>5. /\ next \in RunType
      /\ next.activeStep = run.activeStep
      /\ next.activeRequest = run.activeRequest
      /\ next.activeTools = run.activeTools \ {t}
      /\ next.activeCompaction = run.activeCompaction
      /\ next.compaction = run.compaction
      /\ next.steps = run.steps
      /\ next.requests = run.requests
      /\ next.tools = [run.tools EXCEPT ![t] = new]
      /\ next.approvals = run.approvals
  <2> HIDE DEF new, blocked
  <2> QED BY <1>1, <1>3, <1>4 DEF RunType
<1> HIDE DEF next, new, blocked
<1>6. next.tools[t] = new /\ \A u \in Calls : u # t => next.tools[u] = run.tools[u]
  BY <1>1, <1>5 DEF RunType
<1>7. run.tools[t].status # "absent" /\ run.approvals[t] # "pending" /\ ~IsOpen(new)
      /\ new.status \notin {"absent", "running"}
  BY <1>3 DEF CanFinishTool, NextTool, IsOpen, OpenCall, TerminalCall
<1>8. ActiveSetsAgree(next)
  BY <1>5, <1>6, <1>7 DEF RunInv, ActiveSetsAgree
<1>9. OneKindOpen(next) /\ OnePending(next)
  BY <1>5 DEF RunInv, OneKindOpen, OnePending, PendingApproval
<1>10. GateHeld(next)
  BY <1>3, <1>5, <1>6 DEF RunInv, GateHeld
<1>11. RetryIsRecovery(next) /\ RequestHasStep(next) /\ CompactionAside(next)
  <2>1. run.tools[t].status # "absent" /\ next.tools[t].status # "absent"
    BY <1>6, <1>7
  <2> QED BY <2>1, <1>5, <1>6, CallUpdate
<1> QED BY <1>5, <1>8, <1>9, <1>10, <1>11, RefreshInv DEF RunInv, FinishTool, next, new, blocked

LEMMA FinishStepInv ==
  ASSUME NEW run, RunInv(run), NEW k \in Steps, NEW o, IsOutcome(o, TerminalStatus), CanFinishStep(run, k, o)
  PROVE  RunInv(FinishStep(run, k, o)) /\ FinishStep(run, k, o).status \in LiveStatus
<1> DEFINE blocked == IF o.status = "completed" THEN run.blockedReason ELSE BlockedOr(run, o.reason)
           next == [run EXCEPT !.activeStep = 0, !.blockedReason = blocked, !.steps[k] = o.status]
<1>1. run \in RunType
  BY DEF RunInv
<1>2. o.status \in TerminalStatus /\ o.reason \in Reasons
  BY DEF IsOutcome
<1>3. blocked \in Reasons \cup {NoReason} /\ 0 \in 0..MaxStep
  BY <1>1, <1>2, BoundsAssumption DEF RunType, BlockedOr
<1>4. /\ next \in RunType
      /\ next.activeStep = 0
      /\ next.activeRequest = run.activeRequest
      /\ next.activeTools = run.activeTools
      /\ next.activeCompaction = run.activeCompaction
      /\ next.compaction = run.compaction
      /\ next.steps = [run.steps EXCEPT ![k] = o.status]
      /\ next.requests = run.requests
      /\ next.tools = run.tools
      /\ next.approvals = run.approvals
  <2> HIDE DEF blocked
  <2> QED BY <1>1, <1>2, <1>3 DEF RunType
<1> HIDE DEF next, blocked
<1>5. /\ next.steps[k] = o.status /\ \A j \in Steps : j # k => next.steps[j] = run.steps[j]
      /\ o.status \notin {"absent", "running"}
  BY <1>1, <1>2, <1>4 DEF RunType, TerminalStatus
<1>6. \A t \in Calls : ~IsOpen(run.tools[t])
  <2>1. ASSUME NEW t \in Calls, IsOpen(run.tools[t]) PROVE FALSE
    <3>1. t[1] = k /\ t[2] \in Slots /\ t = <<t[1], t[2]>>
      BY <2>1 DEF RunInv, ActiveSetsAgree, CanFinishStep, Calls
    <3> QED BY <2>1, <3>1 DEF CanFinishStep
  <2> QED BY <2>1
<1>7. \A j \in Steps : j # 0 /\ next.steps[j] # "running"
  BY <1>5, BoundsAssumption DEF RunInv, ActiveSetsAgree, CanFinishStep, Steps
<1>8. ActiveSetsAgree(next)
  BY <1>4, <1>6, <1>7 DEF RunInv, ActiveSetsAgree, CanFinishStep
<1>9. OneKindOpen(next) /\ OnePending(next) /\ GateHeld(next)
  BY <1>4 DEF RunInv, OneKindOpen, OnePending, GateHeld, PendingApproval
<1>10. RetryIsRecovery(next)
  BY <1>4 DEF RunInv, RetryIsRecovery, LastRequest, LastAttempt
<1>11. RequestHasStep(next)
  BY <1>4, <1>5 DEF RunInv, RequestHasStep, Requests
<1>12. CompactionAside(next)
  BY <1>4 DEF CompactionAside
<1> QED BY <1>4, <1>8, <1>9, <1>10, <1>11, <1>12, RefreshInv DEF RunInv, FinishStep, next, blocked

LEMMA FinishRunInv ==
  ASSUME NEW run, RunInv(run), NEW o, IsOutcome(o, TerminalStatus)
  PROVE  RunInv(FinishRun(run, o))
<1> DEFINE next == FinishRun(run, o)
<1>1. o.status \in TerminalStatus /\ o.reason \in Reasons
  BY DEF IsOutcome
<1>2. next \in RunType /\ next.activeStep = run.activeStep /\ next.activeRequest = run.activeRequest
      /\ next.activeTools = run.activeTools /\ next.activeCompaction = run.activeCompaction
      /\ next.compaction = run.compaction /\ next.steps = run.steps /\ next.requests = run.requests
      /\ next.tools = run.tools /\ next.approvals = run.approvals
  BY <1>1 DEF RunInv, RunType, FinishRun
<1> HIDE DEF next
<1>3. RunInv(next)
  BY <1>2, SameFacts
<1> QED BY <1>3 DEF next

-----------------------------------------------------------------------------
\* HistoryFrozen and NoDispatchOnceStopped, between two records of one run.
Frozen(run, next) ==
  /\ \A k \in Steps : run.steps[k] \in TerminalStatus => next.steps[k] = run.steps[k]
  /\ \A q \in Requests : run.requests[q].status \notin {"absent", "running"} => next.requests[q] = run.requests[q]
  /\ \A t \in Calls :
       /\ run.tools[t].status \in TerminalCall => next.tools[t] = run.tools[t]
       /\ run.approvals[t] \notin {"absent", "pending"} => next.approvals[t] = run.approvals[t]
  /\ run.cancelRequested => next.cancelRequested

Dispatches(run, next) ==
  \/ \E k \in Steps : run.steps[k] = "absent" /\ next.steps[k] # "absent"
  \/ \E q \in Requests : run.requests[q].status = "absent" /\ next.requests[q].status # "absent"
  \/ \E t \in Calls : \/ run.tools[t].status = "absent" /\ next.tools[t].status # "absent"
                      \/ run.approvals[t] = "absent" /\ next.approvals[t] # "absent"
                      \/ ~run.tools[t].started /\ next.tools[t].started

Halted(run) == run.cancelRequested \/ run.blockedReason # NoReason

Grows(run, next) ==
  /\ next.command = run.command
  /\ Frozen(run, next)
  /\ Halted(run) => ~Dispatches(run, next)

-----------------------------------------------------------------------------
(***************************************************************************)
(* One lemma per event.                                                    *)
(***************************************************************************)
\* An event that leaves steps, requests, calls and approvals alone.
LEMMA SameGrows ==
  ASSUME NEW run, NEW next,
         next.command = run.command,
         run.cancelRequested => next.cancelRequested,
         next.steps = run.steps,
         next.requests = run.requests,
         next.tools = run.tools,
         next.approvals = run.approvals
  PROVE  Grows(run, next)
BY DEF Grows, Frozen, Dispatches

LEMMA AdmitMessageGrows ==
  ASSUME NEW run, RunInv(run)
  PROVE  Grows(run, AdmitMessage(run))
<1> DEFINE next == AdmitMessage(run)
<1>1. /\ next.command = run.command /\ next.cancelRequested = run.cancelRequested
      /\ next.steps = run.steps /\ next.requests = run.requests
      /\ next.tools = run.tools /\ next.approvals = run.approvals
  BY DEF AdmitMessage, Refresh, RunInv, RunType
<1> HIDE DEF next
<1>2. Grows(run, next)
  BY <1>1, SameGrows
<1> QED BY <1>2 DEF next

LEMMA RequestCancelGrows ==
  ASSUME NEW run, RunInv(run)
  PROVE  Grows(run, RequestCancel(run))
<1> DEFINE next == RequestCancel(run)
<1>1. /\ next.command = run.command /\ next.cancelRequested
      /\ next.steps = run.steps /\ next.requests = run.requests
      /\ next.tools = run.tools /\ next.approvals = run.approvals
  BY DEF RequestCancel, Refresh, RunInv, RunType
<1> HIDE DEF next
<1>2. Grows(run, next)
  BY <1>1, SameGrows
<1> QED BY <1>2 DEF next

LEMMA StartStepGrows ==
  ASSUME NEW run, RunInv(run), NEW k \in Steps, CanStartStep(run, k)
  PROVE  Grows(run, StartStep(run, k))
<1> DEFINE next == StartStep(run, k)
<1>1. /\ next.command = run.command /\ next.cancelRequested = run.cancelRequested
      /\ next.steps = [run.steps EXCEPT ![k] = "running"]
      /\ next.requests = run.requests
      /\ next.tools = run.tools /\ next.approvals = run.approvals
  BY DEF StartStep, Refresh, RunInv, RunType
<1> HIDE DEF next
<1>2. ~Halted(run) /\ run.steps[k] = "absent" /\ "absent" \notin TerminalStatus
  BY DEF CanStartStep, Dispatchable, Halted, TerminalStatus
<1>3. \A j \in Steps : j # k => next.steps[j] = run.steps[j]
  BY <1>1 DEF RunInv, RunType
<1>4. Grows(run, next)
  BY <1>1, <1>2, <1>3 DEF Grows, Frozen
<1> QED BY <1>4 DEF next

LEMMA StartRequestGrows ==
  ASSUME NEW run, RunInv(run), NEW k \in Steps, NEW a \in Attempts, CanStartRequest(run, k, a)
  PROVE  Grows(run, StartRequest(run, k, a))
<1> DEFINE q == <<k, a>>
           next == StartRequest(run, k, a)
<1>1. /\ next.command = run.command /\ next.cancelRequested = run.cancelRequested
      /\ next.steps = run.steps
      /\ \A p \in Requests : p # q => next.requests[p] = run.requests[p]
      /\ next.tools = run.tools /\ next.approvals = run.approvals
  BY DEF StartRequest, Refresh, RunInv, RunType
<1> HIDE DEF next
<1>2. ~Halted(run) /\ run.requests[q].status = "absent"
  BY DEF CanStartRequest, ValidAttempt, Dispatchable, Halted, Attempts
<1>3. Grows(run, next)
  BY <1>1, <1>2 DEF Grows, Frozen
<1> QED BY <1>3 DEF next

LEMMA RecordDeltaGrows ==
  ASSUME NEW run, RunInv(run), NEW q \in Requests, CanRecordDelta(run, q)
  PROVE  Grows(run, RecordDelta(run, q))
<1> DEFINE next == RecordDelta(run, q)
<1>1. /\ next.command = run.command /\ next.cancelRequested = run.cancelRequested
      /\ next.steps = run.steps
      /\ \A p \in Requests : p # q => next.requests[p] = run.requests[p]
      /\ next.tools = run.tools /\ next.approvals = run.approvals
  BY DEF RecordDelta, Refresh, RunInv, RunType
<1> HIDE DEF next
<1>2. run.requests[q].status = "running"
  BY DEF CanRecordDelta
<1>3. Grows(run, next)
  BY <1>1, <1>2 DEF Grows, Frozen, Dispatches
<1> QED BY <1>3 DEF next

LEMMA FinishRequestGrows ==
  ASSUME NEW run, RunInv(run), NEW q \in Requests, NEW o, IsOutcome(o, TerminalRequest), NEW n \in 0..MaxCall,
         CanFinishRequest(run, q, o, n)
  PROVE  Grows(run, FinishRequest(run, q, o, n))
<1> DEFINE next == FinishRequest(run, q, o, n)
<1>1. /\ next.command = run.command /\ next.cancelRequested = run.cancelRequested
      /\ next.steps = run.steps
      /\ \A p \in Requests : p # q => next.requests[p] = run.requests[p]
      /\ next.tools = run.tools /\ next.approvals = run.approvals
  BY DEF FinishRequest, Refresh, RunInv, RunType
<1> HIDE DEF next
<1>2. run.requests[q].status = "running"
  BY DEF CanFinishRequest
<1>3. Grows(run, next)
  BY <1>1, <1>2 DEF Grows, Frozen, Dispatches
<1> QED BY <1>3 DEF next

LEMMA StartCompactionGrows ==
  ASSUME NEW run, RunInv(run), NEW trigger \in Triggers
  PROVE  Grows(run, StartCompaction(run, trigger))
<1> DEFINE next == StartCompaction(run, trigger)
<1>1. /\ next.command = run.command /\ next.cancelRequested = run.cancelRequested
      /\ next.steps = run.steps /\ next.requests = run.requests
      /\ next.tools = run.tools /\ next.approvals = run.approvals
  BY DEF StartCompaction, Refresh, RunInv, RunType
<1> HIDE DEF next
<1>2. Grows(run, next)
  BY <1>1, SameGrows
<1> QED BY <1>2 DEF next

LEMMA SucceedCompactionGrows ==
  ASSUME NEW run, RunInv(run)
  PROVE  Grows(run, SucceedCompaction(run))
<1> DEFINE next == SucceedCompaction(run)
<1>1. /\ next.command = run.command /\ next.cancelRequested = run.cancelRequested
      /\ next.steps = run.steps /\ next.requests = run.requests
      /\ next.tools = run.tools /\ next.approvals = run.approvals
  BY DEF SucceedCompaction, Refresh, RunInv, RunType
<1> HIDE DEF next
<1>2. Grows(run, next)
  BY <1>1, SameGrows
<1> QED BY <1>2 DEF next

LEMMA FailCompactionGrows ==
  ASSUME NEW run, RunInv(run)
  PROVE  Grows(run, FailCompaction(run))
<1> DEFINE next == FailCompaction(run)
<1>1. /\ next.command = run.command /\ next.cancelRequested = run.cancelRequested
      /\ next.steps = run.steps /\ next.requests = run.requests
      /\ next.tools = run.tools /\ next.approvals = run.approvals
  BY DEF FailCompaction, Refresh, RunInv, RunType
<1> HIDE DEF next
<1>2. Grows(run, next)
  BY <1>1, SameGrows
<1> QED BY <1>2 DEF next

LEMMA CreateCallGrows ==
  ASSUME NEW run, RunInv(run), NEW t \in Calls, NEW gated, NEW mode, CanCreateCall(run, t)
  PROVE  Grows(run, CreateCall(run, t, gated, mode))
<1> DEFINE next == CreateCall(run, t, gated, mode)
<1>1. /\ next.command = run.command /\ next.cancelRequested = run.cancelRequested
      /\ next.steps = run.steps /\ next.requests = run.requests
      /\ \A u \in Calls : u # t => next.tools[u] = run.tools[u]
      /\ next.approvals = run.approvals
  BY DEF CreateCall, Refresh, RunInv, RunType
<1> HIDE DEF next
<1>2. ~Halted(run) /\ run.tools[t].status \notin TerminalCall
  BY DEF CanCreateCall, Dispatchable, Halted, TerminalCall
<1>3. Grows(run, next)
  BY <1>1, <1>2 DEF Grows, Frozen
<1> QED BY <1>3 DEF next

LEMMA RequestApprovalGrows ==
  ASSUME NEW run, RunInv(run), NEW t \in Calls, CanRequestApproval(run, t)
  PROVE  Grows(run, RequestApproval(run, t))
<1> DEFINE next == RequestApproval(run, t)
<1>1. /\ next.command = run.command /\ next.cancelRequested = run.cancelRequested
      /\ next.steps = run.steps /\ next.requests = run.requests
      /\ \A u \in Calls : u # t => next.tools[u] = run.tools[u]
      /\ \A u \in Calls : u # t => next.approvals[u] = run.approvals[u]
  BY DEF RequestApproval, Refresh, RunInv, RunType
<1> HIDE DEF next
<1>2. ~Halted(run) /\ run.tools[t].status \notin TerminalCall /\ run.approvals[t] = "absent"
  BY DEF CanRequestApproval, Dispatchable, Halted, TerminalCall
<1>3. Grows(run, next)
  BY <1>1, <1>2 DEF Grows, Frozen
<1> QED BY <1>3 DEF next

LEMMA StartToolGrows ==
  ASSUME NEW run, RunInv(run), NEW t \in Calls, CanStartTool(run, t)
  PROVE  Grows(run, StartTool(run, t))
<1> DEFINE next == StartTool(run, t)
<1>1. /\ next.command = run.command /\ next.cancelRequested = run.cancelRequested
      /\ next.steps = run.steps /\ next.requests = run.requests
      /\ \A u \in Calls : u # t => next.tools[u] = run.tools[u]
      /\ next.approvals = run.approvals
  BY DEF StartTool, Refresh, RunInv, RunType
<1> HIDE DEF next
<1>2. ~Halted(run) /\ run.tools[t].status \notin TerminalCall
  BY DEF CanStartTool, Dispatchable, Halted, TerminalCall
<1>3. Grows(run, next)
  BY <1>1, <1>2 DEF Grows, Frozen
<1> QED BY <1>3 DEF next

LEMMA ResolveApprovalGrows ==
  ASSUME NEW run, RunInv(run), NEW t \in Calls, NEW decision, NEW origin,
         CanResolveApproval(run, t, decision, origin)
  PROVE  Grows(run, ResolveApproval(run, t, decision))
<1> DEFINE next == ResolveApproval(run, t, decision)
           call == IF decision = "allowed" THEN [run.tools[t] EXCEPT !.status = "created"] ELSE run.tools[t]
<1>1. run \in RunType /\ run.tools[t] \in CallType
  BY DEF RunInv, RunType
<1>2. /\ next.command = run.command /\ next.cancelRequested = run.cancelRequested
      /\ next.steps = run.steps /\ next.requests = run.requests
      /\ next.tools = [run.tools EXCEPT ![t] = call]
      /\ \A u \in Calls : u # t => next.approvals[u] = run.approvals[u]
  BY <1>1 DEF ResolveApproval, Refresh, RunType
<1>3. call.started = run.tools[t].started
  BY <1>1 DEF CallType
<1> HIDE DEF next, call
<1>4. next.tools[t] = call /\ \A u \in Calls : u # t => next.tools[u] = run.tools[u]
  BY <1>1, <1>2 DEF RunType
<1>5. run.approvals[t] = "pending" /\ run.tools[t].status \notin {"absent"} \cup TerminalCall
  BY DEF CanResolveApproval, IsOpen, OpenCall, TerminalCall
<1>6. Grows(run, next)
  BY <1>2, <1>3, <1>4, <1>5 DEF Grows, Frozen, Dispatches
<1> QED BY <1>6 DEF next

LEMMA FinishToolGrows ==
  ASSUME NEW run, RunInv(run), NEW t \in Calls, NEW o, IsOutcome(o, TerminalCall), CanFinishTool(run, t, o)
  PROVE  Grows(run, FinishTool(run, t, o))
<1> DEFINE next == FinishTool(run, t, o)
           call == [run.tools[t] EXCEPT !.status = o.status, !.reason = o.reason]
<1>1. run \in RunType /\ run.tools[t] \in CallType
  BY DEF RunInv, RunType
<1>2. /\ next.command = run.command /\ next.cancelRequested = run.cancelRequested
      /\ next.steps = run.steps /\ next.requests = run.requests
      /\ next.tools = [run.tools EXCEPT ![t] = call]
      /\ next.approvals = run.approvals
  BY <1>1 DEF FinishTool, Refresh, RunType
<1>3. call.started = run.tools[t].started
  BY <1>1 DEF CallType
<1> HIDE DEF next, call
<1>4. next.tools[t] = call /\ \A u \in Calls : u # t => next.tools[u] = run.tools[u]
  BY <1>1, <1>2 DEF RunType
<1>5. run.tools[t].status \notin {"absent"} \cup TerminalCall
  BY DEF CanFinishTool, NextTool, IsOpen, OpenCall, TerminalCall
<1>6. Grows(run, next)
  BY <1>2, <1>3, <1>4, <1>5 DEF Grows, Frozen, Dispatches
<1> QED BY <1>6 DEF next

LEMMA FinishStepGrows ==
  ASSUME NEW run, RunInv(run), NEW k \in Steps, NEW o, IsOutcome(o, TerminalStatus), CanFinishStep(run, k, o)
  PROVE  Grows(run, FinishStep(run, k, o))
<1> DEFINE next == FinishStep(run, k, o)
<1>1. /\ next.command = run.command /\ next.cancelRequested = run.cancelRequested
      /\ \A j \in Steps : j # k => next.steps[j] = run.steps[j]
      /\ next.requests = run.requests
      /\ next.tools = run.tools /\ next.approvals = run.approvals
  BY DEF FinishStep, Refresh, RunInv, RunType
<1> HIDE DEF next
<1>2. run.steps[k] = "running" /\ "running" \notin TerminalStatus
  BY DEF CanFinishStep, TerminalStatus
<1>3. Grows(run, next)
  BY <1>1, <1>2 DEF Grows, Frozen, Dispatches
<1> QED BY <1>3 DEF next

\* Closing a run changes nothing of it but its status and reason.
LEMMA FinishRunGrows ==
  ASSUME NEW run, RunInv(run), NEW o, IsOutcome(o, TerminalStatus), CanFinishRun(run, o)
  PROVE  Grows(run, FinishRun(run, o)) /\ Settled(FinishRun(run, o)) /\ FinishRun(run, o).status \in TerminalStatus
<1> DEFINE next == FinishRun(run, o)
<1>1. o.status \in TerminalStatus
  BY DEF IsOutcome
<1>2. /\ next.command = run.command /\ next.cancelRequested = run.cancelRequested
      /\ next.steps = run.steps /\ next.requests = run.requests
      /\ next.tools = run.tools /\ next.approvals = run.approvals
      /\ next.activeStep = run.activeStep /\ next.activeRequest = run.activeRequest
      /\ next.activeTools = run.activeTools /\ next.activeCompaction = run.activeCompaction
      /\ next.status = o.status
  BY DEF FinishRun, RunInv, RunType
<1> HIDE DEF next
<1>3. Grows(run, next)
  BY <1>2, SameGrows
<1>4. Settled(next)
  BY <1>2 DEF Settled, CanFinishRun, PendingApproval
<1> QED BY <1>1, <1>2, <1>3, <1>4 DEF next

-----------------------------------------------------------------------------
\* An overflow compaction starts from an unblocked run, so no call had failed to clean up.
CleanupAside(run) ==
  run.activeCompaction /\ run.compaction.trigger = "context_overflow" =>
    \A t \in Calls : run.tools[t].reason # "cleanup_failed"

(***************************************************************************)
(* CompletedIsWhole looks at all steps at once, the guards at two: so the  *)
(* chain of steps is kept for any two, and the account of a completed step *)
(* from the event that closed it.                                          *)
(***************************************************************************)
StepsWhole(run) ==
  /\ \A k \in Steps : run.steps[k] = "completed" =>
       LastRequest(run, k).status = "succeeded" /\ AllDeclaredCreated(run, k)
  /\ \A j, k \in Steps : j < k /\ run.steps[k] # "absent" =>
       run.steps[j] = "completed" /\ LastRequest(run, j).calls > 0

OutcomeInv(run) ==
  /\ SettledInOrder(run)
  /\ ExclusiveAlone(run)
  /\ CleanupFailureKept(run)
  /\ CleanupAside(run)
  /\ StepsWhole(run)
  /\ CompletedIsWhole(run)

-----------------------------------------------------------------------------
(***************************************************************************)
(* What the events share.                                                  *)
(***************************************************************************)
LEMMA EarlierIs ==
  ASSUME NEW t \in Calls
  PROVE  EarlierSlots(t) = {u \in Calls : u[1] = t[1] /\ u[2] < t[2]}
<1>1. t[1] \in Steps /\ t[2] \in Slots /\ MaxCall \in Nat
  BY BoundsAssumption DEF Calls
<1>2. ASSUME NEW u \in EarlierSlots(t) PROVE u \in Calls /\ u[1] = t[1] /\ u[2] < t[2]
  <2>1. PICK i \in 1..(t[2] - 1) : u = <<t[1], i>>
    BY DEF EarlierSlots
  <2>2. i \in Slots /\ i < t[2]
    BY <1>1 DEF Slots
  <2> QED BY <1>1, <2>1, <2>2 DEF Calls
<1>3. ASSUME NEW u \in Calls, u[1] = t[1], u[2] < t[2] PROVE u \in EarlierSlots(t)
  <2>1. u = <<t[1], u[2]>> /\ u[2] \in 1..(t[2] - 1)
    BY <1>1, <1>3 DEF Calls, Slots
  <2> QED BY <2>1 DEF EarlierSlots
<1> QED BY <1>2, <1>3

\* A completed step keeps its account while its requests stay and no call vanishes.
LEMMA WholeKept ==
  ASSUME NEW run, StepsWhole(run), NEW next,
         next.steps = run.steps,
         \A k \in Steps : run.steps[k] = "completed" =>
           \A a \in Attempts : next.requests[<<k, a>>] = run.requests[<<k, a>>],
         \A t \in Calls : run.tools[t].status # "absent" => next.tools[t].status # "absent"
  PROVE  StepsWhole(next)
<1>1. ASSUME NEW k \in Steps, run.steps[k] = "completed"
      PROVE  LastRequest(next, k) = LastRequest(run, k)
  <2>1. next.requests[<<k, 1>>] = run.requests[<<k, 1>>] /\ next.requests[<<k, 2>>] = run.requests[<<k, 2>>]
    BY <1>1 DEF Attempts
  <2> QED BY <2>1 DEF LastRequest, LastAttempt
<1>2. \A k \in Steps, i \in Slots : <<k, i>> \in Calls
  BY DEF Calls
<1> QED BY <1>1, <1>2 DEF StepsWhole, AllDeclaredCreated

\* An event that leaves steps and calls alone.
LEMMA QuietOutcome ==
  ASSUME NEW run, OutcomeInv(run), NEW next,
         next.status \in LiveStatus,
         next.activeTools = run.activeTools,
         next.tools = run.tools,
         next.steps = run.steps,
         \A k \in Steps : run.steps[k] = "completed" =>
           \A a \in Attempts : next.requests[<<k, a>>] = run.requests[<<k, a>>],
         \A t \in Calls : run.tools[t].reason = "cleanup_failed" => next.blockedReason = "cleanup_failed",
         CleanupAside(next)
  PROVE  OutcomeInv(next)
<1>1. SettledInOrder(next) /\ ExclusiveAlone(next)
  BY DEF OutcomeInv, SettledInOrder, ExclusiveAlone, EarlierOpen
<1>2. next.status \notin {"completed", "cancelled"}
  BY DEF LiveStatus
<1>3. CleanupFailureKept(next) /\ CompletedIsWhole(next)
  BY <1>2 DEF OutcomeInv, CleanupFailureKept, CompletedIsWhole
<1>4. StepsWhole(next)
  BY WholeKept DEF OutcomeInv
<1> QED BY <1>1, <1>3, <1>4 DEF OutcomeInv

-----------------------------------------------------------------------------
(***************************************************************************)
(* One lemma per event.                                                    *)
(***************************************************************************)
LEMMA AbsentOutcome ==
  OutcomeInv(AbsentRun)
<1>1. \A t \in Calls : EarlierSlots(t) \subseteq Calls
  BY EarlierIs
<1>2. SettledInOrder(AbsentRun) /\ ExclusiveAlone(AbsentRun)
  BY <1>1 DEF AbsentRun, SettledInOrder, ExclusiveAlone, TerminalCall
<1>3. CleanupFailureKept(AbsentRun) /\ CleanupAside(AbsentRun)
  BY DEF AbsentRun, CleanupFailureKept, CleanupAside, NoReason
<1>4. StepsWhole(AbsentRun) /\ CompletedIsWhole(AbsentRun)
  BY DEF AbsentRun, StepsWhole, CompletedIsWhole
<1> QED BY <1>2, <1>3, <1>4 DEF OutcomeInv

LEMMA StartedRunOutcome ==
  ASSUME NEW command \in Commands
  PROVE  OutcomeInv(StartedRun(command))
<1> DEFINE next == StartedRun(command)
<1>1. AbsentRun \in RunType /\ next.status \in LiveStatus
  BY AbsentInv, StartedRunInv DEF RunInv
<1>2. /\ next.activeTools = AbsentRun.activeTools /\ next.tools = AbsentRun.tools
      /\ next.steps = AbsentRun.steps /\ next.requests = AbsentRun.requests
      /\ next.activeCompaction = AbsentRun.activeCompaction
  BY <1>1 DEF StartedRun, RunType
<1>3. ~AbsentRun.activeCompaction /\ \A t \in Calls : AbsentRun.tools[t].reason # "cleanup_failed"
  BY DEF AbsentRun, NoReason
<1> HIDE DEF next
<1>4. CleanupAside(next)
  BY <1>2, <1>3 DEF CleanupAside
<1>5. OutcomeInv(next)
  BY <1>1, <1>2, <1>3, <1>4, AbsentOutcome, QuietOutcome
<1> QED BY <1>5 DEF next

LEMMA AdmitMessageOutcome ==
  ASSUME NEW run, RunInv(run), OutcomeInv(run)
  PROVE  OutcomeInv(AdmitMessage(run))
<1> DEFINE next == AdmitMessage(run)
<1>1. /\ next.activeTools = run.activeTools /\ next.tools = run.tools /\ next.steps = run.steps
      /\ next.requests = run.requests
      /\ next.blockedReason = run.blockedReason
      /\ next.activeCompaction = run.activeCompaction /\ next.compaction = run.compaction
  BY DEF AdmitMessage, Refresh, RunInv, RunType
<1>2. next.status \in LiveStatus
  BY AdmitMessageInv
<1> HIDE DEF next
<1>4. \A t \in Calls : run.tools[t].reason = "cleanup_failed" => next.blockedReason = "cleanup_failed"
  BY <1>1 DEF OutcomeInv, CleanupFailureKept
<1>5. CleanupAside(next)
  BY <1>1 DEF OutcomeInv, CleanupAside
<1>6. OutcomeInv(next)
  BY <1>1, <1>2, <1>4, <1>5, QuietOutcome
<1> QED BY <1>6 DEF next

LEMMA RequestCancelOutcome ==
  ASSUME NEW run, RunInv(run), OutcomeInv(run)
  PROVE  OutcomeInv(RequestCancel(run))
<1> DEFINE next == RequestCancel(run)
<1>1. /\ next.activeTools = run.activeTools /\ next.tools = run.tools /\ next.steps = run.steps
      /\ next.requests = run.requests
      /\ next.blockedReason = run.blockedReason
      /\ next.activeCompaction = run.activeCompaction /\ next.compaction = run.compaction
  BY DEF RequestCancel, Refresh, RunInv, RunType
<1>2. next.status \in LiveStatus
  BY RequestCancelInv
<1> HIDE DEF next
<1>4. \A t \in Calls : run.tools[t].reason = "cleanup_failed" => next.blockedReason = "cleanup_failed"
  BY <1>1 DEF OutcomeInv, CleanupFailureKept
<1>5. CleanupAside(next)
  BY <1>1 DEF OutcomeInv, CleanupAside
<1>6. OutcomeInv(next)
  BY <1>1, <1>2, <1>4, <1>5, QuietOutcome
<1> QED BY <1>6 DEF next

LEMMA StartRequestOutcome ==
  ASSUME NEW run, RunInv(run), OutcomeInv(run), NEW k0 \in Steps, NEW a0 \in Attempts, CanStartRequest(run, k0, a0)
  PROVE  OutcomeInv(StartRequest(run, k0, a0))
<1> DEFINE next == StartRequest(run, k0, a0)
<1>1. /\ next.activeTools = run.activeTools /\ next.tools = run.tools /\ next.steps = run.steps
      /\ \A p \in Requests : p # <<k0, a0>> => next.requests[p] = run.requests[p]
      /\ next.blockedReason = run.blockedReason
      /\ next.activeCompaction = run.activeCompaction /\ next.compaction = run.compaction
  BY DEF StartRequest, Refresh, RunInv, RunType
<1>2. next.status \in LiveStatus
  BY StartRequestInv
<1> HIDE DEF next
<1>3. \A k \in Steps : run.steps[k] = "completed" =>
        \A a \in Attempts : next.requests[<<k, a>>] = run.requests[<<k, a>>]
  <2>1. run.steps[k0] = "running"
    BY DEF CanStartRequest
  <2>2. \A k \in Steps, a \in Attempts : run.steps[k] = "completed" => <<k, a>> \in Requests /\ <<k, a>> # <<k0, a0>>
    BY <2>1 DEF Requests
  <2> QED BY <1>1, <2>2
<1>4. \A t \in Calls : run.tools[t].reason = "cleanup_failed" => next.blockedReason = "cleanup_failed"
  BY <1>1 DEF OutcomeInv, CleanupFailureKept
<1>5. CleanupAside(next)
  BY <1>1 DEF OutcomeInv, CleanupAside
<1>6. OutcomeInv(next)
  BY <1>1, <1>2, <1>3, <1>4, <1>5, QuietOutcome
<1> QED BY <1>6 DEF next

LEMMA RecordDeltaOutcome ==
  ASSUME NEW run, RunInv(run), OutcomeInv(run), NEW q \in Requests, CanRecordDelta(run, q)
  PROVE  OutcomeInv(RecordDelta(run, q))
<1> DEFINE next == RecordDelta(run, q)
<1>1. /\ next.activeTools = run.activeTools /\ next.tools = run.tools /\ next.steps = run.steps
      /\ \A p \in Requests : p # q => next.requests[p] = run.requests[p]
      /\ next.blockedReason = run.blockedReason
      /\ next.activeCompaction = run.activeCompaction /\ next.compaction = run.compaction
  BY DEF RecordDelta, Refresh, RunInv, RunType
<1>2. next.status \in LiveStatus
  BY RecordDeltaInv
<1> HIDE DEF next
<1>3. \A k \in Steps : run.steps[k] = "completed" =>
        \A a \in Attempts : next.requests[<<k, a>>] = run.requests[<<k, a>>]
  <2>1. q[1] \in Steps /\ run.requests[q].status = "running"
    BY DEF CanRecordDelta, Requests
  <2>2. run.steps[q[1]] = "running"
    BY <2>1, BoundsAssumption DEF RunInv, ActiveSetsAgree, Requests, NoRequest, Steps
  <2>3. \A k \in Steps, a \in Attempts : run.steps[k] = "completed" => <<k, a>> \in Requests /\ <<k, a>> # q
    BY <2>2 DEF Requests
  <2> QED BY <1>1, <2>3
<1>4. \A t \in Calls : run.tools[t].reason = "cleanup_failed" => next.blockedReason = "cleanup_failed"
  BY <1>1 DEF OutcomeInv, CleanupFailureKept
<1>5. CleanupAside(next)
  BY <1>1 DEF OutcomeInv, CleanupAside
<1>6. OutcomeInv(next)
  BY <1>1, <1>2, <1>3, <1>4, <1>5, QuietOutcome
<1> QED BY <1>6 DEF next

LEMMA FinishRequestOutcome ==
  ASSUME NEW run, RunInv(run), OutcomeInv(run), NEW q \in Requests, NEW o, IsOutcome(o, TerminalRequest), NEW n \in 0..MaxCall,
         CanFinishRequest(run, q, o, n)
  PROVE  OutcomeInv(FinishRequest(run, q, o, n))
<1> DEFINE next == FinishRequest(run, q, o, n)
<1>1. /\ next.activeTools = run.activeTools /\ next.tools = run.tools /\ next.steps = run.steps
      /\ \A p \in Requests : p # q => next.requests[p] = run.requests[p]
      /\ run.blockedReason # NoReason => next.blockedReason = run.blockedReason
      /\ next.activeCompaction = run.activeCompaction /\ next.compaction = run.compaction
  BY DEF FinishRequest, Refresh, RunInv, RunType, BlockedOr
<1>2. next.status \in LiveStatus
  BY FinishRequestInv
<1> HIDE DEF next
<1>3. \A k \in Steps : run.steps[k] = "completed" =>
        \A a \in Attempts : next.requests[<<k, a>>] = run.requests[<<k, a>>]
  <2>1. q[1] \in Steps /\ run.requests[q].status = "running"
    BY DEF CanFinishRequest, Requests
  <2>2. run.steps[q[1]] = "running"
    BY <2>1, BoundsAssumption DEF RunInv, ActiveSetsAgree, Requests, NoRequest, Steps
  <2>3. \A k \in Steps, a \in Attempts : run.steps[k] = "completed" => <<k, a>> \in Requests /\ <<k, a>> # q
    BY <2>2 DEF Requests
  <2> QED BY <1>1, <2>3
<1>4. \A t \in Calls : run.tools[t].reason = "cleanup_failed" => next.blockedReason = "cleanup_failed"
  BY <1>1 DEF OutcomeInv, CleanupFailureKept, NoReason
<1>5. CleanupAside(next)
  BY <1>1 DEF OutcomeInv, CleanupAside
<1>6. OutcomeInv(next)
  BY <1>1, <1>2, <1>3, <1>4, <1>5, QuietOutcome
<1> QED BY <1>6 DEF next

LEMMA StartCompactionOutcome ==
  ASSUME NEW run, RunInv(run), OutcomeInv(run), NEW trigger \in Triggers, CanStartCompaction(run, trigger)
  PROVE  OutcomeInv(StartCompaction(run, trigger))
<1> DEFINE next == StartCompaction(run, trigger)
<1>1. /\ next.activeTools = run.activeTools /\ next.tools = run.tools /\ next.steps = run.steps
      /\ next.requests = run.requests
      /\ next.blockedReason = run.blockedReason
      /\ next.compaction.trigger = trigger
  BY DEF StartCompaction, Refresh, RunInv, RunType
<1>2. next.status \in LiveStatus
  BY StartCompactionInv
<1> HIDE DEF next
<1>4. \A t \in Calls : run.tools[t].reason = "cleanup_failed" => next.blockedReason = "cleanup_failed"
  BY <1>1 DEF OutcomeInv, CleanupFailureKept
<1>5. CleanupAside(next)
  <2>1. trigger = "context_overflow" => run.blockedReason # "cleanup_failed"
    BY DEF CanStartCompaction, NoReason
  <2> QED BY <1>1, <2>1 DEF OutcomeInv, CleanupAside, CleanupFailureKept
<1>6. OutcomeInv(next)
  BY <1>1, <1>2, <1>4, <1>5, QuietOutcome
<1> QED BY <1>6 DEF next

LEMMA SucceedCompactionOutcome ==
  ASSUME NEW run, RunInv(run), OutcomeInv(run), CanSettleCompaction(run)
  PROVE  OutcomeInv(SucceedCompaction(run))
<1> DEFINE next == SucceedCompaction(run)
<1>1. /\ next.activeTools = run.activeTools /\ next.tools = run.tools /\ next.steps = run.steps
      /\ next.requests = run.requests
      /\ next.blockedReason = run.blockedReason
      /\ ~next.activeCompaction
  BY DEF SucceedCompaction, Refresh, RunInv, RunType
<1>2. next.status \in LiveStatus
  BY SucceedCompactionInv
<1> HIDE DEF next
<1>4. \A t \in Calls : run.tools[t].reason = "cleanup_failed" => next.blockedReason = "cleanup_failed"
  BY <1>1 DEF OutcomeInv, CleanupFailureKept
<1>5. CleanupAside(next)
  BY <1>1 DEF OutcomeInv, CleanupAside
<1>6. OutcomeInv(next)
  BY <1>1, <1>2, <1>4, <1>5, QuietOutcome
<1> QED BY <1>6 DEF next

LEMMA FailCompactionOutcome ==
  ASSUME NEW run, RunInv(run), OutcomeInv(run), CanSettleCompaction(run)
  PROVE  OutcomeInv(FailCompaction(run))
<1> DEFINE next == FailCompaction(run)
<1>1. /\ next.activeTools = run.activeTools /\ next.tools = run.tools /\ next.steps = run.steps
      /\ next.requests = run.requests
      /\ run.compaction.trigger # "context_overflow" => next.blockedReason = run.blockedReason
      /\ ~next.activeCompaction
  BY DEF FailCompaction, Refresh, RunInv, RunType
<1>2. next.status \in LiveStatus
  BY FailCompactionInv
<1> HIDE DEF next
<1>4. \A t \in Calls : run.tools[t].reason = "cleanup_failed" => next.blockedReason = "cleanup_failed"
  BY <1>1 DEF OutcomeInv, CleanupFailureKept, CleanupAside, CanSettleCompaction
<1>5. CleanupAside(next)
  BY <1>1 DEF OutcomeInv, CleanupAside
<1>6. OutcomeInv(next)
  BY <1>1, <1>2, <1>4, <1>5, QuietOutcome
<1> QED BY <1>6 DEF next

LEMMA StartStepOutcome ==
  ASSUME NEW run, RunInv(run), OutcomeInv(run), NEW n \in Steps, CanStartStep(run, n)
  PROVE  OutcomeInv(StartStep(run, n))
<1> DEFINE next == StartStep(run, n)
<1>1. /\ next.activeTools = run.activeTools /\ next.tools = run.tools /\ next.requests = run.requests
      /\ next.steps[n] = "running" /\ \A k \in Steps : k # n => next.steps[k] = run.steps[k]
      /\ next.blockedReason = run.blockedReason
      /\ next.activeCompaction = run.activeCompaction /\ next.compaction = run.compaction
  BY DEF StartStep, Refresh, RunInv, RunType
<1>2. next.status \in LiveStatus
  BY StartStepInv
<1> HIDE DEF next
<1>3. next.status \notin {"completed", "cancelled"}
  BY <1>2 DEF LiveStatus
<1>4. SettledInOrder(next) /\ ExclusiveAlone(next) /\ CleanupAside(next) /\ CompletedIsWhole(next)
  BY <1>1, <1>3 DEF OutcomeInv, SettledInOrder, ExclusiveAlone, EarlierOpen, CleanupAside, CompletedIsWhole
<1>5. CleanupFailureKept(next)
  <2>1. \A t \in Calls : t[1] \in Steps
    BY DEF Calls
  <2> QED BY <1>1, <1>3, <2>1 DEF OutcomeInv, CleanupFailureKept
<1>6. StepsWhole(next)
  <2>1. \A k \in Steps : LastRequest(next, k) = LastRequest(run, k)
    BY <1>1 DEF LastRequest, LastAttempt
  <2>2. \A k \in Steps : AllDeclaredCreated(next, k) <=> AllDeclaredCreated(run, k)
    BY <1>1, <2>1 DEF AllDeclaredCreated
  <2>3. run.steps[n] = "absent"
    BY DEF CanStartStep
  <2>4. ASSUME NEW j \in Steps, j < n PROVE run.steps[j] = "completed" /\ LastRequest(run, j).calls > 0
    <3>1. n - 1 \in Steps /\ run.steps[n - 1] = "completed" /\ LastRequest(run, n - 1).calls > 0
      <4>1. n > 1 /\ n - 1 \in Steps
        BY <2>4, BoundsAssumption DEF Steps
      <4> QED BY <4>1 DEF CanStartStep
    <3>2. j = n - 1 \/ j < n - 1
      BY <2>4 DEF Steps
    <3> QED BY <3>1, <3>2 DEF OutcomeInv, StepsWhole
  <2>5. \A k \in Steps : next.steps[k] = "completed" =>
         LastRequest(next, k).status = "succeeded" /\ AllDeclaredCreated(next, k)
    BY <1>1, <2>1, <2>2 DEF OutcomeInv, StepsWhole
  <2>6. ASSUME NEW j \in Steps, NEW k \in Steps, j < k, next.steps[k] # "absent"
        PROVE  next.steps[j] = "completed" /\ LastRequest(next, j).calls > 0
    <3>1. run.steps[j] = "completed" /\ LastRequest(run, j).calls > 0
      BY <1>1, <2>4, <2>6 DEF OutcomeInv, StepsWhole
    <3> QED BY <1>1, <2>1, <2>3, <3>1
  <2> QED BY <2>5, <2>6 DEF StepsWhole
<1>7. OutcomeInv(next)
  BY <1>4, <1>5, <1>6 DEF OutcomeInv
<1> QED BY <1>7 DEF next

LEMMA FinishStepOutcome ==
  ASSUME NEW run, RunInv(run), OutcomeInv(run), NEW n \in Steps, NEW o, IsOutcome(o, TerminalStatus), CanFinishStep(run, n, o)
  PROVE  OutcomeInv(FinishStep(run, n, o))
<1> DEFINE next == FinishStep(run, n, o)
<1>1. /\ next.activeTools = run.activeTools /\ next.tools = run.tools /\ next.requests = run.requests
      /\ next.steps[n] = o.status /\ \A k \in Steps : k # n => next.steps[k] = run.steps[k]
      /\ run.blockedReason # NoReason => next.blockedReason = run.blockedReason
      /\ next.activeCompaction = run.activeCompaction /\ next.compaction = run.compaction
  BY DEF FinishStep, BlockedOr, Refresh, RunInv, RunType
<1>2. next.status \in LiveStatus
  BY FinishStepInv
<1> HIDE DEF next
<1>3. next.status \notin {"completed", "cancelled"}
  BY <1>2 DEF LiveStatus
<1>4. SettledInOrder(next) /\ ExclusiveAlone(next) /\ CleanupAside(next) /\ CompletedIsWhole(next)
  BY <1>1, <1>3 DEF OutcomeInv, SettledInOrder, ExclusiveAlone, EarlierOpen, CleanupAside, CompletedIsWhole
<1>5. CleanupFailureKept(next)
  <2>1. \A t \in Calls : t[1] \in Steps
    BY DEF Calls
  <2>2. run.blockedReason = "cleanup_failed" => o.status \notin {"completed", "cancelled"}
    BY DEF CanFinishStep, NoReason
  <2> QED BY <1>1, <1>3, <2>1, <2>2 DEF OutcomeInv, CleanupFailureKept, NoReason
<1>6. StepsWhole(next)
  <2>1. \A k \in Steps : LastRequest(next, k) = LastRequest(run, k)
    BY <1>1 DEF LastRequest, LastAttempt
  <2>2. \A k \in Steps : AllDeclaredCreated(next, k) <=> AllDeclaredCreated(run, k)
    BY <1>1, <2>1 DEF AllDeclaredCreated
  <2>3. /\ run.steps[n] = "running"
        /\ o.status = "completed" => LastRequest(run, n).status = "succeeded" /\ AllDeclaredCreated(run, n)
    BY DEF CanFinishStep
  <2>4. \A k \in Steps : next.steps[k] = "completed" =>
         LastRequest(next, k).status = "succeeded" /\ AllDeclaredCreated(next, k)
    BY <1>1, <2>1, <2>2, <2>3 DEF OutcomeInv, StepsWhole
  <2>5. ASSUME NEW j \in Steps, NEW k \in Steps, j < k, next.steps[k] # "absent"
        PROVE  next.steps[j] = "completed" /\ LastRequest(next, j).calls > 0
    <3>1. run.steps[j] = "completed" /\ LastRequest(run, j).calls > 0
      BY <1>1, <2>3, <2>5 DEF OutcomeInv, StepsWhole
    <3> QED BY <1>1, <2>1, <2>3, <3>1
  <2> QED BY <2>4, <2>5 DEF StepsWhole
<1>7. OutcomeInv(next)
  BY <1>4, <1>5, <1>6 DEF OutcomeInv
<1> QED BY <1>7 DEF next

LEMMA CreateCallOutcome ==
  ASSUME NEW run, RunInv(run), OutcomeInv(run), NEW t \in Calls, NEW gated \in BOOLEAN,
         NEW mode \in {"parallel", "exclusive"}, CanCreateCall(run, t)
  PROVE  OutcomeInv(CreateCall(run, t, gated, mode))
<1> DEFINE next == CreateCall(run, t, gated, mode)
<1>1. /\ next.activeTools = run.activeTools /\ next.steps = run.steps /\ next.requests = run.requests
      /\ next.tools[t].status = "created" /\ next.tools[t].reason = NoReason
      /\ \A u \in Calls : u # t => next.tools[u] = run.tools[u]
      /\ next.blockedReason = run.blockedReason
      /\ next.activeCompaction = run.activeCompaction /\ next.compaction = run.compaction
  BY DEF CreateCall, Refresh, RunInv, RunType
<1>2. next.status \in LiveStatus
  BY CreateCallInv
<1> HIDE DEF next
<1>3. next.status \notin {"completed", "cancelled"}
  BY <1>2 DEF LiveStatus
<1>4. run.tools[t].status = "absent" /\ \A u \in EarlierSlots(t) : run.tools[u].status # "absent"
  BY DEF CanCreateCall
<1>5. \A u \in Calls : EarlierSlots(u) \subseteq Calls /\ u \notin EarlierSlots(u)
  BY EarlierIs DEF Calls, Slots
<1>6. \A u \in Calls : run.tools[u].status # "absent" => t \notin EarlierSlots(u)
  BY <1>4 DEF OutcomeInv, SettledInOrder
<1>7. SettledInOrder(next)
  BY <1>1, <1>4, <1>5, <1>6 DEF OutcomeInv, SettledInOrder, TerminalCall
<1>8. ExclusiveAlone(next)
  BY <1>1, <1>5, <1>6 DEF OutcomeInv, ExclusiveAlone, EarlierOpen
<1>9. CleanupFailureKept(next) /\ CleanupAside(next)
  BY <1>1, <1>3 DEF OutcomeInv, CleanupFailureKept, CleanupAside, NoReason
<1>10. StepsWhole(next) /\ CompletedIsWhole(next)
  BY <1>1, <1>3, WholeKept DEF OutcomeInv, CompletedIsWhole
<1>11. OutcomeInv(next)
  BY <1>7, <1>8, <1>9, <1>10 DEF OutcomeInv
<1> QED BY <1>11 DEF next

\* An open call that stays open, while none runs: no order is at stake.
LEMMA OpenKept ==
  ASSUME NEW run, RunInv(run), OutcomeInv(run), NEW t \in Calls, NEW next, next.status \in LiveStatus,
         run.activeTools = {}, IsOpen(run.tools[t]), IsOpen(next.tools[t]), next.tools[t].status # "running",
         next.tools[t].reason = run.tools[t].reason,
         \A u \in Calls : u # t => next.tools[u] = run.tools[u],
         next.steps = run.steps, next.requests = run.requests, next.blockedReason = run.blockedReason,
         next.activeCompaction = run.activeCompaction, next.compaction = run.compaction
  PROVE  OutcomeInv(next)
<1>1. next.status \notin {"completed", "cancelled"}
  BY DEF LiveStatus
<1>2. \A u \in Calls : EarlierSlots(u) \subseteq Calls
  BY EarlierIs
<1>3. /\ run.tools[t].status \notin {"absent"} \cup TerminalCall
      /\ next.tools[t].status \notin {"absent"} \cup TerminalCall
  BY DEF IsOpen, OpenCall, TerminalCall
<1>4. SettledInOrder(next)
  BY <1>2, <1>3 DEF OutcomeInv, SettledInOrder
<1>5. ExclusiveAlone(next)
  BY DEF RunInv, ActiveSetsAgree, ExclusiveAlone
<1>6. CleanupFailureKept(next) /\ CleanupAside(next)
  BY <1>1 DEF OutcomeInv, CleanupFailureKept, CleanupAside
<1>7. StepsWhole(next) /\ CompletedIsWhole(next)
  BY <1>1, <1>3, WholeKept DEF OutcomeInv, CompletedIsWhole
<1> QED BY <1>4, <1>5, <1>6, <1>7 DEF OutcomeInv

LEMMA RequestApprovalOutcome ==
  ASSUME NEW run, RunInv(run), OutcomeInv(run), NEW t \in Calls, CanRequestApproval(run, t)
  PROVE  OutcomeInv(RequestApproval(run, t))
<1> DEFINE next == RequestApproval(run, t)
           new == [run.tools[t] EXCEPT !.status = "waiting_for_approval"]
<1>1. run \in RunType /\ run.tools[t] \in CallType
  BY DEF RunInv, RunType
<1>2. /\ next.steps = run.steps /\ next.requests = run.requests /\ next.blockedReason = run.blockedReason
      /\ next.activeCompaction = run.activeCompaction /\ next.compaction = run.compaction
      /\ next.tools[t] = new /\ \A u \in Calls : u # t => next.tools[u] = run.tools[u]
  BY <1>1 DEF RequestApproval, Refresh, RunType
<1>3. new.status = "waiting_for_approval" /\ new.reason = run.tools[t].reason
  BY <1>1 DEF CallType
<1>4. next.status \in LiveStatus
  BY RequestApprovalInv
<1> HIDE DEF next, new
<1>5. run.activeTools = {} /\ run.tools[t].status = "created"
  BY DEF CanRequestApproval
<1>6. OutcomeInv(next)
  BY <1>2, <1>3, <1>4, <1>5, OpenKept DEF IsOpen, OpenCall
<1> QED BY <1>6 DEF next

LEMMA ResolveApprovalOutcome ==
  ASSUME NEW run, RunInv(run), OutcomeInv(run), NEW t \in Calls,
         NEW d \in {"allowed", "denied", "expired", "cancelled"}, NEW origin \in {"user", "system", "recovery"},
         CanResolveApproval(run, t, d, origin)
  PROVE  OutcomeInv(ResolveApproval(run, t, d))
<1> DEFINE next == ResolveApproval(run, t, d)
           new == IF d = "allowed" THEN [run.tools[t] EXCEPT !.status = "created"] ELSE run.tools[t]
<1>1. run \in RunType /\ run.tools[t] \in CallType
  BY DEF RunInv, RunType
<1>2. /\ next.steps = run.steps /\ next.requests = run.requests /\ next.blockedReason = run.blockedReason
      /\ next.activeCompaction = run.activeCompaction /\ next.compaction = run.compaction
      /\ next.tools[t] = new /\ \A u \in Calls : u # t => next.tools[u] = run.tools[u]
  BY <1>1 DEF ResolveApproval, Refresh, RunType
<1>3. new.status \in {"created", run.tools[t].status} /\ new.reason = run.tools[t].reason
  BY <1>1 DEF CallType
<1>4. next.status \in LiveStatus
  BY ResolveApprovalInv
<1> HIDE DEF next, new
<1>5. run.approvals[t] = "pending" /\ IsOpen(run.tools[t])
  BY DEF CanResolveApproval
<1>6. run.activeTools = {} /\ run.tools[t].status = "waiting_for_approval"
  BY <1>5 DEF RunInv, ActiveSetsAgree, OneKindOpen, PendingApproval
<1>7. OutcomeInv(next)
  BY <1>2, <1>3, <1>4, <1>5, <1>6, OpenKept DEF IsOpen, OpenCall
<1> QED BY <1>7 DEF next

LEMMA StartToolOutcome ==
  ASSUME NEW run, RunInv(run), OutcomeInv(run), NEW t \in Calls, CanStartTool(run, t)
  PROVE  OutcomeInv(StartTool(run, t))
<1> DEFINE next == StartTool(run, t)
           new == [run.tools[t] EXCEPT !.status = "running", !.started = TRUE]
<1>1. run \in RunType /\ run.tools[t] \in CallType
  BY DEF RunInv, RunType
<1>2. /\ next.steps = run.steps /\ next.requests = run.requests /\ next.blockedReason = run.blockedReason
      /\ next.activeCompaction = run.activeCompaction /\ next.compaction = run.compaction
      /\ next.activeTools = run.activeTools \cup {t}
      /\ next.tools[t] = new /\ \A u \in Calls : u # t => next.tools[u] = run.tools[u]
  BY <1>1 DEF StartTool, Refresh, RunType
<1>3. new.status = "running" /\ new.reason = run.tools[t].reason /\ new.mode = run.tools[t].mode
  BY <1>1 DEF CallType
<1>4. next.status \in LiveStatus
  BY StartToolInv
<1> HIDE DEF next, new
<1>5. next.status \notin {"completed", "cancelled"}
  BY <1>4 DEF LiveStatus
<1>6. run.tools[t].status = "created" /\ MayStartTool(run, t)
  BY DEF CanStartTool
<1>7. \A u \in Calls : EarlierSlots(u) \subseteq Calls
  BY EarlierIs
<1>8. t \notin EarlierSlots(t)
  BY EarlierIs DEF Calls, Slots
<1>9. SettledInOrder(next)
  BY <1>2, <1>3, <1>6, <1>7 DEF OutcomeInv, SettledInOrder, TerminalCall
<1>10. ExclusiveAlone(next)
  <2>1. EarlierOpen(next, t) = EarlierOpen(run, t)
    BY <1>2, <1>7, <1>8 DEF EarlierOpen
  <2>2. /\ next.tools[t].mode = "exclusive" => next.activeTools = {t} /\ EarlierOpen(next, t) = {}
        /\ \A u \in EarlierOpen(next, t) : next.tools[u].status = "running" /\ next.tools[u].mode = "parallel"
    <3>1. \A u \in EarlierOpen(run, t) : next.tools[u] = run.tools[u]
      BY <1>2, <1>7, <1>8 DEF EarlierOpen
    <3> QED BY <1>2, <1>3, <1>6, <2>1, <3>1 DEF MayStartTool
  <2>3. ASSUME NEW v \in Calls, v # t, next.tools[v].status = "running"
        PROVE  /\ next.tools[v].mode # "exclusive"
               /\ \A u \in EarlierOpen(next, v) : next.tools[u].status = "running" /\ next.tools[u].mode = "parallel"
    <3>1. run.tools[v].status = "running" /\ v \in run.activeTools
      BY <1>2, <2>3 DEF RunInv, ActiveSetsAgree
    <3>2. run.tools[v].mode = "parallel"
      BY <1>6, <3>1 DEF MayStartTool
    <3>3. t \notin EarlierOpen(run, v)
      BY <1>6, <3>1 DEF OutcomeInv, ExclusiveAlone
    <3>4. t \notin EarlierSlots(v)
      BY <1>6, <3>3 DEF EarlierOpen, IsOpen, OpenCall
    <3>5. \A u \in EarlierOpen(next, v) : u \in EarlierOpen(run, v) /\ next.tools[u] = run.tools[u]
      BY <1>2, <1>7, <3>4 DEF EarlierOpen
    <3> QED BY <1>2, <2>3, <3>1, <3>2, <3>5 DEF OutcomeInv, ExclusiveAlone
  <2> QED BY <2>2, <2>3 DEF ExclusiveAlone
<1>11. CleanupFailureKept(next) /\ CleanupAside(next)
  BY <1>2, <1>3, <1>5 DEF OutcomeInv, CleanupFailureKept, CleanupAside
<1>12. StepsWhole(next) /\ CompletedIsWhole(next)
  BY <1>2, <1>3, <1>5, WholeKept DEF OutcomeInv, CompletedIsWhole
<1>13. OutcomeInv(next)
  BY <1>9, <1>10, <1>11, <1>12 DEF OutcomeInv
<1> QED BY <1>13 DEF next

LEMMA FinishToolOutcome ==
  ASSUME NEW run, RunInv(run), OutcomeInv(run), NEW t \in Calls, NEW o, IsOutcome(o, TerminalCall), CanFinishTool(run, t, o)
  PROVE  OutcomeInv(FinishTool(run, t, o))
<1> DEFINE next == FinishTool(run, t, o)
           new == [run.tools[t] EXCEPT !.status = o.status, !.reason = o.reason]
<1>1. run \in RunType /\ \A u \in Calls : run.tools[u] \in CallType
  BY DEF RunInv, RunType
<1>2. /\ next.steps = run.steps /\ next.requests = run.requests
      /\ next.blockedReason = IF o.reason = "cleanup_failed" THEN "cleanup_failed" ELSE run.blockedReason
      /\ next.activeCompaction = run.activeCompaction
      /\ next.activeTools = run.activeTools \ {t}
      /\ next.tools[t] = new /\ \A u \in Calls : u # t => next.tools[u] = run.tools[u]
  BY <1>1 DEF FinishTool, Refresh, RunType
<1>3. new.status = o.status /\ new.reason = o.reason /\ o.status \in TerminalCall
  BY <1>1 DEF CallType, IsOutcome
<1>4. next.status \in LiveStatus
  BY FinishToolInv
<1> HIDE DEF next, new
<1>5. next.status \notin {"completed", "cancelled"}
  BY <1>4 DEF LiveStatus
<1>6. run.steps[t[1]] = "running" /\ IsOpen(run.tools[t]) /\ EarlierOpen(run, t) = {}
  BY DEF CanFinishTool, NextTool
<1>7. \A u \in Calls : EarlierSlots(u) \subseteq Calls
  BY EarlierIs
<1>8. /\ run.tools[t].status # "absent" /\ run.tools[t].status \notin TerminalCall
      /\ o.status \notin {"absent", "running"} /\ ~IsOpen(next.tools[t])
  BY <1>2, <1>3, <1>6 DEF IsOpen, OpenCall, TerminalCall
<1>9. SettledInOrder(next)
  <2>1. \A u \in EarlierSlots(t) : run.tools[u].status \in TerminalCall
    BY <1>1, <1>6, <1>7, <1>8 DEF OutcomeInv, SettledInOrder, EarlierOpen, IsOpen, CallType
  <2> QED BY <1>2, <1>3, <1>7, <1>8, <2>1 DEF OutcomeInv, SettledInOrder
<1>10. ExclusiveAlone(next)
  <2>1. ASSUME NEW v \in Calls, next.tools[v].status = "running"
        PROVE  v # t /\ next.tools[v] = run.tools[v] /\ run.tools[v].status = "running"
    BY <1>2, <1>3, <1>8, <2>1
  <2>2. \A v \in Calls : \A u \in EarlierOpen(next, v) : u \in EarlierOpen(run, v) /\ next.tools[u] = run.tools[u]
    BY <1>2, <1>7, <1>8 DEF EarlierOpen
  <2> QED BY <1>2, <2>1, <2>2 DEF OutcomeInv, ExclusiveAlone
<1>11. CleanupFailureKept(next)
  BY <1>2, <1>3, <1>5, <1>6 DEF OutcomeInv, CleanupFailureKept
<1>12. CleanupAside(next)
  BY <1>2, <1>6, OpenCallAlone DEF CleanupAside
<1>13. StepsWhole(next) /\ CompletedIsWhole(next)
  BY <1>2, <1>3, <1>5, <1>8, WholeKept DEF OutcomeInv, CompletedIsWhole
<1>14. OutcomeInv(next)
  BY <1>9, <1>10, <1>11, <1>12, <1>13 DEF OutcomeInv
<1> QED BY <1>14 DEF next

\* A run that completes: the chain of steps ends in the one that answered.
LEMMA FinishRunWhole ==
  ASSUME NEW run, RunInv(run), OutcomeInv(run), Settled(run), HasFinalAnswer(run), NEW k \in Steps,
         run.steps[k] # "absent"
  PROVE  /\ run.steps[k] = "completed" /\ LastRequest(run, k).status = "succeeded"
         /\ IsLastStep(run, k) <=> LastRequest(run, k).calls = 0
         /\ \A i \in Slots : run.tools[<<k, i>>].status \in TerminalCall <=> i <= LastRequest(run, k).calls
<1>1. PICK m \in Steps : /\ IsLastStep(run, m) /\ run.steps[m] = "completed"
                         /\ LastRequest(run, m).calls = 0
  BY DEF HasFinalAnswer
<1>2. k = m \/ k < m
  <2>1. ~(m < k)
    BY <1>1 DEF OutcomeInv, StepsWhole
  <2> QED BY <2>1, BoundsAssumption DEF Steps
<1>3. ASSUME k < m
      PROVE  run.steps[k] = "completed" /\ LastRequest(run, k).calls > 0 /\ ~IsLastStep(run, k)
  <2>1. run.steps[k] = "completed" /\ LastRequest(run, k).calls > 0
    BY <1>1, <1>3 DEF OutcomeInv, StepsWhole
  <2>2. k < MaxStep /\ k + 1 \in Steps /\ (k + 1 = m \/ k + 1 < m)
    BY <1>3, BoundsAssumption DEF Steps
  <2>3. run.steps[k + 1] # "absent"
    BY <1>1, <2>2 DEF OutcomeInv, StepsWhole
  <2> QED BY <2>1, <2>2, <2>3 DEF IsLastStep
<1>4. run.steps[k] = "completed" /\ (IsLastStep(run, k) <=> LastRequest(run, k).calls = 0)
  <2>1. LastRequest(run, k).calls > 0 => LastRequest(run, k).calls # 0
    OBVIOUS
  <2> QED BY <1>1, <1>2, <1>3, <2>1
<1>5. LastRequest(run, k).status = "succeeded" /\ AllDeclaredCreated(run, k)
  BY <1>4 DEF OutcomeInv, StepsWhole
<1>6. ASSUME NEW i \in Slots
      PROVE  run.tools[<<k, i>>].status \in TerminalCall <=> i <= LastRequest(run, k).calls
  <2>1. <<k, i>> \in Calls /\ run.tools[<<k, i>>] \in CallType
    BY DEF Calls, RunInv, RunType
  <2>2. run.tools[<<k, i>>].status \in TerminalCall <=> run.tools[<<k, i>>].status # "absent"
    BY <2>1 DEF Settled, IsOpen, CallType, TerminalCall
  <2>3. run.tools[<<k, i>>].status # "absent" <=> i <= LastRequest(run, k).calls
    BY <1>5 DEF RunInv, RetryIsRecovery, AllDeclaredCreated
  <2> QED BY <2>2, <2>3
<1> QED BY <1>4, <1>5, <1>6

LEMMA FinishRunOutcome ==
  ASSUME NEW run, RunInv(run), OutcomeInv(run), NEW o, IsOutcome(o, TerminalStatus), CanFinishRun(run, o)
  PROVE  OutcomeInv(FinishRun(run, o))
<1> DEFINE next == FinishRun(run, o)
<1>1. /\ next.activeTools = run.activeTools /\ next.tools = run.tools /\ next.steps = run.steps
      /\ next.requests = run.requests /\ next.blockedReason = run.blockedReason
      /\ next.userMessage = run.userMessage /\ next.cancelRequested = run.cancelRequested
      /\ next.activeCompaction = run.activeCompaction /\ next.compaction = run.compaction
      /\ next.status = o.status
  BY DEF FinishRun, RunInv, RunType
<1> HIDE DEF next
<1>2. SettledInOrder(next) /\ ExclusiveAlone(next) /\ CleanupAside(next)
  BY <1>1 DEF OutcomeInv, SettledInOrder, ExclusiveAlone, EarlierOpen, CleanupAside
<1>3. CleanupFailureKept(next)
  BY <1>1 DEF OutcomeInv, CleanupFailureKept, CanFinishRun, NoReason
<1>4. StepsWhole(next)
  BY <1>1, WholeKept DEF OutcomeInv
<1>5. CompletedIsWhole(next)
  <2> SUFFICES ASSUME o.status = "completed" PROVE CompletedIsWhole(next)
    BY <1>1 DEF CompletedIsWhole
  <2>1. /\ Settled(run) /\ HasFinalAnswer(run)
        /\ run.userMessage /\ ~run.cancelRequested /\ run.blockedReason = NoReason
    BY DEF CanFinishRun
  <2>2. \A k \in Steps : LastRequest(next, k) = LastRequest(run, k) /\ (IsLastStep(next, k) <=> IsLastStep(run, k))
    BY <1>1 DEF LastRequest, LastAttempt, IsLastStep
  <2> QED BY <1>1, <2>1, <2>2, FinishRunWhole DEF CompletedIsWhole
<1>6. OutcomeInv(next)
  BY <1>2, <1>3, <1>4, <1>5 DEF OutcomeInv
<1> QED BY <1>6 DEF next
=============================================================================
