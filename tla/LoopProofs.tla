------------------------------- MODULE LoopProofs -------------------------------
(***************************************************************************)
(* Proofs about AgentLoop, for every number of steps, calls and workers,   *)
(* every set of faults and every behaviour of the user, the model, the     *)
(* tools, the clock and the shutdown.                                      *)
(*                                                                         *)
(* The run keeps what RunProofs shows of every event: the loop appends     *)
(* nothing the reducer would not accept from anybody.  What is added is    *)
(* the loop's own account: where it is while a worker lives, which worker  *)
(* owns which dispatched call, and what each call's body has done.         *)
(***************************************************************************)
EXTENDS AgentLoop, RunProofs, FiniteSetTheorems, WellFoundedInduction

(***************************************************************************)
(* Types.                                                                  *)
(***************************************************************************)
WorkerOutcomes ==
  {NoOutcome, Cancelled, Outcome("succeeded", "completed", "runner"),
   Outcome("failed", "failed", "runner"), Outcome("failed", "cleanup_failed", "runner")}

LoopType ==
  /\ effects \in [Calls -> 0..1]
  /\ worker \in [Slots -> [at : WorkerPoints, out : WorkerOutcomes]]
  /\ pc \in Points
  /\ answer.status \in {"none", "succeeded", "failed", "cancelled"} /\ answer.calls \in 0..MaxCall
  /\ answer.status # "succeeded" => answer.calls = 0
  /\ next \in 1..(MaxCall + 1)
  /\ goal.status \in TerminalStatus

(***************************************************************************)
(* Where the loop is tells what the run has open.                          *)
(***************************************************************************)
BetweenSteps == {"top", "compact", "summarizing", "compactionAnswered", "afterCompact", "openStep"}
InRequest    == {"launch", "reading", "answered", "record"}
InTools      == {"pool", "waitStart", "await"}
InStep       == {"request", "recorded", "prepare", "create", "starve", "tooled", "closeStep"} \cup InRequest \cup InTools
\* Before the first worker of a step is launched.
Unlaunched   == BetweenSteps \cup InRequest \cup {"request", "recorded", "prepare", "create"}

Placed ==
  /\ pc \in InStep => run.activeStep # 0
  /\ pc \in InRequest => run.activeRequest # NoRequest
  /\ pc \in {"answered", "record"} => answer.status # "none"
  /\ pc \in BetweenSteps => run.activeStep # 0 \/ NextStep <= MaxStep
  /\ pc = "stepClosed" => run.activeStep = 0
  /\ pc \in {"cancel", "sweep", "sweeping"} => run.cancelRequested
  /\ pc = "create" => next <= MaxCall
  /\ pc \in {"waitStart", "await", "sweeping"} => next > 1

(***************************************************************************)
(* Which worker owns which call.  Driven: between the dispatch and the     *)
(* result.                                                                 *)
(***************************************************************************)
Driven == {"before", "effect", "body", "commit", "finish"}

\* A worker lives only while the loop waits for it, or after a shutdown threw the loop out.
BusyWhere ==
  \A i \in Slots : Busy(i) =>
    /\ run.activeStep # 0
    /\ \/ pc \in InTools \cup {"sweeping"}
       \/ pc \in {"catch", "ended"} /\ error = "service_stopped" /\ control = "stopped"

Launched ==
  /\ pc \in Unlaunched => \A i \in Slots : worker[i].at = "idle"
  /\ pc \in InTools => \A i \in Slots : i >= next => worker[i].at = "idle"
  /\ pc \in {"await", "sweeping"} => \A i \in Slots : Busy(i) => i = next - 1

\* A dispatched call without a result has a worker, or one that failed and said with which outcome, or the service stops.
Owned ==
  /\ \A i \in Slots : worker[i].at \in Driven => CallAt(i) \in run.activeTools
  /\ \A i \in Slots : worker[i].at \in {"commit", "finish"} => worker[i].out # NoOutcome
  /\ \A i \in Slots : worker[i].at = "cancel" => run.cancelRequested
  /\ \A t \in run.activeTools :
       \/ worker[t[2]].at \in Driven
       \/ worker[t[2]].at = "failed" /\ worker[t[2]].out # NoOutcome
       \/ Stopped
  /\ failure = "none" => \A t \in run.activeTools : worker[t[2]].at \in Driven

\* The slots that hold a place in the pool, or a dispatched call whose worker failed.
Held == {i \in Slots : Busy(i) \/ \E t \in run.activeTools : t[2] = i}

HeldBound == Cardinality(Held) <= MaxParallel

(***************************************************************************)
(* What a call's body has done.                                            *)
(***************************************************************************)
CallsKnown ==
  /\ \A t \in Calls : effects[t] # 0 => run.tools[t].started /\ run.tools[t].status # "absent"
  /\ \A t \in Calls : IsOpen(run.tools[t]) => (run.tools[t].started <=> run.tools[t].status = "running")
  /\ \A t \in Calls : run.tools[t].status = "absent" => run.approvals[t] = "absent"

BodiesKnown ==
  /\ \A i \in Slots : worker[i].at \in {"before", "effect"} => effects[CallAt(i)] = 0
  /\ \A i \in Slots : worker[i].at = "body" => effects[CallAt(i)] = 1
  /\ \A i \in Slots : worker[i].at \in {"commit", "finish"} /\ worker[i].out.status = "succeeded" =>
       effects[CallAt(i)] = 1

RunKept == RunInv(run) /\ OutcomeInv(run)

LoopInv ==
  /\ RunKept /\ LoopType /\ Placed
  /\ BusyWhere /\ Launched /\ Owned /\ HeldBound
  /\ CallsKnown /\ BodiesKnown

-----------------------------------------------------------------------------
(***************************************************************************)
(* What an append does to the calls: most leave them alone, the others     *)
(* move one.                                                               *)
(***************************************************************************)
SameCalls(r, n) ==
  /\ n.activeStep = r.activeStep /\ n.steps = r.steps
  /\ n.activeTools = r.activeTools /\ n.tools = r.tools /\ n.approvals = r.approvals
  /\ r.cancelRequested => n.cancelRequested

\* All but call t stays.
OtherCalls(r, n, t) ==
  /\ n.activeStep = r.activeStep /\ n.steps = r.steps /\ n.activeRequest = r.activeRequest
  /\ n.cancelRequested = r.cancelRequested
  /\ \A u \in Calls : u # t => n.tools[u] = r.tools[u] /\ n.approvals[u] = r.approvals[u]
  /\ n.tools[t].gated = r.tools[t].gated /\ n.tools[t].mode = r.tools[t].mode

CallCreated(r, n, t, gated, mode) ==
  /\ n.activeStep = r.activeStep /\ n.steps = r.steps /\ n.activeRequest = r.activeRequest
  /\ n.cancelRequested = r.cancelRequested /\ n.activeTools = r.activeTools /\ n.approvals = r.approvals
  /\ n.tools = [r.tools EXCEPT ![t] = [status |-> "created", reason |-> NoReason, started |-> FALSE,
                                       gated |-> gated, mode |-> mode]]

CallAsked(r, n, t) ==
  /\ OtherCalls(r, n, t)
  /\ n.activeTools = r.activeTools
  /\ n.tools[t].status = "waiting_for_approval" /\ n.tools[t].started = r.tools[t].started
  /\ n.approvals[t] = "pending"

CallDecided(r, n, t, d) ==
  /\ OtherCalls(r, n, t)
  /\ n.activeTools = r.activeTools
  /\ n.tools[t].status = (IF d = "allowed" THEN "created" ELSE r.tools[t].status)
  /\ n.tools[t].started = r.tools[t].started
  /\ n.approvals[t] = d

CallStarted(r, n, t) ==
  /\ OtherCalls(r, n, t)
  /\ n.activeTools = r.activeTools \cup {t}
  /\ n.tools[t].status = "running" /\ n.tools[t].started
  /\ n.approvals[t] = r.approvals[t]

CallSettled(r, n, t, status) ==
  /\ OtherCalls(r, n, t)
  /\ n.activeTools = r.activeTools \ {t}
  /\ n.tools[t].status = status /\ n.tools[t].started = r.tools[t].started
  /\ \/ n.approvals[t] = r.approvals[t]
     \/ r.approvals[t] = "pending" /\ n.approvals[t] \in {"cancelled", "expired"}

\* The events that are not about a call.
LEMMA QuietEvents ==
  ASSUME NEW r, RunInv(r)
  PROVE  /\ SameCalls(r, AdmitMessage(r)) /\ SameCalls(r, RequestCancel(r))
         /\ RequestCancel(r).activeRequest = r.activeRequest
         /\ SameCalls(r, SucceedCompaction(r)) /\ SameCalls(r, FailCompaction(r))
         /\ \A trigger : SameCalls(r, StartCompaction(r, trigger))
         /\ \A k, a : SameCalls(r, StartRequest(r, k, a)) /\ StartRequest(r, k, a).activeRequest = <<k, a>>
         /\ \A q : SameCalls(r, RecordDelta(r, q)) /\ RecordDelta(r, q).activeRequest = r.activeRequest
         /\ \A q, o, n : SameCalls(r, FinishRequest(r, q, o, n))
<1>1. r \in RunType
  BY DEF RunInv
<1>2. SameCalls(r, AdmitMessage(r)) /\ SameCalls(r, RequestCancel(r)) /\ RequestCancel(r).activeRequest = r.activeRequest
  BY <1>1 DEF SameCalls, AdmitMessage, RequestCancel, Refresh, RunType
<1>3. SameCalls(r, SucceedCompaction(r)) /\ SameCalls(r, FailCompaction(r))
  BY <1>1 DEF SameCalls, SucceedCompaction, FailCompaction, Refresh, RunType
<1>4. \A trigger : SameCalls(r, StartCompaction(r, trigger))
  BY <1>1 DEF SameCalls, StartCompaction, Refresh, RunType
<1>5. \A k, a : SameCalls(r, StartRequest(r, k, a)) /\ StartRequest(r, k, a).activeRequest = <<k, a>>
  BY <1>1 DEF SameCalls, StartRequest, Refresh, RunType
<1>6. \A q : SameCalls(r, RecordDelta(r, q)) /\ RecordDelta(r, q).activeRequest = r.activeRequest
  BY <1>1 DEF SameCalls, RecordDelta, Refresh, RunType
<1>7. \A q, o, n : SameCalls(r, FinishRequest(r, q, o, n))
  BY <1>1 DEF SameCalls, FinishRequest, Refresh, RunType
<1> QED BY <1>2, <1>3, <1>4, <1>5, <1>6, <1>7

LEMMA CreatedEvent ==
  ASSUME NEW r, RunInv(r), NEW t \in Calls, NEW gated, NEW mode
  PROVE  CallCreated(r, CreateCall(r, t, gated, mode), t, gated, mode)
BY DEF CallCreated, CreateCall, Refresh, RunInv, RunType

LEMMA AskedEvent ==
  ASSUME NEW r, RunInv(r), NEW t \in Calls
  PROVE  CallAsked(r, RequestApproval(r, t), t)
<1> DEFINE n == RequestApproval(r, t)
           call == [r.tools[t] EXCEPT !.status = "waiting_for_approval"]
<1>1. r \in RunType /\ r.tools[t] \in CallType
  BY DEF RunInv, RunType
<1>2. /\ n.activeStep = r.activeStep /\ n.steps = r.steps /\ n.activeRequest = r.activeRequest
      /\ n.cancelRequested = r.cancelRequested /\ n.activeTools = r.activeTools
      /\ n.tools = [r.tools EXCEPT ![t] = call] /\ n.approvals = [r.approvals EXCEPT ![t] = "pending"]
  BY <1>1 DEF RequestApproval, Refresh, RunType
<1>3. /\ call.status = "waiting_for_approval" /\ call.started = r.tools[t].started
      /\ call.gated = r.tools[t].gated /\ call.mode = r.tools[t].mode
  BY <1>1 DEF CallType
<1> HIDE DEF n, call
<1>4. n.tools[t] = call /\ n.approvals[t] = "pending"
      /\ \A u \in Calls : u # t => n.tools[u] = r.tools[u] /\ n.approvals[u] = r.approvals[u]
  BY <1>1, <1>2 DEF RunType
<1>5. CallAsked(r, n, t)
  BY <1>2, <1>3, <1>4 DEF CallAsked, OtherCalls
<1> QED BY <1>5 DEF n

LEMMA DecidedEvent ==
  ASSUME NEW r, RunInv(r), NEW t \in Calls, NEW d
  PROVE  CallDecided(r, ResolveApproval(r, t, d), t, d)
<1> DEFINE n == ResolveApproval(r, t, d)
           call == IF d = "allowed" THEN [r.tools[t] EXCEPT !.status = "created"] ELSE r.tools[t]
<1>1. r \in RunType /\ r.tools[t] \in CallType
  BY DEF RunInv, RunType
<1>2. /\ n.activeStep = r.activeStep /\ n.steps = r.steps /\ n.activeRequest = r.activeRequest
      /\ n.cancelRequested = r.cancelRequested /\ n.activeTools = r.activeTools
      /\ n.tools = [r.tools EXCEPT ![t] = call] /\ n.approvals = [r.approvals EXCEPT ![t] = d]
  BY <1>1 DEF ResolveApproval, Refresh, RunType
<1>3. /\ call.status = (IF d = "allowed" THEN "created" ELSE r.tools[t].status)
      /\ call.started = r.tools[t].started
      /\ call.gated = r.tools[t].gated /\ call.mode = r.tools[t].mode
  BY <1>1 DEF CallType
<1> HIDE DEF n, call
<1>4. n.tools[t] = call /\ n.approvals[t] = d
      /\ \A u \in Calls : u # t => n.tools[u] = r.tools[u] /\ n.approvals[u] = r.approvals[u]
  BY <1>1, <1>2 DEF RunType
<1>5. CallDecided(r, n, t, d)
  BY <1>2, <1>3, <1>4 DEF CallDecided, OtherCalls
<1> QED BY <1>5 DEF n

LEMMA StartedEvent ==
  ASSUME NEW r, RunInv(r), NEW t \in Calls
  PROVE  CallStarted(r, StartTool(r, t), t)
<1> DEFINE n == StartTool(r, t)
           call == [r.tools[t] EXCEPT !.status = "running", !.started = TRUE]
<1>1. r \in RunType /\ r.tools[t] \in CallType
  BY DEF RunInv, RunType
<1>2. /\ n.activeStep = r.activeStep /\ n.steps = r.steps /\ n.activeRequest = r.activeRequest
      /\ n.cancelRequested = r.cancelRequested /\ n.activeTools = r.activeTools \cup {t}
      /\ n.tools = [r.tools EXCEPT ![t] = call] /\ n.approvals = r.approvals
  BY <1>1 DEF StartTool, Refresh, RunType
<1>3. /\ call.status = "running" /\ call.started
      /\ call.gated = r.tools[t].gated /\ call.mode = r.tools[t].mode
  BY <1>1 DEF CallType
<1> HIDE DEF n, call
<1>4. n.tools[t] = call /\ \A u \in Calls : u # t => n.tools[u] = r.tools[u]
  BY <1>1, <1>2 DEF RunType
<1>5. CallStarted(r, n, t)
  BY <1>2, <1>3, <1>4 DEF CallStarted, OtherCalls
<1> QED BY <1>5 DEF n

LEMMA SettledEvent ==
  ASSUME NEW r, RunInv(r), NEW t \in Calls, NEW o
  PROVE  CallSettled(r, FinishTool(r, t, o), t, o.status)
<1> DEFINE n == FinishTool(r, t, o)
           call == [r.tools[t] EXCEPT !.status = o.status, !.reason = o.reason]
<1>1. r \in RunType /\ r.tools[t] \in CallType
  BY DEF RunInv, RunType
<1>2. /\ n.activeStep = r.activeStep /\ n.steps = r.steps /\ n.activeRequest = r.activeRequest
      /\ n.cancelRequested = r.cancelRequested /\ n.activeTools = r.activeTools \ {t}
      /\ n.tools = [r.tools EXCEPT ![t] = call] /\ n.approvals = r.approvals
  BY <1>1 DEF FinishTool, Refresh, RunType
<1>3. /\ call.status = o.status /\ call.started = r.tools[t].started
      /\ call.gated = r.tools[t].gated /\ call.mode = r.tools[t].mode
  BY <1>1 DEF CallType
<1> HIDE DEF n, call
<1>4. n.tools[t] = call /\ \A u \in Calls : u # t => n.tools[u] = r.tools[u]
  BY <1>1, <1>2 DEF RunType
<1>5. CallSettled(r, n, t, o.status)
  BY <1>2, <1>3, <1>4 DEF CallSettled, OtherCalls
<1> QED BY <1>5 DEF n

LEMMA StepEvents ==
  ASSUME NEW r, RunInv(r), NEW k \in Steps, NEW o
  PROVE  /\ StartStep(r, k).activeStep = k /\ StartStep(r, k).activeTools = r.activeTools
         /\ StartStep(r, k).tools = r.tools /\ StartStep(r, k).approvals = r.approvals
         /\ StartStep(r, k).cancelRequested = r.cancelRequested
         /\ FinishStep(r, k, o).activeStep = 0 /\ FinishStep(r, k, o).activeTools = r.activeTools
         /\ FinishStep(r, k, o).tools = r.tools /\ FinishStep(r, k, o).approvals = r.approvals
         /\ FinishStep(r, k, o).cancelRequested = r.cancelRequested
         /\ SameCalls(r, FinishRun(r, o))
<1>1. r \in RunType
  BY DEF RunInv
<1>2. /\ StartStep(r, k).activeStep = k /\ StartStep(r, k).activeTools = r.activeTools
      /\ StartStep(r, k).tools = r.tools /\ StartStep(r, k).approvals = r.approvals
      /\ StartStep(r, k).cancelRequested = r.cancelRequested
  BY <1>1 DEF StartStep, Refresh, RunType
<1>3. /\ FinishStep(r, k, o).activeStep = 0 /\ FinishStep(r, k, o).activeTools = r.activeTools
      /\ FinishStep(r, k, o).tools = r.tools /\ FinishStep(r, k, o).approvals = r.approvals
      /\ FinishStep(r, k, o).cancelRequested = r.cancelRequested
  BY <1>1 DEF FinishStep, Refresh, RunType
<1>4. SameCalls(r, FinishRun(r, o))
  BY <1>1 DEF SameCalls, FinishRun, RunType
<1> QED BY <1>2, <1>3, <1>4

\* An outcome the reducer accepts carries one of the reducer's reasons.
LEMMA AcceptedOutcome ==
  ASSUME NEW r, NEW o, TerminalSemantics(r, o),
         o.status \in {"completed", "succeeded", "failed", "cancelled", "interrupted"}
  PROVE  o.reason \in Reasons
BY DEF TerminalSemantics, Reasons

-----------------------------------------------------------------------------
(***************************************************************************)
(* What the parts of the invariant say together.                           *)
(***************************************************************************)
\* A running call is a call of the open step.
LEMMA ActiveCall ==
  ASSUME RunKept, NEW t \in run.activeTools
  PROVE  /\ t \in Calls /\ t[2] \in Slots /\ t = CallAt(t[2]) /\ run.activeStep \in Steps
         /\ run.tools[t].status = "running" /\ IsOpen(run.tools[t])
<1>1. t \in Calls /\ run.tools[t].status = "running"
  BY DEF RunKept, RunInv, RunType, ActiveSetsAgree
<1>2. IsOpen(run.tools[t])
  BY <1>1 DEF IsOpen, OpenCall
<1>3. t[1] = run.activeStep
  BY <1>1, <1>2 DEF RunKept, RunInv, ActiveSetsAgree
<1> QED BY <1>1, <1>2, <1>3 DEF Calls, CallAt

LEMMA OpenStepIs ==
  ASSUME RunKept, run.activeStep # 0
  PROVE  run.activeStep \in Steps /\ \A i \in Slots : CallAt(i) \in Calls /\ CallAt(i)[1] = run.activeStep /\ CallAt(i)[2] = i
<1>1. run.activeStep \in Steps
  BY BoundsAssumption DEF RunKept, RunInv, RunType, Steps
<1> QED BY <1>1 DEF CallAt, Calls

LEMMA SameSteps ==
  ASSUME run'.steps = run.steps
  PROVE  NextStep' = NextStep
<1>1. OpenSteps' = OpenSteps
  BY DEF OpenSteps
<1> QED BY <1>1 DEF NextStep

LEMMA FiniteSlots ==
  IsFiniteSet(Slots)
BY FS_Interval, BoundsAssumption DEF Slots

LEMMA HeldSmaller ==
  ASSUME HeldBound, Held' \subseteq Held
  PROVE  HeldBound'
<1>1. IsFiniteSet(Held)
  BY FiniteSlots, FS_Subset DEF Held
<1>2. Cardinality(Held) \in Nat /\ Cardinality(Held') \in Nat /\ Cardinality(Held') <= Cardinality(Held)
  BY <1>1, FS_Subset, FS_CardinalityType
<1>3. MaxParallel \in Nat
  BY ParallelAssumption
<1> HIDE DEF Held
<1> QED BY <1>2, <1>3 DEF HeldBound

\* Nobody is busy where the loop is not waiting for anybody.
LEMMA NobodyBusy ==
  ASSUME LoopInv, pc \notin InTools \cup {"sweeping", "catch", "ended"}
  PROVE  \A i \in Slots : ~Busy(i)
BY DEF LoopInv, BusyWhere

-----------------------------------------------------------------------------
(***************************************************************************)
(* A step of the loop or of the environment, with what the ledger sees.    *)
(***************************************************************************)
\* The calls read the same.
SameCallFacts == run'.tools = run.tools /\ run'.approvals = run.approvals /\ effects' = effects

\* Nobody is busy: the workers and what they left stay.
LEMMA RestStep ==
  ASSUME LoopInv, RunKept', LoopType', Placed', CallsKnown',
         run'.activeTools \subseteq run.activeTools, UNCHANGED <<worker, failure>>, Stopped => Stopped',
         \A i \in Slots : ~Busy(i),
         pc' \in Unlaunched \cup InTools => pc \in Unlaunched
  PROVE  LoopInv'
<1>1. BusyWhere'
  BY DEF BusyWhere, Busy
<1>2. Launched'
  BY DEF LoopInv, Launched, Busy
<1>3. \A i \in Slots : worker[i].at \in {"idle", "done", "failed"}
  BY DEF Busy
<1>4. Owned'
  <2>1. \A t \in run.activeTools : t[2] \in Slots
    BY ActiveCall DEF LoopInv
  <2>2. \A t \in run.activeTools : (worker[t[2]].at = "failed" /\ worker[t[2]].out # NoOutcome) \/ Stopped
    BY <1>3, <2>1 DEF LoopInv, Owned, Driven
  <2>3. failure = "none" => run.activeTools = {}
    BY <1>3, <2>1 DEF LoopInv, Owned, Driven
  <2> QED BY <1>3, <2>2, <2>3 DEF Owned, Driven
<1>5. HeldBound'
  <2>1. Held' \subseteq Held
    BY DEF Held, Busy
  <2> QED BY <2>1, HeldSmaller DEF LoopInv
<1>6. BodiesKnown'
  BY <1>3 DEF BodiesKnown
<1> QED BY <1>1, <1>2, <1>4, <1>5, <1>6 DEF LoopInv

LEMMA SameKnown ==
  ASSUME LoopInv, SameCallFacts
  PROVE  CallsKnown'
BY DEF LoopInv, SameCallFacts, CallsKnown

\* Only the loop's place changes.
LEMMA PlaceStep ==
  ASSUME LoopInv, UNCHANGED toolVars, LoopType', Placed', BusyWhere', Launched'
  PROVE  LoopInv'
<1>1. Owned' /\ HeldBound'
  BY DEF LoopInv, toolVars, Owned, HeldBound, Held, Busy, CallAt, Stopped
<1>2. RunKept' /\ CallsKnown' /\ BodiesKnown'
  BY DEF LoopInv, toolVars, RunKept, CallsKnown, BodiesKnown, CallAt
<1> QED BY <1>1, <1>2 DEF LoopInv

LEMMA RestPlace ==
  ASSUME LoopInv, UNCHANGED toolVars, LoopType', Placed',
         \A i \in Slots : ~Busy(i),
         pc' \in Unlaunched \cup InTools => pc \in Unlaunched
  PROVE  LoopInv'
<1>1. BusyWhere' /\ Launched'
  BY DEF LoopInv, toolVars, BusyWhere, Launched, Busy
<1> QED BY <1>1, PlaceStep

\* Everybody else: the loop and its workers stand still.
LEMMA AsideStep ==
  ASSUME LoopInv, RunKept', CallsKnown',
         run'.activeStep = run.activeStep, run'.steps = run.steps, run'.activeRequest = run.activeRequest,
         run'.activeTools = run.activeTools, run.cancelRequested => run'.cancelRequested,
         UNCHANGED <<effects, worker, failure, loopVars>>,
         Stopped => Stopped', control = "stopped" => control' = "stopped"
  PROVE  LoopInv'
<1>1. LoopType'
  BY DEF LoopInv, LoopType, loopVars
<1>2. Placed'
  BY SameSteps DEF LoopInv, Placed, loopVars
<1>3. BusyWhere' /\ Launched'
  BY DEF LoopInv, BusyWhere, Launched, Busy, loopVars
<1>4. Owned'
  BY DEF LoopInv, Owned, CallAt, loopVars
<1>5. HeldBound'
  <2>1. Held' \subseteq Held
    BY DEF Held, Busy
  <2> QED BY <2>1, HeldSmaller DEF LoopInv
<1>6. BodiesKnown'
  BY DEF LoopInv, BodiesKnown, CallAt
<1> QED BY <1>1, <1>2, <1>3, <1>4, <1>5, <1>6 DEF LoopInv

(***************************************************************************)
(* The loop's steps that append nothing.                                   *)
(***************************************************************************)
\* Where an error or an end leads.
LEMMA Leaving ==
  ASSUME LoopInv, pc' \in {"catch", "ended", "finish"}, goal'.status \in TerminalStatus,
         UNCHANGED <<answer, next>>, effects' \in [Calls -> 0..1], UNCHANGED worker
  PROVE  LoopType' /\ Placed'
BY DEF LoopInv, LoopType, Placed, Points, InStep, InRequest, InTools, BetweenSteps

\* What an error or an end leaves of the loop's account.
LEMMA Thrown ==
  ASSUME NEW code, Throw(code)
  PROVE  pc' \in {"catch", "ended"} /\ error' = code /\ UNCHANGED <<answer, next, goal>>
BY DEF Throw

LEMMA Closed ==
  ASSUME NEW outcome, CloseWith(outcome)
  PROVE  pc' = "finish" /\ goal' = outcome /\ UNCHANGED <<answer, next>>
BY DEF CloseWith

\* A loop that nobody works for may leave, or close with an outcome.
LEMMA RestThrow ==
  ASSUME LoopInv, UNCHANGED toolVars, NEW code, Throw(code), \A i \in Slots : ~Busy(i)
  PROVE  LoopInv'
<1>1. pc' \in {"catch", "ended"} /\ UNCHANGED <<answer, next, goal>>
  BY Thrown
<1>2. LoopType' /\ Placed'
  BY <1>1, Leaving DEF LoopInv, LoopType, toolVars
<1> QED BY <1>1, <1>2, RestPlace DEF Unlaunched, BetweenSteps, InRequest, InTools

LEMMA RestClose ==
  ASSUME LoopInv, UNCHANGED toolVars, NEW outcome, CloseWith(outcome), outcome.status \in TerminalStatus,
         \A i \in Slots : ~Busy(i)
  PROVE  LoopInv'
<1>1. pc' = "finish" /\ goal' = outcome /\ UNCHANGED <<answer, next>>
  BY Closed
<1>2. LoopType' /\ Placed'
  BY <1>1, Leaving DEF LoopInv, LoopType, toolVars
<1> QED BY <1>1, <1>2, RestPlace DEF Unlaunched, BetweenSteps, InRequest, InTools

\* A jump of a loop that nobody works for.
LEMMA RestGoto ==
  ASSUME LoopInv, UNCHANGED toolVars, NEW p \in Points, GotoLoop(p), Placed', \A i \in Slots : ~Busy(i),
         p \in Unlaunched \cup InTools => pc \in Unlaunched
  PROVE  LoopInv'
<1>1. pc' = p /\ UNCHANGED <<answer, next, goal>>
  BY DEF GotoLoop, Stay
<1>2. LoopType'
  BY <1>1 DEF LoopInv, LoopType, toolVars
<1> QED BY <1>1, <1>2, RestPlace

LEMMA SameNextStep ==
  ASSUME UNCHANGED toolVars
  PROVE  NextStep' = NextStep
BY SameSteps DEF toolVars

LEMMA OutcomesAre ==
  /\ Completed.status = "completed" /\ Completed.reason = "completed" /\ Completed.origin = "runner"
  /\ Cancelled.status = "cancelled" /\ Cancelled.reason = "cancel_requested" /\ Cancelled.origin = "runner"
  /\ \A reason : Failed(reason).status = "failed" /\ Failed(reason).reason = reason /\ Failed(reason).origin = "runner"
BY DEF Completed, Cancelled, Failed, Outcome

LEMMA HaltStep ==
  ASSUME LoopInv, Halt
  PROVE  LoopInv'
<1>1. UNCHANGED toolVars /\ Throw("service_stopped") /\ LoopStopped
  BY DEF Halt
<1>2. CASE pc # "waitStart"
  <2>1. \A i \in Slots : ~Busy(i)
    BY <1>2, NobodyBusy DEF Halt, InTools
  <2> QED BY <1>1, <2>1, RestThrow
<1>3. CASE pc = "waitStart"
  <2>1. pc' \in {"catch", "ended"} /\ error' = "service_stopped" /\ UNCHANGED <<answer, next, goal>>
    BY <1>1, Thrown
  <2>2. LoopType' /\ Placed'
    BY <1>1, <2>1, Leaving DEF LoopInv, LoopType, toolVars
  <2>3. BusyWhere'
    BY <1>1, <2>1 DEF LoopInv, BusyWhere, toolVars, Busy, LoopStopped
  <2>4. Launched'
    BY <2>1 DEF Launched, Unlaunched, BetweenSteps, InRequest, InTools
  <2> QED BY <1>1, <2>2, <2>3, <2>4, PlaceStep
<1> QED BY <1>2, <1>3

LEMMA TopStep ==
  ASSUME LoopInv, Top
  PROVE  LoopInv'
<1>1. UNCHANGED toolVars /\ \A i \in Slots : ~Busy(i)
  BY NobodyBusy DEF Top, InTools
<1>2. PICK p \in {"cancel", "openStep", "compact"} : GotoLoop(p) /\ (p = "cancel" => run.cancelRequested)
  BY DEF Top
<1>3. Placed'
  BY <1>1, <1>2, SameNextStep DEF LoopInv, Top, GotoLoop, Placed, toolVars, InStep, InRequest, InTools, BetweenSteps
<1> QED BY <1>1, <1>2, <1>3, RestGoto DEF Top, Points, Unlaunched, BetweenSteps

LEMMA SummarizeStep ==
  ASSUME LoopInv, Summarize
  PROVE  LoopInv'
<1>1. UNCHANGED toolVars /\ \A i \in Slots : ~Busy(i)
  BY NobodyBusy DEF Summarize, InTools
<1>2. CASE pc' = "compactionAnswered" /\ UNCHANGED <<answer, next, goal>>
  <2>1. LoopType'
    BY <1>1, <1>2 DEF LoopInv, LoopType, toolVars, Points
  <2>2. Placed'
    BY <1>1, <1>2, SameNextStep DEF LoopInv, Summarize, Placed, toolVars, InStep, InRequest, InTools, BetweenSteps
  <2> QED BY <1>1, <1>2, <2>1, <2>2, RestPlace DEF Summarize, Unlaunched, BetweenSteps
<1>3. CASE \E code : Throw(code)
  BY <1>1, <1>3, RestThrow
<1> QED BY <1>2, <1>3 DEF Summarize

LEMMA AfterCompactStep ==
  ASSUME LoopInv, AfterCompact
  PROVE  LoopInv'
<1>1. UNCHANGED toolVars /\ (\A i \in Slots : ~Busy(i)) /\ pc = "afterCompact"
  BY NobodyBusy DEF AfterCompact, InTools
<1>2. CASE \E reason : CloseWith(Failed(reason))
  BY <1>1, <1>2, RestClose, OutcomesAre DEF TerminalStatus
<1>3. CASE \E p \in {"cancel", "openStep", "request"} :
             GotoLoop(p) /\ (p = "cancel" => run.cancelRequested) /\ (p = "request" => run.activeStep # 0)
  <2>1. PICK p \in {"cancel", "openStep", "request"} :
             GotoLoop(p) /\ (p = "cancel" => run.cancelRequested) /\ (p = "request" => run.activeStep # 0)
    BY <1>3
  <2>2. Placed'
    BY <1>1, <2>1, SameNextStep DEF LoopInv, GotoLoop, Placed, toolVars, InStep, InRequest, InTools, BetweenSteps
  <2> QED BY <1>1, <2>1, <2>2, RestGoto DEF Points, Unlaunched, BetweenSteps
<1> QED BY <1>2, <1>3 DEF AfterCompact

LEMMA TooLargeStep ==
  ASSUME LoopInv, TooLarge
  PROVE  LoopInv'
<1>1. UNCHANGED toolVars /\ (\A i \in Slots : ~Busy(i)) /\ CloseWith(Failed("limit_exceeded"))
  BY NobodyBusy DEF TooLarge, InTools
<1> QED BY <1>1, RestClose, OutcomesAre DEF TerminalStatus

\* An answer arrives, or is replaced.
LEMMA AnswerArrives ==
  ASSUME LoopInv, UNCHANGED toolVars, pc \in {"reading", "answered"}, pc' \in {"answered", "record"},
         answer'.status \in {"succeeded", "failed", "cancelled"}, answer'.calls \in 0..MaxCall,
         answer'.status # "succeeded" => answer'.calls = 0, UNCHANGED <<next, goal>>
  PROVE  LoopInv'
<1>1. \A i \in Slots : ~Busy(i)
  BY NobodyBusy DEF InTools
<1>2. LoopType'
  BY DEF LoopInv, LoopType, toolVars, Points
<1>3. Placed'
  BY DEF LoopInv, Placed, toolVars, InStep, InRequest, InTools, BetweenSteps
<1> QED BY <1>1, <1>2, <1>3, RestPlace DEF Unlaunched, InRequest

LEMMA ReadingStep ==
  ASSUME LoopInv, Reading
  PROVE  LoopInv'
<1>1. UNCHANGED toolVars /\ (\A i \in Slots : ~Busy(i)) /\ pc = "reading"
  BY NobodyBusy DEF Reading, InTools
<1>2. CASE \E code : Throw(code)
  BY <1>1, <1>2, RestThrow
<1>3. ASSUME NEW status \in {"succeeded", "failed", "cancelled"}, NEW reason, NEW calls \in 0..MaxCall,
             Answered(Answer(status, reason, calls)), status # "succeeded" => calls = 0
      PROVE  LoopInv'
  <2>1. answer'.status = status /\ answer'.calls = calls /\ pc' = "answered" /\ UNCHANGED <<next, goal>>
    BY <1>3 DEF Answered, Answer
  <2> QED BY <1>1, <1>3, <2>1, AnswerArrives
<1>4. 0 \in 0..MaxCall
  BY BoundsAssumption
<1>5. CASE \E n \in 0..MaxCall : Answered(Answer("succeeded", "completed", n))
  BY <1>3, <1>5
<1>6. CASE \E reason \in ModelFailures : Answered(Answer("failed", reason, 0))
  BY <1>3, <1>4, <1>6
<1>7. CASE Answered(Answer("cancelled", "cancel_requested", 0))
  BY <1>3, <1>4, <1>7
<1> QED BY <1>2, <1>5, <1>6, <1>7 DEF Reading

LEMMA CheckAnswerStep ==
  ASSUME LoopInv, CheckAnswer
  PROVE  LoopInv'
<1>1. UNCHANGED toolVars /\ pc = "answered" /\ pc' = "record" /\ UNCHANGED <<next, goal>>
  BY DEF CheckAnswer
<1>2. 0 \in 0..MaxCall
  BY BoundsAssumption
<1>3. /\ answer.status \in {"succeeded", "failed", "cancelled"} /\ answer.calls \in 0..MaxCall
      /\ answer.status # "succeeded" => answer.calls = 0
  BY <1>1 DEF LoopInv, LoopType, Placed
<1>4. /\ answer'.status \in {"succeeded", "failed", "cancelled"} /\ answer'.calls \in 0..MaxCall
      /\ answer'.status # "succeeded" => answer'.calls = 0
  BY <1>2, <1>3 DEF CheckAnswer, Answer
<1> QED BY <1>1, <1>4, AnswerArrives

LEMMA RecordedStep ==
  ASSUME LoopInv, Recorded
  PROVE  LoopInv'
<1>1. UNCHANGED toolVars /\ (\A i \in Slots : ~Busy(i)) /\ pc = "recorded" /\ run.activeStep # 0
  BY NobodyBusy DEF Recorded, InTools, LoopInv, Placed, InStep
<1>2. CASE \E outcome : CloseWith(outcome) /\ outcome.status \in TerminalStatus
  BY <1>1, <1>2, RestClose
<1>3. CASE GotoLoop("compact")
  <2>1. Placed'
    BY <1>1, <1>3, SameNextStep DEF LoopInv, GotoLoop, Placed, toolVars, InStep, InRequest, InTools, BetweenSteps
  <2> QED BY <1>1, <1>3, <2>1, RestGoto DEF Points, Unlaunched, BetweenSteps
<1>4. CASE pc' = "prepare" /\ next' = 1 /\ UNCHANGED <<answer, goal>>
  <2>1. LoopType'
    BY <1>1, <1>4, BoundsAssumption DEF LoopInv, LoopType, toolVars, Points
  <2>2. Placed'
    BY <1>1, <1>4, SameNextStep DEF LoopInv, Placed, toolVars, InStep, InRequest, InTools, BetweenSteps
  <2> QED BY <1>1, <1>4, <2>1, <2>2, RestPlace DEF Unlaunched, BetweenSteps
<1>5. Completed.status \in TerminalStatus
      /\ \A reason : /\ Outcome("cancelled", reason, "runner").status \in TerminalStatus
                     /\ Outcome("failed", reason, "runner").status \in TerminalStatus
  BY DEF Completed, Outcome, TerminalStatus
<1>6. CASE CloseWith(Outcome(IF answer.status = "cancelled" THEN "cancelled" ELSE "failed", answer.reason, "runner"))
  <2>1. CASE answer.status = "cancelled"
    BY <1>2, <1>5, <1>6, <2>1
  <2>2. CASE answer.status # "cancelled"
    BY <1>2, <1>5, <1>6, <2>2
  <2> QED BY <2>1, <2>2
<1>7. CASE CloseWith(Completed)
  BY <1>2, <1>5, <1>7
<1> QED BY <1>3, <1>4, <1>6, <1>7 DEF Recorded

LEMMA PrepareStep ==
  ASSUME LoopInv, Prepare
  PROVE  LoopInv'
<1>1. UNCHANGED toolVars /\ (\A i \in Slots : ~Busy(i)) /\ pc = "prepare" /\ run.activeStep # 0
  BY NobodyBusy DEF Prepare, InTools, LoopInv, Placed, InStep
<1>2. CASE GotoLoop("cancel") /\ run.cancelRequested
  <2>1. Placed'
    BY <1>1, <1>2 DEF GotoLoop, Placed, toolVars, InStep, InRequest, InTools, BetweenSteps
  <2> QED BY <1>1, <1>2, <2>1, RestGoto DEF Points, Unlaunched, InTools, BetweenSteps, InRequest
<1>3. CASE GotoLoop("create") /\ next <= answer.calls
  <2>1. next <= MaxCall
    BY <1>3, BoundsAssumption DEF LoopInv, LoopType
  <2>2. Placed'
    BY <1>1, <1>3, <2>1 DEF GotoLoop, Stay, Placed, toolVars, InStep, InRequest, InTools, BetweenSteps
  <2> QED BY <1>1, <1>3, <2>2, RestGoto DEF Points, Unlaunched
<1>4. CASE pc' = "pool" /\ next' = 1 /\ UNCHANGED <<answer, goal>>
  <2>1. LoopType'
    BY <1>1, <1>4, BoundsAssumption DEF LoopInv, LoopType, toolVars, Points
  <2>2. Placed'
    BY <1>1, <1>4 DEF LoopInv, Placed, toolVars, InStep, InRequest, InTools, BetweenSteps
  <2> QED BY <1>1, <1>4, <2>1, <2>2, RestPlace DEF Unlaunched
<1> QED BY <1>2, <1>3, <1>4 DEF Prepare

\* The loop goes on when the call it waited for started or ended.
LEMMA WaitedStep ==
  ASSUME LoopInv, UNCHANGED toolVars, pc \in {"waitStart", "await"}, GotoLoop("pool")
  PROVE  LoopInv'
<1>1. pc' = "pool" /\ UNCHANGED <<answer, next, goal>>
  BY DEF GotoLoop, Stay
<1>2. LoopType'
  BY <1>1 DEF LoopInv, LoopType, toolVars, Points
<1>3. Placed'
  BY <1>1 DEF LoopInv, Placed, toolVars, InStep, InRequest, InTools, BetweenSteps
<1>4. BusyWhere'
  BY <1>1 DEF LoopInv, BusyWhere, Busy, toolVars, InTools
<1>5. Launched'
  BY <1>1 DEF LoopInv, Launched, toolVars, InTools, Unlaunched, BetweenSteps, InRequest
<1> QED BY <1>2, <1>3, <1>4, <1>5, PlaceStep

LEMMA TooledStep ==
  ASSUME LoopInv, Tooled
  PROVE  LoopInv'
<1>1. UNCHANGED toolVars /\ (\A i \in Slots : ~Busy(i)) /\ pc = "tooled" /\ run.activeStep # 0
  BY NobodyBusy DEF Tooled, InTools, LoopInv, Placed, InStep
<1>2. CASE CloseWith(Failed("cleanup_failed"))
  BY <1>1, <1>2, RestClose, OutcomesAre DEF TerminalStatus
<1>3. CASE \E p \in {"cancel", "closeStep"} : GotoLoop(p) /\ (p = "cancel" => run.cancelRequested)
  <2>1. PICK p \in {"cancel", "closeStep"} : GotoLoop(p) /\ (p = "cancel" => run.cancelRequested)
    BY <1>3
  <2>2. Placed'
    BY <1>1, <2>1 DEF GotoLoop, Placed, toolVars, InStep, InRequest, InTools, BetweenSteps
  <2> QED BY <1>1, <2>1, <2>2, RestGoto DEF Points, Unlaunched, InTools, BetweenSteps, InRequest
<1> QED BY <1>2, <1>3 DEF Tooled

LEMMA SweepingStep ==
  ASSUME LoopInv, Sweeping
  PROVE  LoopInv'
<1>1. UNCHANGED toolVars /\ pc = "sweeping" /\ ~Busy(next - 1) /\ run.cancelRequested
  BY DEF Sweeping, LoopInv, Placed
<1>2. \A i \in Slots : ~Busy(i)
  BY <1>1 DEF LoopInv, Launched
<1>3. CASE GotoLoop("sweep")
  <2>1. Placed'
    BY <1>1, <1>3 DEF GotoLoop, Placed, toolVars, InStep, InRequest, InTools, BetweenSteps
  <2> QED BY <1>1, <1>2, <1>3, <2>1, RestGoto DEF Points, Unlaunched, InTools, BetweenSteps, InRequest
<1>4. CASE Throw(failure)
  BY <1>1, <1>2, <1>4, RestThrow
<1> QED BY <1>3, <1>4 DEF Sweeping

LEMMA FinishLoadStep ==
  ASSUME LoopInv, FinishLoad
  PROVE  LoopInv'
<1>1. UNCHANGED toolVars /\ (\A i \in Slots : ~Busy(i)) /\ pc = "finish"
  BY NobodyBusy DEF FinishLoad, InTools
<1>2. PICK p \in {"ended", "cancel", "close"} : GotoLoop(p) /\ (p = "cancel" => run.cancelRequested)
  BY DEF FinishLoad
<1>3. Placed'
  BY <1>1, <1>2 DEF GotoLoop, Placed, toolVars, InStep, InRequest, InTools, BetweenSteps
<1> QED BY <1>1, <1>2, <1>3, RestGoto DEF Points, Unlaunched, InTools, BetweenSteps, InRequest

\* A loop that was thrown out while a worker lived was stopped, and does not come back.
LEMMA CatchStep ==
  ASSUME LoopInv, Catch
  PROVE  LoopInv'
<1>1. UNCHANGED toolVars /\ pc = "catch" /\ UNCHANGED <<answer, next, goal>>
  BY DEF Catch
<1>2. pc' \in {"cancel", "ended"} /\ (pc' = "cancel" => run.cancelRequested /\ error \in CancelledRace)
      /\ (pc' = "ended" => error' = error)
  BY DEF Catch
<1>3. LoopType'
  BY <1>1, <1>2 DEF LoopInv, LoopType, toolVars, Points
<1>4. Placed'
  BY <1>1, <1>2 DEF Placed, toolVars, InStep, InRequest, InTools, BetweenSteps
<1>5. BusyWhere'
  BY <1>1, <1>2 DEF LoopInv, BusyWhere, Busy, toolVars, InTools, CancelledRace
<1>6. Launched'
  BY <1>2 DEF Launched, Unlaunched, BetweenSteps, InRequest, InTools
<1> QED BY <1>1, <1>3, <1>4, <1>5, <1>6, PlaceStep

-----------------------------------------------------------------------------
(***************************************************************************)
(* The loop's appends.                                                     *)
(***************************************************************************)
\* An append that is not about a call.
LEMMA QuietAppend ==
  ASSUME LoopInv, RunKept', SameCalls(run, run'), UNCHANGED <<effects, worker, failure>>, Stopped => Stopped',
         LoopType', Placed', \A i \in Slots : ~Busy(i), pc' \in Unlaunched \cup InTools => pc \in Unlaunched
  PROVE  LoopInv' /\ SameCallFacts
<1>1. SameCallFacts
  BY DEF SameCalls, SameCallFacts
<1>2. CallsKnown'
  BY <1>1, SameKnown
<1>3. run'.activeTools \subseteq run.activeTools
  BY DEF SameCalls
<1> QED BY <1>1, <1>2, <1>3, RestStep

\* A place that only asks for the open step and the cancellation.
LEMMA QuietPlaced ==
  ASSUME LoopInv, SameCalls(run, run'),
         pc' \in {"request", "recorded", "compactionAnswered", "afterCompact", "summarizing", "sweep", "ended"},
         pc' \in {"request", "recorded"} => run.activeStep # 0,
         pc' \in BetweenSteps => pc \in BetweenSteps,
         pc' = "sweep" => run.cancelRequested
  PROVE  Placed'
<1>1. NextStep' = NextStep
  BY SameSteps DEF SameCalls
<1> QED BY <1>1 DEF LoopInv, SameCalls, Placed, InStep, InRequest, InTools, BetweenSteps

LEMMA VerdictAccepted ==
  ASSUME NEW accepted, "accepted" \in Verdicts(accepted)
  PROVE  accepted
BY DEF Verdicts, DispatchError

LEMMA NextStepIs ==
  ASSUME NextStep <= MaxStep
  PROVE  NextStep \in Steps
<1>1. IsFiniteSet(OpenSteps)
  <2>1. IsFiniteSet(Steps)
    BY FS_Interval, BoundsAssumption DEF Steps
  <2>2. OpenSteps \subseteq Steps
    BY DEF OpenSteps
  <2> QED BY <2>1, <2>2, FS_Subset
<1>2. Cardinality(OpenSteps) \in Nat
  BY <1>1, FS_CardinalityType
<1> QED BY <1>2, BoundsAssumption DEF NextStep, Steps

LEMMA OpenStepStep ==
  ASSUME LoopInv, OpenStep
  PROVE  LoopInv' /\ SameCallFacts
<1>1. PICK v \in Verdicts(CanStartStep(run, NextStep)) :
        IF v = "accepted"
        THEN run' = StartStep(run, NextStep) /\ GotoLoop("request")
        ELSE Throw(v) /\ UNCHANGED run
  BY DEF OpenStep
<1>2. (\A i \in Slots : ~Busy(i)) /\ pc = "openStep" /\ RunKept
  BY NobodyBusy DEF OpenStep, InTools, LoopInv
<1>3. UNCHANGED <<control, stopping, due, unresolvable, effects, worker, failure>>
  BY DEF OpenStep
<1>4. CASE v # "accepted"
  <2>1. UNCHANGED toolVars /\ Throw(v)
    BY <1>1, <1>3, <1>4 DEF toolVars
  <2> QED BY <1>2, <2>1, RestThrow DEF SameCallFacts, toolVars
<1>5. CASE v = "accepted"
  <2> DEFINE k == NextStep
  <2>1. CanStartStep(run, k) /\ run' = StartStep(run, k) /\ pc' = "request" /\ UNCHANGED <<answer, next, goal>>
    BY <1>1, <1>5, VerdictAccepted DEF GotoLoop, Stay
  <2>2. run.activeStep = 0
    BY <2>1 DEF CanStartStep
  <2>3. k \in Steps
    BY <1>2, <2>2, NextStepIs DEF LoopInv, Placed, BetweenSteps
  <2> HIDE DEF k
  <2>4. RunKept'
    BY <1>2, <2>1, <2>3, StartStepInv, StartStepOutcome DEF RunKept
  <2>5. run'.activeStep = k /\ run'.activeTools = run.activeTools /\ run'.tools = run.tools /\ run'.approvals = run.approvals
    BY <1>2, <2>1, <2>3, StepEvents DEF RunKept
  <2>6. LoopType'
    BY <1>3, <2>1 DEF LoopInv, LoopType, Points
  <2>7. Placed'
    BY <2>1, <2>3, <2>5 DEF Placed, InStep, InRequest, InTools, BetweenSteps, Steps
  <2>8. SameCallFacts
    BY <1>3, <2>5 DEF SameCallFacts
  <2>9. CallsKnown'
    BY <2>8, SameKnown
  <2> QED BY <1>2, <1>3, <2>1, <2>4, <2>5, <2>6, <2>7, <2>8, <2>9, RestStep DEF Stopped, Unlaunched, BetweenSteps
<1> QED BY <1>4, <1>5

LEMMA CompactStep ==
  ASSUME LoopInv, Compact
  PROVE  LoopInv' /\ SameCallFacts
<1>1. /\ \A i \in Slots : ~Busy(i)
      /\ pc = "compact" /\ RunKept
      /\ UNCHANGED <<control, stopping, due, unresolvable, effects, worker, failure>>
  BY NobodyBusy DEF Compact, InTools, LoopInv
<1>2. CASE Throw(DispatchError) /\ UNCHANGED run
  <2>1. UNCHANGED toolVars
    BY <1>1, <1>2 DEF toolVars
  <2> QED BY <1>1, <1>2, <2>1, RestThrow DEF SameCallFacts, toolVars
<1>3. CASE RunKept' /\ SameCalls(run, run') /\ pc' \in {"afterCompact", "summarizing"} /\ UNCHANGED <<answer, next, goal>>
  <2>1. LoopType'
    BY <1>1, <1>3 DEF LoopInv, LoopType, Points
  <2>2. Placed'
    BY <1>1, <1>3, QuietPlaced DEF BetweenSteps
  <2> QED BY <1>1, <1>3, <2>1, <2>2, QuietAppend DEF Stopped, Unlaunched, BetweenSteps
<1>4. CASE Compacted(FALSE) /\ UNCHANGED run
  <2>1. RunKept' /\ SameCalls(run, run')
    BY <1>1, <1>4 DEF RunKept, SameCalls
  <2> QED BY <1>3, <1>4, <2>1 DEF Compacted
<1>5. CASE CanStartCompaction(run, Trigger) /\ run' = StartCompaction(run, Trigger) /\ GotoLoop("summarizing")
  <2> DEFINE trigger == Trigger
  <2>1. trigger \in Triggers
    BY DEF Trigger, Triggers
  <2> HIDE DEF trigger
  <2>2. CanStartCompaction(run, trigger) /\ run' = StartCompaction(run, trigger)
    BY <1>5 DEF trigger
  <2>3. RunKept' /\ SameCalls(run, run')
    BY <1>1, <2>1, <2>2, StartCompactionInv, StartCompactionOutcome, QuietEvents DEF RunKept
  <2> QED BY <1>3, <1>5, <2>3 DEF GotoLoop, Stay
<1> QED BY <1>2, <1>4, <1>5 DEF Compact

LEMMA SettleCompactionStep ==
  ASSUME LoopInv, SettleCompaction
  PROVE  LoopInv' /\ SameCallFacts
<1>1. /\ \A i \in Slots : ~Busy(i)
      /\ pc = "compactionAnswered" /\ RunKept /\ CanSettleCompaction(run)
      /\ UNCHANGED <<control, stopping, due, unresolvable, effects, worker, failure>>
      /\ pc' = "afterCompact" /\ UNCHANGED <<answer, next, goal>>
      /\ run' \in {SucceedCompaction(run), FailCompaction(run)}
  BY NobodyBusy DEF SettleCompaction, InTools, LoopInv, GotoLoop, Stay
<1>2. RunKept' /\ SameCalls(run, run')
  BY <1>1, SucceedCompactionInv, SucceedCompactionOutcome, FailCompactionInv, FailCompactionOutcome, QuietEvents
     DEF RunKept
<1>3. LoopType'
  BY <1>1 DEF LoopInv, LoopType, Points
<1>4. Placed'
  BY <1>1, <1>2, QuietPlaced DEF BetweenSteps
<1> QED BY <1>1, <1>2, <1>3, <1>4, QuietAppend DEF Stopped, Unlaunched, BetweenSteps

LEMMA StartModelRequestStep ==
  ASSUME LoopInv, StartModelRequest
  PROVE  LoopInv' /\ SameCallFacts
<1>1. PICK v \in Verdicts(CanStartRequest(run, run.activeStep, NextAttempt)) :
       CASE v = "accepted" -> /\ run' = StartRequest(run, run.activeStep, NextAttempt)
                              /\ GotoLoop("launch")
         [] v = "session_capacity" -> CloseWith(Failed("limit_exceeded")) /\ UNCHANGED run
         [] OTHER -> Throw(v) /\ UNCHANGED run
  BY DEF StartModelRequest
<1>2. /\ \A i \in Slots : ~Busy(i)
      /\ pc = "request" /\ RunKept /\ run.activeStep # 0
      /\ UNCHANGED <<control, stopping, due, unresolvable, effects, worker, failure>>
  BY NobodyBusy DEF StartModelRequest, InTools, LoopInv, Placed, InStep
<1>3. CASE v = "session_capacity"
  <2>1. UNCHANGED toolVars /\ CloseWith(Failed("limit_exceeded"))
    BY <1>1, <1>2, <1>3 DEF toolVars
  <2> QED BY <1>2, <2>1, RestClose, OutcomesAre DEF TerminalStatus, SameCallFacts, toolVars
<1>4. CASE v \notin {"accepted", "session_capacity"}
  <2>1. UNCHANGED toolVars /\ Throw(v)
    BY <1>1, <1>2, <1>4 DEF toolVars
  <2> QED BY <1>2, <2>1, RestThrow DEF SameCallFacts, toolVars
<1>5. CASE v = "accepted"
  <2> DEFINE k == run.activeStep
             a == NextAttempt
  <2>1. CanStartRequest(run, k, a) /\ run' = StartRequest(run, k, a) /\ pc' = "launch" /\ UNCHANGED <<answer, next, goal>>
    BY <1>1, <1>5, VerdictAccepted DEF GotoLoop, Stay
  <2>2. k \in Steps /\ a \in Attempts
    BY <1>2, OpenStepIs DEF NextAttempt, Attempts
  <2>3. k # 0
    BY <1>2
  <2> HIDE DEF k, a
  <2>4. RunKept'
    BY <1>2, <2>1, <2>2, StartRequestInv, StartRequestOutcome DEF RunKept
  <2>5. SameCalls(run, run') /\ run'.activeRequest = <<k, a>>
    BY <1>2, <2>1, QuietEvents DEF RunKept
  <2>6. LoopType'
    BY <1>2, <2>1 DEF LoopInv, LoopType, Points
  <2>7. Placed'
    BY <1>2, <2>1, <2>3, <2>5 DEF SameCalls, NoRequest, Placed, InStep, InRequest, InTools, BetweenSteps
  <2> QED BY <1>2, <2>1, <2>4, <2>5, <2>6, <2>7, QuietAppend DEF Stopped, Unlaunched, BetweenSteps
<1> QED BY <1>3, <1>4, <1>5

LEMMA LaunchStep ==
  ASSUME LoopInv, Launch
  PROVE  LoopInv' /\ SameCallFacts
<1>1. /\ \A i \in Slots : ~Busy(i)
      /\ pc = "launch" /\ RunKept
      /\ UNCHANGED <<run, stopping, effects, worker, failure, next, goal>>
  BY NobodyBusy DEF Launch, InTools, LoopInv
<1>2. Stopped => Stopped'
  BY DEF Launch, AbortForCancel, Stopped
<1>3. /\ pc' \in {"answered", "reading"} /\ answer'.status \in {"none", "cancelled"} /\ answer'.calls = 0
      /\ pc' = "answered" => answer'.status = "cancelled"
  BY DEF Launch, Answer, NoAnswer
<1>4. 0 \in 0..MaxCall
  BY BoundsAssumption
<1>5. LoopType'
  BY <1>1, <1>3, <1>4 DEF LoopInv, LoopType, Points
<1>6. Placed'
  BY <1>1, <1>3 DEF LoopInv, Placed, InStep, InRequest, InTools, BetweenSteps
<1>7. RunKept' /\ SameCalls(run, run')
  BY <1>1 DEF RunKept, SameCalls
<1> QED BY <1>1, <1>2, <1>5, <1>6, <1>7, QuietAppend DEF Unlaunched, InRequest

LEMMA AppendDeltaStep ==
  ASSUME LoopInv, AppendDelta
  PROVE  LoopInv' /\ SameCallFacts
<1> DEFINE q == run.activeRequest
<1>1. /\ \A i \in Slots : ~Busy(i)
      /\ pc = "reading" /\ RunKept /\ control = "none"
      /\ UNCHANGED <<stopping, due, unresolvable, effects, worker, failure>>
  BY NobodyBusy DEF AppendDelta, InTools, LoopInv
<1>2. q \in Requests
  BY <1>1 DEF LoopInv, RunKept, RunInv, RunType, Placed, InRequest
<1>3. Stopped => Stopped'
  BY <1>1 DEF Stopped
<1>4. /\ RunKept' /\ SameCalls(run, run') /\ run'.activeRequest = q /\ UNCHANGED <<next, goal>>
      /\ \/ pc' = "reading" /\ answer' = answer
         \/ pc' = "answered" /\ answer'.status \in {"cancelled", "failed"} /\ answer'.calls = 0
  <2>1. CASE CanRecordDelta(run, q) /\ run' = RecordDelta(run, q) /\ GotoLoop("reading")
    <3> HIDE DEF q
    <3>1. RunKept' /\ SameCalls(run, run')
      BY <1>1, <1>2, <2>1, RecordDeltaInv, RecordDeltaOutcome, QuietEvents DEF RunKept
    <3>2. run'.activeRequest = run.activeRequest
      BY <1>1, <2>1, QuietEvents DEF RunKept
    <3> QED BY <2>1, <3>1, <3>2 DEF GotoLoop, Stay, q
  <2>2. CASE UNCHANGED run /\ \E status \in {"cancelled", "failed"} : \E reason : Answered(Answer(status, reason, 0))
    <3>1. RunKept' /\ SameCalls(run, run')
      BY <1>1, <2>2 DEF RunKept, SameCalls
    <3> QED BY <2>2, <3>1 DEF Answered, Answer
  <2> QED BY <2>1, <2>2 DEF AppendDelta
<1>5. 0 \in 0..MaxCall
  BY BoundsAssumption
<1>6. LoopType'
  BY <1>1, <1>4, <1>5 DEF LoopInv, LoopType, Points
<1>7. Placed'
  BY <1>1, <1>4 DEF LoopInv, SameCalls, Placed, InStep, InRequest, InTools, BetweenSteps
<1> QED BY <1>1, <1>3, <1>4, <1>6, <1>7, QuietAppend DEF Unlaunched, InRequest

LEMMA RecordAnswerStep ==
  ASSUME LoopInv, RecordAnswer
  PROVE  LoopInv' /\ SameCallFacts
<1> DEFINE q == run.activeRequest
<1>1. /\ \A i \in Slots : ~Busy(i)
      /\ pc = "record" /\ RunKept
      /\ UNCHANGED <<control, stopping, due, unresolvable, effects, worker, failure>>
  BY NobodyBusy DEF RecordAnswer, InTools, LoopInv
<1>2. q \in Requests /\ run.activeStep # 0
  BY <1>1 DEF LoopInv, RunKept, RunInv, RunType, Placed, InRequest, InStep
<1>3. CASE Throw("invalid-outcome") /\ UNCHANGED run
  <2>1. UNCHANGED toolVars
    BY <1>1, <1>3 DEF toolVars
  <2> QED BY <1>1, <1>3, <2>1, RestThrow DEF SameCallFacts, toolVars
<1>4. CASE /\ CanFinishRequest(run, q, answer, answer.calls)
           /\ run' = FinishRequest(run, q, answer, answer.calls) /\ GotoLoop("recorded")
  <2>1. answer.status \in {"succeeded", "failed", "cancelled"} /\ answer.calls \in 0..MaxCall
    BY <1>1 DEF LoopInv, LoopType, Placed
  <2>2. answer.reason \in Reasons
    BY <1>4, <2>1, AcceptedOutcome DEF CanFinishRequest
  <2>3. IsOutcome(answer, TerminalRequest)
    BY <2>1, <2>2 DEF IsOutcome, TerminalRequest
  <2>4. pc' = "recorded" /\ UNCHANGED <<answer, next, goal>>
    BY <1>4 DEF GotoLoop, Stay
  <2> HIDE DEF q
  <2>5. RunKept' /\ SameCalls(run, run')
    BY <1>1, <1>2, <1>4, <2>1, <2>3, FinishRequestInv, FinishRequestOutcome, QuietEvents DEF RunKept
  <2>6. LoopType'
    BY <1>1, <2>4 DEF LoopInv, LoopType, Points
  <2>7. Placed'
    BY <1>2, <2>4, <2>5, QuietPlaced DEF BetweenSteps
  <2> QED BY <1>1, <2>4, <2>5, <2>6, <2>7, QuietAppend DEF Stopped, Unlaunched, BetweenSteps, InRequest, InTools
<1> QED BY <1>3, <1>4 DEF RecordAnswer

LEMMA CancelStep ==
  ASSUME LoopInv, Cancel
  PROVE  LoopInv' /\ SameCallFacts
<1> DEFINE q == run.activeRequest
<1>1. /\ \A i \in Slots : ~Busy(i)
      /\ pc = "cancel" /\ RunKept /\ run.cancelRequested
      /\ UNCHANGED <<control, stopping, due, unresolvable, effects, worker, failure>>
      /\ pc' = "sweep" /\ UNCHANGED <<answer, next, goal>>
  BY NobodyBusy DEF Cancel, InTools, LoopInv, Placed, GotoLoop, Stay
<1>2. RunKept' /\ SameCalls(run, run')
  <2>1. CASE q = NoRequest
    <3>1. run' = run
      BY <2>1 DEF Cancel
    <3> QED BY <1>1, <3>1 DEF RunKept, SameCalls
  <2>2. CASE q # NoRequest
    <3>1. q \in Requests /\ run.requests[q].status = "running"
      BY <1>1, <2>2 DEF RunKept, RunInv, RunType, ActiveSetsAgree
    <3>2. TerminalSemantics(run, Cancelled)
      BY <1>1, OutcomesAre DEF TerminalSemantics
    <3>3. CanFinishRequest(run, q, Cancelled, 0)
      BY <3>1, <3>2 DEF CanFinishRequest
    <3>4. IsOutcome(Cancelled, TerminalRequest) /\ 0 \in 0..MaxCall
      BY OutcomesAre, BoundsAssumption DEF IsOutcome, TerminalRequest, Reasons
    <3>5. run' = FinishRequest(run, q, Cancelled, 0)
      BY <2>2 DEF Cancel
    <3> HIDE DEF q
    <3> QED BY <1>1, <3>1, <3>3, <3>4, <3>5, FinishRequestInv, FinishRequestOutcome, QuietEvents DEF RunKept
  <2> QED BY <2>1, <2>2
<1>3. LoopType'
  BY <1>1 DEF LoopInv, LoopType, Points
<1>4. Placed'
  BY <1>1, <1>2, QuietPlaced DEF BetweenSteps
<1> QED BY <1>1, <1>2, <1>3, <1>4, QuietAppend DEF Stopped, Unlaunched, BetweenSteps, InRequest, InTools

\* Closing a step, with the run or without it, changes no call.
LEMMA CloseStepStep ==
  ASSUME LoopInv, CloseStep
  PROVE  LoopInv' /\ SameCallFacts
<1> DEFINE k == run.activeStep
<1>1. /\ \A i \in Slots : ~Busy(i)
      /\ pc = "closeStep" /\ RunKept /\ k \in Steps
      /\ UNCHANGED <<control, stopping, due, unresolvable, effects, worker, failure>>
  BY NobodyBusy, OpenStepIs DEF CloseStep, InTools, LoopInv, Placed, InStep
<1>2. CASE Throw("unsettled-step") /\ UNCHANGED run
  <2>1. UNCHANGED toolVars
    BY <1>1, <1>2 DEF toolVars
  <2> QED BY <1>1, <1>2, <2>1, RestThrow DEF SameCallFacts, toolVars
<1>3. CASE CanFinishStep(run, k, Completed) /\ run' = FinishStep(run, k, Completed) /\ GotoLoop("stepClosed")
  <2>1. IsOutcome(Completed, TerminalStatus)
    BY OutcomesAre DEF IsOutcome, TerminalStatus, Reasons
  <2>2. pc' = "stepClosed" /\ UNCHANGED <<answer, next, goal>>
    BY <1>3 DEF GotoLoop, Stay
  <2> HIDE DEF k
  <2>3. RunKept'
    BY <1>1, <1>3, <2>1, FinishStepInv, FinishStepOutcome DEF RunKept
  <2>4. run'.activeStep = 0 /\ run'.activeTools = run.activeTools /\ run'.tools = run.tools /\ run'.approvals = run.approvals
    BY <1>1, <1>3, StepEvents DEF RunKept
  <2>5. LoopType'
    BY <1>1, <2>2 DEF LoopInv, LoopType, Points
  <2>6. Placed'
    BY <2>2, <2>4 DEF Placed, InStep, InRequest, InTools, BetweenSteps
  <2>7. SameCallFacts
    BY <1>1, <2>4 DEF SameCallFacts
  <2>8. CallsKnown'
    BY <2>7, SameKnown
  <2> QED BY <1>1, <2>2, <2>3, <2>4, <2>5, <2>6, <2>7, <2>8, RestStep
          DEF Stopped, Unlaunched, BetweenSteps, InRequest, InTools
<1> QED BY <1>2, <1>3 DEF CloseStep

LEMMA CloseRunStep ==
  ASSUME LoopInv, CloseRun
  PROVE  LoopInv' /\ SameCallFacts
<1> DEFINE k == run.activeStep
           closed == IF k # 0 THEN FinishStep(run, k, goal) ELSE run
<1>1. /\ \A i \in Slots : ~Busy(i)
      /\ pc = "close" /\ RunKept /\ goal.status \in TerminalStatus
      /\ UNCHANGED <<control, stopping, due, unresolvable, effects, worker, failure>>
  BY NobodyBusy DEF CloseRun, InTools, LoopInv, LoopType
<1>2. CASE Throw("unsettled-step") /\ UNCHANGED run
  <2>1. UNCHANGED toolVars
    BY <1>1, <1>2 DEF toolVars
  <2> QED BY <1>1, <1>2, <2>1, RestThrow DEF SameCallFacts, toolVars
<1>3. CASE /\ k # 0 => CanFinishStep(run, k, goal)
           /\ CanFinishRun(closed, goal) /\ run' = FinishRun(closed, goal) /\ GotoLoop("ended")
  <2>1. goal.reason \in Reasons
    BY <1>1, <1>3, AcceptedOutcome DEF CanFinishRun, TerminalStatus
  <2>2. IsOutcome(goal, TerminalStatus)
    BY <1>1, <2>1 DEF IsOutcome
  <2>3. pc' = "ended" /\ UNCHANGED <<answer, next, goal>>
    BY <1>3 DEF GotoLoop, Stay
  <2>4. /\ RunInv(closed) /\ OutcomeInv(closed) /\ closed.activeTools = run.activeTools
        /\ closed.tools = run.tools /\ closed.approvals = run.approvals
    <3>1. CASE k = 0
      BY <1>1, <3>1 DEF RunKept
    <3>2. CASE k # 0
      <4>1. k \in Steps
        BY <1>1, <3>2, OpenStepIs
      <4> HIDE DEF k
      <4> QED BY <1>1, <1>3, <2>2, <3>2, <4>1, FinishStepInv, FinishStepOutcome, StepEvents DEF RunKept
    <3> QED BY <3>1, <3>2
  <2> HIDE DEF closed, k
  <2>5. RunKept'
    BY <1>3, <2>2, <2>4, FinishRunInv, FinishRunOutcome DEF RunKept
  <2>6. SameCalls(closed, run')
    <3>1. 1 \in Steps
      BY BoundsAssumption DEF Steps
    <3> QED BY <1>3, <2>4, <3>1, StepEvents
  <2>7. run'.activeTools = run.activeTools /\ run'.tools = run.tools /\ run'.approvals = run.approvals
    BY <2>4, <2>6 DEF SameCalls
  <2>8. LoopType'
    BY <1>1, <2>3 DEF LoopInv, LoopType, Points
  <2>9. Placed'
    BY <2>3 DEF Placed, InStep, InRequest, InTools, BetweenSteps
  <2>10. SameCallFacts
    BY <1>1, <2>7 DEF SameCallFacts
  <2>11. CallsKnown'
    BY <2>10, SameKnown
  <2> QED BY <1>1, <2>3, <2>5, <2>7, <2>8, <2>9, <2>10, <2>11, RestStep
          DEF Stopped, Unlaunched, BetweenSteps, InRequest, InTools
<1> QED BY <1>2, <1>3 DEF CloseRun

\* The workers of the closed step are gone, and no call of it was running.
LEMMA StepClosedStep ==
  ASSUME LoopInv, StepClosed
  PROVE  LoopInv' /\ SameCallFacts
<1>1. /\ UNCHANGED <<run, control, stopping, effects, failure>> /\ worker' = [i \in Slots |-> Idle]
      /\ pc = "stepClosed" /\ RunKept /\ run.activeStep = 0
  BY DEF StepClosed, LoopInv, Placed
<1>2. run.activeTools = {}
  BY <1>1, ActiveCall, BoundsAssumption DEF Steps
<1>3. /\ UNCHANGED <<answer, next>> /\ goal'.status \in TerminalStatus
      /\ pc' = "finish" \/ (pc' = "top" /\ NextStep <= MaxStep)
  <2>1. NextStep \in Int /\ MaxStep \in Nat
    <3>1. IsFiniteSet(Steps)
      BY FS_Interval, BoundsAssumption DEF Steps
    <3>2. IsFiniteSet(OpenSteps)
      BY <3>1, FS_Subset DEF OpenSteps
    <3>3. Cardinality(OpenSteps) \in Nat
      BY <3>2, FS_CardinalityType
    <3> QED BY <3>3, BoundsAssumption DEF NextStep
  <2>2. CASE NextStep > MaxStep
    <3>1. CloseWith(Failed("limit_exceeded"))
      BY <2>2 DEF StepClosed
    <3>2. pc' = "finish" /\ goal' = Failed("limit_exceeded") /\ UNCHANGED <<answer, next>>
      BY <3>1, Closed
    <3> QED BY <3>2, OutcomesAre DEF TerminalStatus
  <2>3. CASE ~(NextStep > MaxStep)
    BY <2>1, <2>3 DEF StepClosed, GotoLoop, Stay, LoopInv, LoopType
  <2> QED BY <2>2, <2>3
<1>4. \A i \in Slots : worker'[i].at = "idle" /\ worker'[i] = Idle
  BY <1>1 DEF Idle
<1>5. LoopType'
  BY <1>1, <1>3 DEF LoopInv, LoopType, Points, Idle, WorkerPoints, WorkerOutcomes
<1>6. Placed'
  BY <1>1, <1>3, SameSteps DEF Placed, InStep, InRequest, InTools, BetweenSteps
<1>7. BusyWhere' /\ Launched' /\ BodiesKnown'
  BY <1>4 DEF BusyWhere, Launched, BodiesKnown, Busy
<1>8. Owned'
  BY <1>1, <1>2, <1>4 DEF Owned, Driven
<1>9. HeldBound'
  <2>1. Held' = {}
    BY <1>1, <1>2, <1>4 DEF Held, Busy
  <2> QED BY <2>1, FS_EmptySet, ParallelAssumption DEF HeldBound
<1>10. SameCallFacts
  BY <1>1 DEF SameCallFacts
<1>11. RunKept' /\ CallsKnown'
  BY <1>1, <1>10, SameKnown DEF RunKept
<1> QED BY <1>5, <1>6, <1>7, <1>8, <1>9, <1>10, <1>11 DEF LoopInv

-----------------------------------------------------------------------------
(***************************************************************************)
(* The workers' steps.                                                     *)
(***************************************************************************)
\* Worker i goes to `at` with `out`; its siblings stay.
Moves(i, at, out) ==
  /\ worker' \in [Slots -> [at : WorkerPoints, out : WorkerOutcomes]]
  /\ worker'[i].at = at /\ worker'[i].out = out
  /\ \A j \in Slots : j # i => worker'[j] = worker[j]

\* What every step of a worker leaves alone.
Around == UNCHANGED <<control, stopping, loopVars>>

LEMMA GotoMoves ==
  ASSUME LoopType, NEW i \in Slots, NEW at \in WorkerPoints, Goto(i, at)
  PROVE  Moves(i, at, worker[i].out)
<1> DEFINE w == [worker[i] EXCEPT !.at = at]
<1>1. worker \in [Slots -> [at : WorkerPoints, out : WorkerOutcomes]] /\ worker[i] \in [at : WorkerPoints, out : WorkerOutcomes]
  BY DEF LoopType
<1>2. w \in [at : WorkerPoints, out : WorkerOutcomes] /\ w.at = at /\ w.out = worker[i].out
  BY <1>1
<1>3. worker' = [worker EXCEPT ![i] = w]
  BY DEF Goto
<1> HIDE DEF w
<1> QED BY <1>1, <1>2, <1>3 DEF Moves

LEMMA HoldMoves ==
  ASSUME LoopType, NEW i \in Slots, NEW at \in WorkerPoints, NEW out \in WorkerOutcomes, Hold(i, at, out)
  PROVE  Moves(i, at, out)
<1> DEFINE w == [at |-> at, out |-> out]
<1>1. w \in [at : WorkerPoints, out : WorkerOutcomes] /\ w.at = at /\ w.out = out
  OBVIOUS
<1>2. worker' = [worker EXCEPT ![i] = w]
  BY DEF Hold
<1> HIDE DEF w
<1> QED BY <1>1, <1>2 DEF Moves, LoopType

\* What a worker's step does to the run, but for its own call.
OwnCall(i) ==
  /\ run'.activeStep = run.activeStep /\ run'.steps = run.steps /\ run'.activeRequest = run.activeRequest
  /\ run'.cancelRequested = run.cancelRequested
  /\ run'.activeTools \subseteq run.activeTools \cup {CallAt(i)}
  /\ run.activeTools \ {CallAt(i)} \subseteq run'.activeTools

\* A worker lives in an open step, and its slot already holds its place.
LEMMA WorkerFrame ==
  ASSUME LoopInv, RunKept', NEW i \in Slots, Busy(i), NEW at, NEW out, Moves(i, at, out), Around, OwnCall(i),
         effects' \in [Calls -> 0..1]
  PROVE  LoopType' /\ Placed' /\ BusyWhere' /\ Launched' /\ HeldBound'
<1>1. LoopType'
  BY DEF LoopInv, LoopType, Moves, Around, loopVars
<1>2. Placed'
  BY SameSteps DEF LoopInv, Placed, Around, loopVars, OwnCall
<1>3. \A j \in Slots : Busy(j)' => Busy(j)
  BY DEF Moves, Busy
<1>4. BusyWhere'
  BY <1>3 DEF LoopInv, BusyWhere, Around, loopVars, OwnCall
<1>5. \A j \in Slots : worker[j].at = "idle" => worker'[j].at = "idle"
  BY DEF Moves, Busy
<1>6. Launched'
  BY <1>3, <1>5 DEF LoopInv, Launched, Around, loopVars
<1>7. HeldBound'
  <2>1. run.activeStep # 0 /\ RunKept
    BY DEF LoopInv, BusyWhere
  <2>2. \A t \in run'.activeTools : t \in run.activeTools \/ t = CallAt(i)
    BY DEF OwnCall
  <2>3. CallAt(i)[2] = i
    BY <2>1, OpenStepIs
  <2>4. Held' \subseteq Held
    BY <1>3, <2>2, <2>3 DEF Held
  <2> QED BY <2>4, HeldSmaller DEF LoopInv
<1> QED BY <1>1, <1>2, <1>4, <1>6, <1>7

LEMMA OwnedKept ==
  ASSUME LoopInv, RunKept', NEW i \in Slots, Busy(i), NEW at, NEW out, Moves(i, at, out), Around, OwnCall(i),
         failure' = "none" => failure = "none",
         at \in Driven => CallAt(i) \in run'.activeTools,
         at \in {"commit", "finish"} => out # NoOutcome,
         at = "cancel" => run.cancelRequested,
         CallAt(i) \in run'.activeTools =>
           at \in Driven \/ (failure' # "none" /\ (Stopped \/ (at = "failed" /\ out # NoOutcome)))
  PROVE  Owned'
<1>1. run.activeStep # 0 /\ RunKept
  BY DEF LoopInv, BusyWhere
<1>2. \A j \in Slots : CallAt(j)' = CallAt(j) /\ CallAt(j)[2] = j
  BY <1>1, OpenStepIs DEF OwnCall, CallAt
<1>3. Stopped' = Stopped
  BY DEF Around, Stopped
<1>4. \A j \in Slots : worker'[j].at \in Driven => CallAt(j)' \in run'.activeTools
  <2>1. ASSUME NEW j \in Slots, j # i, worker'[j].at \in Driven PROVE CallAt(j) \in run'.activeTools
    <3>1. CallAt(j) \in run.activeTools
      BY <2>1 DEF Moves, LoopInv, Owned
    <3>2. CallAt(j) # CallAt(i)
      BY <1>2, <2>1
    <3> QED BY <3>1, <3>2 DEF OwnCall
  <2> QED BY <1>2, <2>1 DEF Moves
<1>5. \A j \in Slots : worker'[j].at \in {"commit", "finish"} => worker'[j].out # NoOutcome
  BY DEF Moves, LoopInv, Owned
<1>6. \A j \in Slots : worker'[j].at = "cancel" => run'.cancelRequested
  BY DEF Moves, LoopInv, Owned, OwnCall
<1>7. ASSUME NEW t \in run'.activeTools
      PROVE  /\ worker'[t[2]].at \in Driven \/ (worker'[t[2]].at = "failed" /\ worker'[t[2]].out # NoOutcome) \/ Stopped'
             /\ failure' = "none" => worker'[t[2]].at \in Driven
  <2>1. CASE t = CallAt(i)
    BY <1>2, <1>3, <2>1 DEF Moves
  <2>2. CASE t # CallAt(i)
    <3>1. t \in run.activeTools
      BY <2>2 DEF OwnCall
    <3>2. t[2] \in Slots /\ t = CallAt(t[2])
      BY <1>1, <3>1, ActiveCall
    <3>3. worker'[t[2]] = worker[t[2]]
      BY <2>2, <3>2 DEF Moves
    <3> QED BY <1>3, <3>1, <3>3 DEF LoopInv, Owned
  <2> QED BY <2>1, <2>2
<1> QED BY <1>4, <1>5, <1>6, <1>7 DEF Owned

\* A worker's step that appends nothing and touches nothing.
LEMMA AloneStep ==
  ASSUME LoopInv, NEW i \in Slots, Busy(i), NEW at, NEW out, Moves(i, at, out), Around, UNCHANGED <<run, effects>>,
         failure' = "none" => failure = "none",
         at \in Driven => worker[i].at \in Driven,
         at \in {"commit", "finish"} => out # NoOutcome,
         at = "cancel" => run.cancelRequested,
         CallAt(i) \in run.activeTools =>
           at \in Driven \/ (failure' # "none" /\ (Stopped \/ (at = "failed" /\ out # NoOutcome))),
         at \in {"before", "effect"} => worker[i].at = "before",
         at # "body",
         at \in {"commit", "finish"} /\ out.status = "succeeded" =>
           worker[i].at = "body" \/ (worker[i].at = "commit" /\ out = worker[i].out)
  PROVE  LoopInv' /\ SameCallFacts
<1>1. SameCallFacts
  BY DEF SameCallFacts
<1>2. RunKept' /\ CallsKnown'
  BY <1>1, SameKnown DEF LoopInv, RunKept
<1>3. OwnCall(i)
  BY DEF OwnCall
<1>4. effects' \in [Calls -> 0..1]
  BY DEF LoopInv, LoopType
<1>5. LoopType' /\ Placed' /\ BusyWhere' /\ Launched' /\ HeldBound'
  BY <1>2, <1>3, <1>4, WorkerFrame
<1>6. at \in Driven => CallAt(i) \in run'.activeTools
  BY DEF LoopInv, Owned
<1>7. CallAt(i) \in run'.activeTools =>
        at \in Driven \/ (failure' # "none" /\ (Stopped \/ (at = "failed" /\ out # NoOutcome)))
  OBVIOUS
<1>8. Owned'
  BY <1>2, <1>3, <1>6, <1>7, OwnedKept
<1>9. BodiesKnown'
  <2>1. \A j \in Slots : CallAt(j)' = CallAt(j)
    BY DEF CallAt
  <2>2. \A j \in Slots : worker'[j].at \in {"before", "effect"} => effects'[CallAt(j)'] = 0
    BY <2>1 DEF LoopInv, BodiesKnown, Moves
  <2>3. \A j \in Slots : worker'[j].at = "body" => effects'[CallAt(j)'] = 1
    BY <2>1 DEF LoopInv, BodiesKnown, Moves
  <2>4. \A j \in Slots : worker'[j].at \in {"commit", "finish"} /\ worker'[j].out.status = "succeeded" =>
          effects'[CallAt(j)'] = 1
    BY <2>1 DEF LoopInv, BodiesKnown, Moves
  <2> QED BY <2>2, <2>3, <2>4 DEF BodiesKnown
<1> QED BY <1>1, <1>2, <1>5, <1>8, <1>9 DEF LoopInv

\* A worker whose call it did not dispatch looks again, waits, or decides.
LEMMA LooksStep ==
  ASSUME LoopInv, NEW i \in Slots, Busy(i), worker[i].at \notin Driven, NEW at \in WorkerPoints, at \notin Driven,
         at = "cancel" => run.cancelRequested, Goto(i, at), Around, UNCHANGED <<run, effects, failure>>
  PROVE  LoopInv' /\ SameCallFacts
<1> DEFINE out == worker[i].out
<1>1. Moves(i, at, out)
  BY GotoMoves DEF LoopInv
<1>2. CallAt(i) \in run.activeTools => failure # "none" /\ Stopped
  <2>1. run.activeStep # 0 /\ RunKept
    BY DEF LoopInv, BusyWhere
  <2>2. CallAt(i)[2] = i
    BY <2>1, OpenStepIs
  <2> QED BY <2>2 DEF LoopInv, Owned, Busy
<1> HIDE DEF out
<1> QED BY <1>1, <1>2, AloneStep DEF Driven

\* A worker that throws had dispatched nothing, or was stopped, or knows the outcome it could not save.
LEMMA FailStep ==
  ASSUME LoopInv, NEW i \in Slots, Busy(i), worker[i].at \in Driven \ {"finish"} => Stopped,
         NEW code, code # "none", Fail(i, code), Around, UNCHANGED <<run, effects>>
  PROVE  LoopInv' /\ SameCallFacts
<1> DEFINE out == worker[i].out
           at == "failed"
<1>1. at \in WorkerPoints /\ Goto(i, at)
  BY DEF Fail, WorkerPoints
<1>2. Moves(i, at, out)
  BY <1>1, GotoMoves DEF LoopInv
<1>3. failure' # "none"
  BY DEF Fail
<1>4. CallAt(i) \in run.activeTools => Stopped \/ out # NoOutcome
  <2>1. run.activeStep # 0 /\ RunKept
    BY DEF LoopInv, BusyWhere
  <2>2. CallAt(i)[2] = i
    BY <2>1, OpenStepIs
  <2> QED BY <2>2 DEF LoopInv, Owned, Busy
<1> HIDE DEF out
<1> QED BY <1>2, <1>3, <1>4, AloneStep DEF Driven

\* A worker that drives its call goes on driving it.
LEMMA DrivesStep ==
  ASSUME LoopInv, NEW i \in Slots, worker[i].at \in Driven, NEW at \in Driven \ {"body"}, NEW out,
         Moves(i, at, out), Around, UNCHANGED <<run, effects, failure>>,
         at \in {"commit", "finish"} => out # NoOutcome,
         at \in {"before", "effect"} => worker[i].at = "before",
         at \in {"commit", "finish"} /\ out.status = "succeeded" =>
           worker[i].at = "body" \/ (worker[i].at = "commit" /\ out = worker[i].out)
  PROVE  LoopInv' /\ SameCallFacts
<1>1. Busy(i)
  BY DEF Busy, Driven
<1> QED BY <1>1, AloneStep DEF Driven

(***************************************************************************)
(* What a step of the loop, of a worker or of the user does to one call.   *)
(***************************************************************************)
Declares(t) ==
  /\ CanCreateCall(run, t) /\ effects' = effects
  /\ \E gated \in BOOLEAN, mode \in {"parallel", "exclusive"} : CallCreated(run, run', t, gated, mode)

Asks(t) == CanRequestApproval(run, t) /\ CallAsked(run, run', t) /\ effects' = effects

Decides(t) ==
  /\ run.approvals[t] = "pending" /\ effects' = effects
  /\ \E d \in {"allowed", "denied"} : CallDecided(run, run', t, d)

Starts(t) == CanStartTool(run, t) /\ CallStarted(run, run', t) /\ effects' = effects

Applies(t) == t \in run.activeTools /\ effects[t] = 0 /\ effects' = [effects EXCEPT ![t] = 1] /\ run' = run

Settles(t) ==
  /\ IsOpen(run.tools[t]) /\ EarlierOpen(run, t) = {} /\ effects' = effects
  /\ \E status \in TerminalCall :
       CallSettled(run, run', t, status) /\ (status = "succeeded" => effects[t] = 1)

LEMMA AcceptedCall ==
  ASSUME NEW r, NEW t, NEW o, o.status \in TerminalCall, CanFinishTool(r, t, o)
  PROVE  IsOutcome(o, TerminalCall)
<1>1. TerminalSemantics(r, o)
  BY DEF CanFinishTool
<1>2. CASE o.status = "denied"
  BY <1>2 DEF CanFinishTool, IsOutcome, Reasons
<1>3. CASE o.status # "denied"
  BY <1>1, <1>3 DEF TerminalSemantics, TerminalCall, IsOutcome, Reasons
<1> QED BY <1>2, <1>3

\* A settlement, with the end of a pending approval in the same batch.
LEMMA SettledRun ==
  ASSUME RunKept, NEW t \in Calls, NEW before,
         \/ before = run
         \/ \E d \in {"cancelled", "expired"} :
              CanResolveApproval(run, t, d, "system") /\ before = ResolveApproval(run, t, d),
         NEW o, o.status \in TerminalCall, CanFinishTool(before, t, o), run' = FinishTool(before, t, o)
  PROVE  /\ RunKept' /\ CallSettled(run, run', t, o.status)
         /\ IsOpen(run.tools[t]) /\ EarlierOpen(run, t) = {}
<1>1. IsOutcome(o, TerminalCall)
  BY AcceptedCall
<1>2. NextTool(before, t)
  BY DEF CanFinishTool
<1>3. CASE before = run
  <2>1. RunKept'
    BY <1>1, <1>3, FinishToolInv, FinishToolOutcome DEF RunKept
  <2>2. CallSettled(run, run', t, o.status)
    BY <1>3, SettledEvent DEF RunKept
  <2> QED BY <1>2, <1>3, <2>1, <2>2 DEF NextTool
<1>4. ASSUME NEW d \in {"cancelled", "expired"}, CanResolveApproval(run, t, d, "system"), before = ResolveApproval(run, t, d)
      PROVE  /\ RunKept' /\ CallSettled(run, run', t, o.status)
             /\ IsOpen(run.tools[t]) /\ EarlierOpen(run, t) = {}
  <2>1. RunInv(before) /\ OutcomeInv(before)
    BY <1>4, ResolveApprovalInv, ResolveApprovalOutcome DEF RunKept
  <2>2. CallDecided(run, before, t, d)
    BY <1>4, DecidedEvent DEF RunKept
  <2>3. RunKept'
    BY <1>1, <2>1, FinishToolInv, FinishToolOutcome DEF RunKept
  <2>4. CallSettled(before, run', t, o.status)
    BY <2>1, SettledEvent
  <2>5. run.approvals[t] = "pending" /\ IsOpen(run.tools[t])
    BY <1>4 DEF CanResolveApproval
  <2>6. CallSettled(run, run', t, o.status)
    BY <2>2, <2>4, <2>5 DEF CallSettled, CallDecided, OtherCalls
  <2>7. EarlierOpen(before, t) = EarlierOpen(run, t)
    <3>1. \A u \in EarlierSlots(t) : u \in Calls /\ u # t
      BY EarlierIs DEF Calls, Slots
    <3>2. \A u \in EarlierSlots(t) : before.tools[u] = run.tools[u]
      BY <2>2, <3>1 DEF CallDecided, OtherCalls
    <3> QED BY <3>2 DEF EarlierOpen
  <2> QED BY <1>2, <2>3, <2>5, <2>6, <2>7 DEF NextTool
<1> QED BY <1>3, <1>4

LEMMA SettledKnown ==
  ASSUME LoopInv, NEW t \in Calls, NEW status \in TerminalCall, CallSettled(run, run', t, status),
         IsOpen(run.tools[t]), effects' = effects
  PROVE  CallsKnown'
<1>1. \A u \in Calls : u # t => run'.tools[u] = run.tools[u] /\ run'.approvals[u] = run.approvals[u]
  BY DEF CallSettled, OtherCalls
<1>2. run'.tools[t].status = status /\ run'.tools[t].started = run.tools[t].started
  BY DEF CallSettled
<1>3. status # "absent" /\ ~IsOpen(run'.tools[t])
  BY <1>2 DEF TerminalCall, IsOpen, OpenCall
<1> QED BY <1>1, <1>2, <1>3 DEF LoopInv, CallsKnown

\* A worker's step that does something to its call.
LEMMA CallStep ==
  ASSUME LoopInv, RunKept', CallsKnown', NEW i \in Slots, Busy(i), NEW at, NEW out,
         Moves(i, at, out), Around, OwnCall(i), failure' = failure,
         effects' \in [Calls -> 0..1], \A u \in Calls : u # CallAt(i) => effects'[u] = effects[u],
         at \in Driven <=> CallAt(i) \in run'.activeTools, at \notin {"commit", "finish", "cancel"},
         at \in {"before", "effect"} => effects'[CallAt(i)] = 0, at = "body" => effects'[CallAt(i)] = 1
  PROVE  LoopInv'
<1>1. LoopType' /\ Placed' /\ BusyWhere' /\ Launched' /\ HeldBound'
  BY WorkerFrame
<1>2. CallAt(i) \in run'.activeTools =>
        at \in Driven \/ (failure' # "none" /\ (Stopped \/ (at = "failed" /\ out # NoOutcome)))
  OBVIOUS
<1>3. Owned'
  BY <1>2, OwnedKept
<1>4. BodiesKnown'
  <2>1. run.activeStep # 0 /\ RunKept
    BY DEF LoopInv, BusyWhere
  <2>2. \A j \in Slots : CallAt(j)' = CallAt(j) /\ CallAt(j) \in Calls /\ CallAt(j)[2] = j
    BY <2>1, OpenStepIs DEF OwnCall, CallAt
  <2>3. \A j \in Slots : j # i => effects'[CallAt(j)'] = effects[CallAt(j)] /\ worker'[j] = worker[j]
    BY <2>2 DEF Moves
  <2>4. \A j \in Slots : worker'[j].at \in {"before", "effect"} => effects'[CallAt(j)'] = 0
    BY <2>2, <2>3 DEF LoopInv, BodiesKnown, Moves
  <2>5. \A j \in Slots : worker'[j].at = "body" => effects'[CallAt(j)'] = 1
    BY <2>2, <2>3 DEF LoopInv, BodiesKnown, Moves
  <2>6. \A j \in Slots : worker'[j].at \in {"commit", "finish"} /\ worker'[j].out.status = "succeeded" =>
          effects'[CallAt(j)'] = 1
    BY <2>2, <2>3 DEF LoopInv, BodiesKnown, Moves
  <2> QED BY <2>4, <2>5, <2>6 DEF BodiesKnown
<1> QED BY <1>1, <1>3, <1>4 DEF LoopInv

LEMMA SettleStep ==
  ASSUME LoopInv, NEW i \in Slots, Busy(i), worker[i].at \notin Driven \ {"finish"},
         NEW before,
         \/ before = run
         \/ \E d \in {"cancelled", "expired"} :
              CanResolveApproval(run, CallAt(i), d, "system") /\ before = ResolveApproval(run, CallAt(i), d),
         NEW o, o.status \in TerminalCall,
         CanFinishTool(before, CallAt(i), o) /\ o.status = "succeeded" => effects[CallAt(i)] = 1,
         Settle(i, before, o), Around, effects' = effects
  PROVE  LoopInv' /\ (SameCallFacts \/ \E t \in Calls : Settles(t))
<1> DEFINE t == CallAt(i)
<1>1. run.activeStep # 0 /\ RunKept
  BY DEF LoopInv, BusyWhere
<1>2. t \in Calls
  BY <1>1, OpenStepIs
<1>3. CASE ~CanFinishTool(before, t, o)
  <2>1. PICK code \in {"tool-order", "invalid-outcome"} : Fail(i, code) /\ UNCHANGED run
    BY <1>3 DEF Settle
  <2> QED BY <2>1, FailStep
<1>4. CASE CanFinishTool(before, t, o)
  <2>1. run' = FinishTool(before, t, o) /\ Goto(i, "done") /\ UNCHANGED failure
    BY <1>4 DEF Settle
  <2>2. /\ RunKept' /\ CallSettled(run, run', t, o.status)
        /\ IsOpen(run.tools[t]) /\ EarlierOpen(run, t) = {}
    <3> HIDE DEF t
    <3> QED BY <1>1, <1>2, <1>4, <2>1, SettledRun DEF t
  <2>3. CallsKnown'
    BY <1>2, <2>2, SettledKnown
  <2>4. OwnCall(i) /\ t \notin run'.activeTools
    BY <2>2 DEF CallSettled, OtherCalls, OwnCall
  <2>5. Moves(i, "done", worker[i].out)
    BY <2>1, GotoMoves DEF LoopInv, WorkerPoints
  <2>6. effects' \in [Calls -> 0..1]
    BY DEF LoopInv, LoopType
  <2>7. "done" \in Driven <=> CallAt(i) \in run'.activeTools
    BY <2>4 DEF Driven
  <2>8. LoopInv'
    BY <2>1, <2>2, <2>3, <2>4, <2>5, <2>6, <2>7, CallStep
  <2>9. Settles(t)
    BY <1>4, <2>2 DEF Settles
  <2> QED BY <1>2, <2>8, <2>9
<1> QED BY <1>3, <1>4

LEMMA SettleUndispatchedStep ==
  ASSUME LoopInv, NEW i \in Slots, SettleUndispatched(i), UNCHANGED loopVars
  PROVE  LoopInv' /\ (SameCallFacts \/ \E t \in Calls : Settles(t))
<1> DEFINE t == CallAt(i)
           before == Resolved(t, "cancelled")
           denied == Outcome("denied", run.approvals[t], "runner")
           failed == Outcome("failed", "validation_failed", "runner")
<1>1. Busy(i) /\ worker[i].at \notin Driven \ {"finish"} /\ Around /\ effects' = effects
  BY DEF SettleUndispatched, Busy, Driven, Around, loopVars
<1>2. run.activeStep # 0 /\ RunKept
  BY <1>1 DEF LoopInv, BusyWhere
<1>3. t \in Calls
  BY <1>2, OpenStepIs
<1>4. denied.status = "denied" /\ failed.status = "failed" /\ Cancelled.status = "cancelled"
  BY DEF Outcome, Cancelled
<1>5. CASE worker[i].at = "cancel" /\ Settle(i, before, Cancelled)
  <2>1. run.cancelRequested
    BY <1>5 DEF LoopInv, Owned
  <2>2. before = run \/ (CanResolveApproval(run, t, "cancelled", "system") /\ before = ResolveApproval(run, t, "cancelled"))
    <3>1. CASE run.approvals[t] = "pending"
      <4>1. IsOpen(run.tools[t])
        BY <1>2, <1>3, <3>1 DEF RunKept, RunInv, ActiveSetsAgree, IsOpen, OpenCall
      <4> QED BY <2>1, <3>1, <4>1 DEF CanResolveApproval, Resolved
    <3>2. CASE run.approvals[t] # "pending"
      BY <3>2 DEF Resolved
    <3> QED BY <3>1, <3>2
  <2> HIDE DEF before
  <2> QED BY <1>1, <1>4, <1>5, <2>2, SettleStep DEF TerminalCall
<1>6. CASE Settle(i, run, denied)
  <2> HIDE DEF denied
  <2> QED BY <1>1, <1>4, <1>6, SettleStep DEF TerminalCall
<1>7. CASE Settle(i, run, failed)
  <2> HIDE DEF failed
  <2> QED BY <1>1, <1>4, <1>7, SettleStep DEF TerminalCall
<1> QED BY <1>5, <1>6, <1>7 DEF SettleUndispatched

LEMMA ExpireStep ==
  ASSUME LoopInv, NEW i \in Slots, Expire(i), UNCHANGED loopVars
  PROVE  LoopInv' /\ (SameCallFacts \/ \E t \in Calls : Settles(t))
<1> DEFINE t == CallAt(i)
           before == ResolveApproval(run, t, "expired")
           denied == Outcome("denied", "expired", "runner")
<1>1. Busy(i) /\ worker[i].at = "expire" /\ Around /\ effects' = effects
  BY DEF Expire, Busy, Around, loopVars
<1>2. denied.status = "denied"
  BY DEF Outcome
<1>3. CASE CanResolveApproval(run, t, "expired", "system") /\ Settle(i, before, denied)
  <2>1. \E d \in {"cancelled", "expired"} :
          CanResolveApproval(run, CallAt(i), d, "system") /\ before = ResolveApproval(run, CallAt(i), d)
    BY <1>3
  <2> HIDE DEF denied, before
  <2> QED BY <1>1, <1>2, <1>3, <2>1, SettleStep DEF TerminalCall, Driven
<1>4. CASE Goto(i, "advance") /\ UNCHANGED <<run, failure>>
  BY <1>1, <1>4, LooksStep DEF WorkerPoints, Driven
<1> QED BY <1>3, <1>4 DEF Expire

LEMMA FinishCallStep ==
  ASSUME LoopInv, NEW i \in Slots, Finish(i), UNCHANGED loopVars
  PROVE  LoopInv' /\ (SameCallFacts \/ \E t \in Calls : Settles(t))
<1> DEFINE o == worker[i].out
<1>1. Busy(i) /\ worker[i].at = "finish" /\ Around /\ effects' = effects
  BY DEF Finish, Busy, Around, loopVars
<1>2. o \in WorkerOutcomes /\ o # NoOutcome
  BY <1>1 DEF LoopInv, LoopType, Owned
<1>3. o.status \in TerminalCall
  BY <1>2 DEF WorkerOutcomes, Cancelled, Outcome, TerminalCall
<1>4. o.status = "succeeded" => effects[CallAt(i)] = 1
  BY <1>1 DEF LoopInv, BodiesKnown
<1>5. CASE Settle(i, run, o)
  <2> HIDE DEF o
  <2> QED BY <1>1, <1>3, <1>4, <1>5, SettleStep
<1>6. CASE Fail(i, "write_refused") /\ UNCHANGED run
  BY <1>1, <1>6, FailStep
<1> QED BY <1>5, <1>6 DEF Finish

LEMMA AdvanceStep ==
  ASSUME LoopInv, NEW i \in Slots, Advance(i), UNCHANGED loopVars
  PROVE  LoopInv' /\ SameCallFacts
<1> DEFINE t == CallAt(i)
           at == Decision(i, t)
<1>1. Busy(i) /\ worker[i].at = "advance" /\ Around /\ UNCHANGED <<run, effects>>
  BY DEF Advance, Busy, Around, loopVars
<1>2. worker[i].at \notin Driven
  BY <1>1 DEF Driven
<1>3. CASE \E code \in {"service_stopped", "unowned_dispatch", "tool_order"} : Fail(i, code)
  BY <1>1, <1>2, <1>3, FailStep
<1>4. CASE Goto(i, at) /\ UNCHANGED failure
  <2>1. at \in WorkerPoints /\ at \notin Driven /\ (at = "cancel" => run.cancelRequested)
    BY DEF Decision, WorkerPoints, Driven
  <2> HIDE DEF at
  <2> QED BY <1>1, <1>2, <1>4, <2>1, LooksStep
<1> QED BY <1>3, <1>4 DEF Advance

LEMMA WakeStep ==
  ASSUME LoopInv, NEW i \in Slots, Wake(i), UNCHANGED loopVars
  PROVE  LoopInv' /\ SameCallFacts
<1>1. Busy(i) /\ worker[i].at \notin Driven /\ Around /\ UNCHANGED <<run, effects, failure>> /\ Goto(i, "advance")
  BY DEF Wake, Busy, Driven, Around, loopVars
<1> QED BY <1>1, LooksStep DEF WorkerPoints, Driven

\* The store's refusal of a dispatch has a name.
LEMMA VerdictIs ==
  ASSUME NEW accepted, NEW v \in Verdicts(accepted)
  PROVE  v # "none"
BY DEF Verdicts, DispatchError

LEMMA AskStep ==
  ASSUME LoopInv, NEW i \in Slots, Ask(i), UNCHANGED loopVars
  PROVE  LoopInv' /\ (SameCallFacts \/ \E t \in Calls : Asks(t))
<1> DEFINE t == CallAt(i)
<1>1. Busy(i) /\ worker[i].at \notin Driven /\ Around /\ effects' = effects
  BY DEF Ask, Busy, Driven, Around, loopVars
<1>2. run.activeStep # 0 /\ RunKept
  BY <1>1 DEF LoopInv, BusyWhere
<1>3. t \in Calls
  BY <1>2, OpenStepIs
<1>4. PICK v \in Verdicts(CanRequestApproval(run, t)) :
          IF v = "accepted"
          THEN run' = RequestApproval(run, t) /\ due' = FALSE /\ Goto(i, "waiting") /\ UNCHANGED failure
          ELSE Fail(i, v) /\ UNCHANGED <<run, due>>
  BY DEF Ask
<1>5. CASE v # "accepted"
  BY <1>1, <1>4, <1>5, VerdictIs, FailStep
<1>6. CASE v = "accepted"
  <2>1. CanRequestApproval(run, t) /\ run' = RequestApproval(run, t) /\ Goto(i, "waiting") /\ failure' = failure
    BY <1>4, <1>6, VerdictAccepted
  <2>2. RunKept' /\ CallAsked(run, run', t)
    <3> HIDE DEF t
    <3> QED BY <1>2, <1>3, <2>1, RequestApprovalInv, RequestApprovalOutcome, AskedEvent DEF RunKept
  <2>3. run.tools[t].status = "created" /\ run.activeTools = {} /\ IsOpen(run.tools[t])
    BY <2>1 DEF CanRequestApproval, IsOpen, OpenCall
  <2>4. CallsKnown'
    <3>1. \A u \in Calls : u # t => run'.tools[u] = run.tools[u] /\ run'.approvals[u] = run.approvals[u]
      BY <2>2 DEF CallAsked, OtherCalls
    <3>2. run'.tools[t].status = "waiting_for_approval" /\ run'.tools[t].started = run.tools[t].started
      BY <2>2 DEF CallAsked
    <3>3. ~run.tools[t].started
      BY <1>3, <2>3 DEF LoopInv, CallsKnown
    <3> QED BY <1>1, <3>1, <3>2, <3>3 DEF LoopInv, CallsKnown
  <2>5. OwnCall(i) /\ t \notin run'.activeTools
    BY <2>2, <2>3 DEF CallAsked, OtherCalls, OwnCall
  <2>6. Moves(i, "waiting", worker[i].out)
    BY <2>1, GotoMoves DEF LoopInv, WorkerPoints
  <2>7. effects' \in [Calls -> 0..1]
    BY <1>1 DEF LoopInv, LoopType
  <2>8. "waiting" \in Driven <=> CallAt(i) \in run'.activeTools
    BY <2>5 DEF Driven
  <2>9. LoopInv'
    BY <1>1, <2>1, <2>2, <2>4, <2>5, <2>6, <2>7, <2>8, CallStep
  <2>10. Asks(t)
    BY <1>1, <2>1, <2>2 DEF Asks
  <2> QED BY <1>3, <2>9, <2>10
<1> QED BY <1>5, <1>6

LEMMA StartCallStep ==
  ASSUME LoopInv, NEW i \in Slots, Start(i), UNCHANGED loopVars
  PROVE  LoopInv' /\ (SameCallFacts \/ \E t \in Calls : Starts(t))
<1> DEFINE t == CallAt(i)
<1>1. Busy(i) /\ worker[i].at \notin Driven /\ Around /\ effects' = effects
  BY DEF Start, Busy, Driven, Around, loopVars
<1>2. run.activeStep # 0 /\ RunKept
  BY <1>1 DEF LoopInv, BusyWhere
<1>3. t \in Calls
  BY <1>2, OpenStepIs
<1>4. PICK v \in Verdicts(CanStartTool(run, t)) :
          IF v = "accepted"
          THEN run' = StartTool(run, t) /\ Goto(i, "before") /\ UNCHANGED failure
          ELSE Fail(i, v) /\ UNCHANGED run
  BY DEF Start
<1>5. CASE v # "accepted"
  BY <1>1, <1>4, <1>5, VerdictIs, FailStep
<1>6. CASE v = "accepted"
  <2>1. CanStartTool(run, t) /\ run' = StartTool(run, t) /\ Goto(i, "before") /\ failure' = failure
    BY <1>4, <1>6, VerdictAccepted
  <2>2. RunKept' /\ CallStarted(run, run', t)
    <3> HIDE DEF t
    <3> QED BY <1>2, <1>3, <2>1, StartToolInv, StartToolOutcome, StartedEvent DEF RunKept
  <2>3. run.tools[t].status = "created" /\ IsOpen(run.tools[t])
    BY <2>1 DEF CanStartTool, IsOpen, OpenCall
  <2>4. ~run.tools[t].started /\ effects[t] = 0
    BY <1>3, <2>3 DEF LoopInv, CallsKnown
  <2>5. CallsKnown'
    <3>1. \A u \in Calls : u # t => run'.tools[u] = run.tools[u] /\ run'.approvals[u] = run.approvals[u]
      BY <2>2 DEF CallStarted, OtherCalls
    <3>2. run'.tools[t].status = "running" /\ run'.tools[t].started
      BY <2>2 DEF CallStarted
    <3> QED BY <1>1, <3>1, <3>2 DEF LoopInv, CallsKnown
  <2>6. OwnCall(i) /\ t \in run'.activeTools
    BY <2>2 DEF CallStarted, OtherCalls, OwnCall
  <2>7. Moves(i, "before", worker[i].out)
    BY <2>1, GotoMoves DEF LoopInv, WorkerPoints
  <2>8. effects' \in [Calls -> 0..1] /\ effects'[t] = 0
    BY <1>1, <2>4 DEF LoopInv, LoopType
  <2>9. "before" \in Driven <=> CallAt(i) \in run'.activeTools
    BY <2>6 DEF Driven
  <2>10. LoopInv'
    BY <1>1, <2>1, <2>2, <2>5, <2>6, <2>7, <2>8, <2>9, CallStep
  <2>11. Starts(t)
    BY <1>1, <2>1, <2>2 DEF Starts
  <2> QED BY <1>3, <2>10, <2>11
<1> QED BY <1>5, <1>6

\* What a body may report.
LEMMA BodyOutcomes ==
  ASSUME NEW out \in BodyFailures \cup {Cancelled, Outcome("succeeded", "completed", "runner")}
  PROVE  /\ out \in WorkerOutcomes /\ out # NoOutcome
         /\ out \in BodyFailures \cup {Cancelled} => out.status # "succeeded"
<1>1. out \in {Cancelled, Outcome("succeeded", "completed", "runner"),
               Outcome("failed", "failed", "runner"), Outcome("failed", "cleanup_failed", "runner")}
  BY DEF BodyFailures
<1>2. out \in BodyFailures \cup {Cancelled} =>
        out \in {Cancelled, Outcome("failed", "failed", "runner"), Outcome("failed", "cleanup_failed", "runner")}
  BY DEF BodyFailures
<1>3. out.status # "none" /\ NoOutcome.status = "none"
  BY <1>1 DEF Outcome, Cancelled, NoOutcome
<1>4. out \in BodyFailures \cup {Cancelled} => out.status # "succeeded"
  BY <1>2 DEF Outcome, Cancelled
<1> QED BY <1>1, <1>3, <1>4 DEF WorkerOutcomes

LEMMA BeforeEffectStep ==
  ASSUME LoopInv, NEW i \in Slots, BeforeEffect(i), UNCHANGED loopVars
  PROVE  LoopInv' /\ SameCallFacts
<1>1. Busy(i) /\ worker[i].at = "before" /\ worker[i].at \in Driven /\ Around /\ UNCHANGED <<run, effects>>
  BY DEF BeforeEffect, Busy, Driven, Around, loopVars
<1>2. CASE Stopped /\ Fail(i, "service_stopped")
  BY <1>1, <1>2, FailStep
<1>3. CASE Goto(i, "effect") /\ UNCHANGED failure
  <2>1. Moves(i, "effect", worker[i].out)
    BY <1>3, GotoMoves DEF LoopInv, WorkerPoints
  <2> QED BY <1>1, <1>3, <2>1, DrivesStep DEF Driven
<1>4. ASSUME NEW out \in BodyFailures \cup {Cancelled}, Hold(i, "commit", out), UNCHANGED failure
      PROVE  LoopInv' /\ SameCallFacts
  <2>1. out \in WorkerOutcomes /\ out # NoOutcome /\ out.status # "succeeded"
    BY BodyOutcomes
  <2>2. Moves(i, "commit", out)
    BY <1>4, <2>1, HoldMoves DEF LoopInv, WorkerPoints
  <2> QED BY <1>1, <1>4, <2>1, <2>2, DrivesStep DEF Driven
<1> QED BY <1>2, <1>3, <1>4 DEF BeforeEffect

LEMMA EffectStep ==
  ASSUME LoopInv, NEW i \in Slots, Effect(i), UNCHANGED loopVars
  PROVE  LoopInv' /\ \E t \in Calls : Applies(t)
<1> DEFINE t == CallAt(i)
<1>1. /\ Busy(i) /\ worker[i].at = "effect" /\ worker[i].at \in Driven /\ Around
      /\ UNCHANGED <<run, failure>> /\ Goto(i, "body")
  BY DEF Effect, Busy, Driven, Around, loopVars
<1>2. run.activeStep # 0 /\ RunKept
  BY <1>1 DEF LoopInv, BusyWhere
<1>3. t \in Calls /\ t \in run.activeTools /\ effects[t] = 0
  BY <1>1, <1>2, OpenStepIs DEF LoopInv, Owned, BodiesKnown
<1>4. effects' = [effects EXCEPT ![t] = 1]
  BY <1>3 DEF Effect
<1>5. effects' \in [Calls -> 0..1] /\ effects'[t] = 1 /\ \A u \in Calls : u # t => effects'[u] = effects[u]
  BY <1>3, <1>4 DEF LoopInv, LoopType
<1>6. run.tools[t].status = "running" /\ IsOpen(run.tools[t])
  BY <1>2, <1>3, ActiveCall
<1>7. RunKept' /\ OwnCall(i)
  BY <1>1, <1>2 DEF RunKept, OwnCall
<1>8. CallsKnown'
  <2>1. run.tools[t].started
    BY <1>3, <1>6 DEF LoopInv, CallsKnown
  <2> QED BY <1>1, <1>5, <1>6, <2>1 DEF LoopInv, CallsKnown
<1>9. Moves(i, "body", worker[i].out)
  BY <1>1, GotoMoves DEF LoopInv, WorkerPoints
<1>10. "body" \in Driven <=> CallAt(i) \in run'.activeTools
  BY <1>1, <1>3 DEF Driven
<1>11. LoopInv'
  BY <1>1, <1>5, <1>7, <1>8, <1>9, <1>10, CallStep
<1> QED BY <1>1, <1>3, <1>4, <1>11 DEF Applies

LEMMA BodyEndsStep ==
  ASSUME LoopInv, NEW i \in Slots, BodyEnds(i), UNCHANGED loopVars
  PROVE  LoopInv' /\ SameCallFacts
<1>1. Busy(i) /\ worker[i].at = "body" /\ worker[i].at \in Driven /\ Around /\ UNCHANGED <<run, effects>>
  BY DEF BodyEnds, Busy, Driven, Around, loopVars
<1>2. CASE Stopped /\ Fail(i, "service_stopped")
  BY <1>1, <1>2, FailStep
<1>3. ASSUME NEW out \in BodyFailures \cup {Cancelled, Outcome("succeeded", "completed", "runner")},
             Hold(i, "commit", out), UNCHANGED failure
      PROVE  LoopInv' /\ SameCallFacts
  <2>1. out \in WorkerOutcomes /\ out # NoOutcome
    BY BodyOutcomes
  <2>2. Moves(i, "commit", out)
    BY <1>3, <2>1, HoldMoves DEF LoopInv, WorkerPoints
  <2> QED BY <1>1, <1>3, <2>1, <2>2, DrivesStep DEF Driven
<1> QED BY <1>2, <1>3 DEF BodyEnds

LEMMA CommitTurnStep ==
  ASSUME LoopInv, NEW i \in Slots, CommitTurn(i), UNCHANGED loopVars
  PROVE  LoopInv' /\ SameCallFacts
<1> DEFINE out == worker[i].out
<1>1. Busy(i) /\ worker[i].at = "commit" /\ worker[i].at \in Driven /\ Around /\ UNCHANGED <<run, effects>>
  BY DEF CommitTurn, Busy, Driven, Around, loopVars
<1>2. CASE Stopped /\ Fail(i, "service_stopped")
  BY <1>1, <1>2, FailStep
<1>3. CASE Goto(i, "finish") /\ UNCHANGED failure
  <2>1. Moves(i, "finish", out) /\ out # NoOutcome
    BY <1>1, <1>3, GotoMoves DEF LoopInv, WorkerPoints, Owned
  <2> HIDE DEF out
  <2>2. out = worker[i].out
    BY DEF out
  <2> QED BY <1>1, <1>3, <2>1, <2>2, DrivesStep DEF Driven
<1> QED BY <1>2, <1>3 DEF CommitTurn

-----------------------------------------------------------------------------
(***************************************************************************)
(* The loop's steps that launch a worker or move a call.                   *)
(***************************************************************************)
\* The loop starts a worker in an idle slot without a running call.
LEMMA LaunchWorkerStep ==
  ASSUME LoopInv, NEW i \in Slots, NEW p \in {"waitStart", "await", "sweeping"},
         Goto(i, "advance"), pc' = p, next' = i + 1, UNCHANGED <<answer, goal>>,
         UNCHANGED <<run, control, stopping, effects>>,
         run.activeStep # 0, CallAt(i) \notin run.activeTools,
         failure' = "none", failure = "none" \/ run.activeTools = {},
         p = "sweeping" => run.cancelRequested,
         p # "waitStart" => \A j \in Slots : ~Busy(j),
         p # "sweeping" => \A j \in Slots : j > i => worker[j].at = "idle",
         Cardinality(Held) < MaxParallel \/ Held \subseteq {i}
  PROVE  LoopInv' /\ SameCallFacts
<1>1. Moves(i, "advance", worker[i].out)
  BY GotoMoves DEF LoopInv, WorkerPoints
<1>2. \A j \in Slots : CallAt(j)' = CallAt(j) /\ CallAt(j)[2] = j
  BY OpenStepIs DEF LoopInv, CallAt
<1>3. SameCallFacts
  BY DEF SameCallFacts
<1>4. RunKept' /\ CallsKnown'
  BY <1>3, SameKnown DEF LoopInv, RunKept
<1>5. LoopType'
  BY <1>1, BoundsAssumption DEF LoopInv, LoopType, Moves, Slots, Points
<1>6. Placed'
  <2>1. i + 1 > 1
    BY BoundsAssumption DEF Slots
  <2> QED BY <2>1 DEF Placed, InStep, InRequest, InTools, BetweenSteps
<1>7. BusyWhere'
  BY DEF BusyWhere, InTools
<1>8. Launched'
  <2>1. pc' \notin Unlaunched
    BY DEF Unlaunched, BetweenSteps, InRequest
  <2>2. ASSUME pc' \in InTools, NEW j \in Slots, j >= next' PROVE worker'[j].at = "idle"
    BY <1>1, <2>2, BoundsAssumption DEF Moves, InTools, Slots
  <2>3. ASSUME pc' \in {"await", "sweeping"}, NEW j \in Slots, Busy(j)' PROVE j = next' - 1
    <3>1. j = i
      BY <1>1, <2>3 DEF Moves, Busy
    <3> QED BY <3>1, BoundsAssumption DEF Slots
  <2> QED BY <2>1, <2>2, <2>3 DEF Launched
<1>9. Owned'
  <2>1. \A j \in Slots : worker'[j].at \in Driven => CallAt(j)' \in run'.activeTools
    BY <1>1, <1>2 DEF LoopInv, Owned, Moves, Driven
  <2>2. \A j \in Slots : worker'[j].at \in {"commit", "finish"} => worker'[j].out # NoOutcome
    BY <1>1 DEF LoopInv, Owned, Moves
  <2>3. \A j \in Slots : worker'[j].at = "cancel" => run'.cancelRequested
    BY <1>1 DEF LoopInv, Owned, Moves
  <2>4. \A t \in run'.activeTools : worker'[t[2]].at \in Driven
    <3>1. SUFFICES ASSUME NEW t \in run.activeTools, failure = "none" PROVE worker'[t[2]].at \in Driven
      OBVIOUS
    <3>2. worker[t[2]].at \in Driven
      BY <3>1 DEF LoopInv, Owned
    <3>3. t[2] \in Slots /\ t = CallAt(t[2])
      BY ActiveCall DEF LoopInv
    <3>4. t[2] # i
      BY <3>3
    <3> QED BY <1>1, <3>2, <3>3, <3>4 DEF Moves
  <2> QED BY <2>1, <2>2, <2>3, <2>4 DEF Owned
<1>10. HeldBound'
  <2>1. Held' \subseteq Held \cup {i}
    BY <1>1 DEF Held, Busy, Moves
  <2>2. IsFiniteSet(Held)
    BY FiniteSlots, FS_Subset DEF Held
  <2> HIDE DEF Held
  <2>3. IsFiniteSet(Held \cup {i}) /\ Cardinality(Held) \in Nat
        /\ Cardinality(Held \cup {i}) <= Cardinality(Held) + 1
    <3>1. IsFiniteSet(Held \cup {i}) /\ Cardinality(Held \cup {i}) \in {Cardinality(Held), Cardinality(Held) + 1}
      BY <2>2, FS_AddElement
    <3> QED BY <2>2, <3>1, FS_CardinalityType
  <2>4. IsFiniteSet(Held') /\ Cardinality(Held') <= Cardinality(Held \cup {i})
        /\ Cardinality(Held') \in Nat /\ Cardinality(Held \cup {i}) \in Nat
    BY <2>1, <2>3, FS_Subset, FS_CardinalityType
  <2>5. MaxParallel \in Nat \ {0}
    BY ParallelAssumption
  <2>6. CASE Cardinality(Held) < MaxParallel
    BY <2>3, <2>4, <2>5, <2>6 DEF HeldBound
  <2>7. CASE Held \subseteq {i}
    <3>1. Held \cup {i} = {i}
      BY <2>7
    <3>2. Cardinality({i}) = 1
      BY FS_Singleton
    <3> QED BY <2>4, <2>5, <3>1, <3>2 DEF HeldBound
  <2> QED BY <2>6, <2>7
<1>11. BodiesKnown'
  BY <1>1, <1>2 DEF LoopInv, BodiesKnown, Moves
<1> QED BY <1>3, <1>4, <1>5, <1>6, <1>7, <1>8, <1>9, <1>10, <1>11 DEF LoopInv

\* An error among the tools, once nobody works any more.
LEMMA RestThrowInTools ==
  ASSUME LoopInv, UNCHANGED toolVars, NEW code, ThrowInTools(code), run.activeStep # 0, \A i \in Slots : ~Busy(i)
  PROVE  LoopInv'
<1>1. CASE GotoLoop("starve")
  <2>1. Placed'
    BY <1>1 DEF GotoLoop, Placed, toolVars, InStep, InRequest, InTools, BetweenSteps
  <2> QED BY <1>1, <2>1, RestGoto DEF Points, Unlaunched, InTools, BetweenSteps, InRequest
<1>2. CASE Throw(code)
  BY <1>2, RestThrow
<1> QED BY <1>1, <1>2 DEF ThrowInTools

LEMMA PoolStep ==
  ASSUME LoopInv, Pool
  PROVE  LoopInv' /\ SameCallFacts
<1>1. pc = "pool" /\ run.activeStep # 0 /\ RunKept
  BY DEF Pool, LoopInv, Placed, InStep, InTools
<1>2. CASE next <= answer.calls /\ failure = "none"
  <2>1. next \in Slots
    BY <1>2, BoundsAssumption DEF LoopInv, LoopType, Slots
  <2>2. \A j \in Slots : j > next => worker[j].at = "idle"
    BY <1>1, <2>1, BoundsAssumption DEF LoopInv, Launched, InTools, Slots
  <2>3. worker[next].at = "idle"
    BY <1>1, <2>1, BoundsAssumption DEF LoopInv, Launched, InTools, Slots
  <2>4. \A t \in run.activeTools : worker[t[2]].at \in Driven
    BY <1>2 DEF LoopInv, Owned
  <2>5. CallAt(next) \notin run.activeTools
    BY <1>1, <2>1, <2>3, <2>4, OpenStepIs DEF Driven
  <2>6. Held = BusySlots
    BY <2>4 DEF Held, BusySlots, Busy, Driven
  <2>7. CASE Cardinality(BusySlots) < MaxParallel /\ LaunchWorker(next, "waitStart")
    <3>1. /\ Goto(next, "advance") /\ pc' = "waitStart" /\ next' = next + 1 /\ UNCHANGED <<answer, goal>>
          /\ UNCHANGED <<run, control, stopping, effects, failure>>
      BY <2>7 DEF LaunchWorker
    <3> QED BY <1>1, <1>2, <2>1, <2>2, <2>5, <2>6, <2>7, <3>1, LaunchWorkerStep
  <2>8. CASE BusySlots = {} /\ LaunchWorker(next, "await")
    <3>1. /\ Goto(next, "advance") /\ pc' = "await" /\ next' = next + 1 /\ UNCHANGED <<answer, goal>>
          /\ UNCHANGED <<run, control, stopping, effects, failure>>
      BY <2>8 DEF LaunchWorker
    <3>2. (\A j \in Slots : ~Busy(j)) /\ Held \subseteq {next}
      BY <2>6, <2>8 DEF BusySlots
    <3> QED BY <1>1, <1>2, <2>1, <2>2, <2>5, <3>1, <3>2, LaunchWorkerStep
  <2> QED BY <1>1, <1>2, <2>7, <2>8 DEF Pool
<1>3. CASE ~(next <= answer.calls /\ failure = "none")
  <2>1. UNCHANGED toolVars /\ \A i \in Slots : ~Busy(i)
    BY <1>3 DEF Pool, BusySlots
  <2>2. CASE GotoLoop("tooled")
    <3>1. Placed'
      BY <1>1, <2>1, <2>2 DEF GotoLoop, Placed, toolVars, InStep, InRequest, InTools, BetweenSteps
    <3> QED BY <2>1, <2>2, <3>1, RestGoto DEF Points, Unlaunched, InTools, BetweenSteps, InRequest, SameCallFacts, toolVars
  <2>3. CASE ThrowInTools(failure)
    BY <1>1, <2>1, <2>3, RestThrowInTools DEF SameCallFacts, toolVars
  <2> QED BY <1>3, <2>2, <2>3 DEF Pool
<1> QED BY <1>2, <1>3

\* The first open call of a cancelled run is not running, so no call is.
LEMMA NobodyRuns ==
  ASSUME RunKept, run.activeStep # 0, NEW i \in Slots, FirstOpen(i), run.tools[CallAt(i)].status # "running"
  PROVE  run.activeTools = {}
<1>1. SUFFICES ASSUME NEW t \in run.activeTools PROVE FALSE
  OBVIOUS
<1>2. /\ t \in Calls /\ t[2] \in Slots /\ t = CallAt(t[2])
      /\ run.tools[t].status = "running" /\ IsOpen(run.tools[t])
  BY ActiveCall
<1>3. CallAt(i) \in Calls /\ CallAt(i)[1] = run.activeStep /\ CallAt(i)[2] = i /\ t[1] = run.activeStep
  BY <1>2, OpenStepIs
<1>4. i < t[2]
  <2>1. t[2] # i
    BY <1>2
  <2>2. ~(t[2] < i)
    <3>1. SUFFICES ASSUME t[2] < i PROVE FALSE
      OBVIOUS
    <3>2. t[2] \in 1..(i - 1)
      BY <1>2, <3>1, BoundsAssumption DEF Slots
    <3>3. ~IsOpen(run.tools[CallAt(t[2])])
      BY <3>2 DEF FirstOpen
    <3> QED BY <1>2, <3>3
  <2> QED BY <1>2, <2>1, <2>2, BoundsAssumption DEF Slots
<1>5. CallAt(i) \in EarlierOpen(run, t)
  BY <1>2, <1>3, <1>4, EarlierIs DEF EarlierOpen, FirstOpen
<1>6. run.tools[CallAt(i)].status = "running"
  BY <1>2, <1>5 DEF RunKept, OutcomeInv, ExclusiveAlone
<1> QED BY <1>6

LEMMA SweepStep ==
  ASSUME LoopInv, Sweep
  PROVE  LoopInv' /\ SameCallFacts
<1>1. pc = "sweep" /\ (\A j \in Slots : ~Busy(j)) /\ RunKept /\ run.cancelRequested
  BY NobodyBusy DEF Sweep, InTools, LoopInv, Placed
<1>2. CASE run.activeStep # 0 /\ \E i \in Slots : FirstOpen(i)
  <2>1. PICK i \in Slots :
            /\ FirstOpen(i)
            /\ IF run.tools[CallAt(i)].status = "running"
               THEN Throw("unowned_dispatch") /\ UNCHANGED toolVars
               ELSE /\ Goto(i, "advance") /\ failure' = "none"
                    /\ pc' = "sweeping" /\ next' = i + 1
                    /\ UNCHANGED <<answer, compacted, goal, error, caught>>
                    /\ UNCHANGED <<run, control, stopping, due, unresolvable, effects>>
    BY <1>2 DEF Sweep
  <2>2. CASE run.tools[CallAt(i)].status = "running"
    BY <1>1, <2>1, <2>2, RestThrow DEF SameCallFacts, toolVars
  <2>3. CASE run.tools[CallAt(i)].status # "running"
    <3>1. run.activeTools = {}
      BY <1>1, <1>2, <2>1, <2>3, NobodyRuns
    <3>2. Held \subseteq {i}
      BY <1>1, <3>1 DEF Held
    <3> QED BY <1>1, <1>2, <2>1, <2>3, <3>1, <3>2, LaunchWorkerStep
  <2> QED BY <2>2, <2>3
<1>3. CASE ~(run.activeStep # 0 /\ \E i \in Slots : FirstOpen(i))
  <2>1. UNCHANGED toolVars /\ \E outcome \in {Failed("cleanup_failed"), Cancelled} : CloseWith(outcome)
    BY <1>3 DEF Sweep
  <2> QED BY <1>1, <2>1, RestClose, OutcomesAre DEF TerminalStatus, SameCallFacts, toolVars
<1> QED BY <1>2, <1>3

LEMMA CreateDeclaredStep ==
  ASSUME LoopInv, CreateDeclared
  PROVE  LoopInv' /\ (SameCallFacts \/ \E t \in Calls : Declares(t))
<1> DEFINE t == CallAt(next)
<1>1. /\ \A i \in Slots : ~Busy(i)
      /\ pc = "create" /\ RunKept /\ run.activeStep # 0
      /\ UNCHANGED <<control, stopping, due, effects, worker, failure>>
  BY NobodyBusy DEF CreateDeclared, InTools, LoopInv, Placed, InStep
<1>2. next \in Slots
  BY <1>1, BoundsAssumption DEF LoopInv, LoopType, Placed, Slots
<1>3. t \in Calls
  BY <1>1, <1>2, OpenStepIs
<1>4. PICK v \in Verdicts(CanCreateCall(run, t)) :
          IF v = "accepted"
          THEN /\ \E kind \in CallKinds :
                    /\ run' = CreateCall(run, t, kind.gated, kind.mode)
                    /\ unresolvable' = IF kind.resolvable THEN unresolvable ELSE unresolvable \cup {next}
               /\ pc' = "prepare" /\ next' = next + 1
               /\ UNCHANGED <<answer, compacted, goal, error, caught>>
          ELSE ThrowInTools(v) /\ UNCHANGED <<run, unresolvable>>
  BY DEF CreateDeclared
<1>5. CASE v # "accepted"
  <2>1. UNCHANGED toolVars
    BY <1>1, <1>4, <1>5 DEF toolVars
  <2> QED BY <1>1, <1>4, <1>5, <2>1, RestThrowInTools DEF SameCallFacts, toolVars
<1>6. CASE v = "accepted"
  <2>1. CanCreateCall(run, t)
    BY <1>6, VerdictAccepted
  <2>2. PICK kind \in CallKinds : run' = CreateCall(run, t, kind.gated, kind.mode)
    BY <1>4, <1>6
  <2>3. kind.gated \in BOOLEAN /\ kind.mode \in {"parallel", "exclusive"}
    <3>1. CallKinds \subseteq [mode : {"parallel", "exclusive"}, gated : BOOLEAN, resolvable : BOOLEAN]
      BY DEF CallKinds
    <3>2. kind \in [mode : {"parallel", "exclusive"}, gated : BOOLEAN, resolvable : BOOLEAN]
      BY <3>1
    <3> QED BY <3>2
  <2>4. RunKept' /\ CallCreated(run, run', t, kind.gated, kind.mode)
    <3> HIDE DEF t
    <3> QED BY <1>1, <1>3, <2>1, <2>2, <2>3, CreateCallInv, CreateCallOutcome, CreatedEvent DEF RunKept
  <2>5. pc' = "prepare" /\ next' = next + 1 /\ UNCHANGED <<answer, goal>>
    BY <1>4, <1>6
  <2>6. LoopType'
    <3>1. next + 1 \in 1..(MaxCall + 1)
      BY <1>2, BoundsAssumption DEF Slots
    <3> QED BY <1>1, <2>5, <3>1 DEF LoopInv, LoopType, Points
  <2>7. Placed'
    BY <1>1, <2>4, <2>5 DEF CallCreated, Placed, InStep, InRequest, InTools, BetweenSteps
  <2>8. CallsKnown'
    <3>1. run.tools[t].status = "absent" /\ run.tools \in [Calls -> CallType]
      BY <1>1, <2>1 DEF CanCreateCall, RunKept, RunInv, RunType
    <3>2. effects[t] = 0
      BY <1>3, <3>1 DEF LoopInv, CallsKnown
    <3>3. run'.tools[t].status = "created" /\ run'.tools[t].started = FALSE
          /\ \A u \in Calls : u # t => run'.tools[u] = run.tools[u]
      BY <1>3, <2>4, <3>1 DEF CallCreated
    <3> QED BY <1>1, <2>4, <3>2, <3>3 DEF LoopInv, CallsKnown, CallCreated
  <2>9. run'.activeTools \subseteq run.activeTools
    BY <2>4 DEF CallCreated
  <2>10. LoopInv'
    BY <1>1, <2>4, <2>5, <2>6, <2>7, <2>8, <2>9, RestStep DEF Stopped, Unlaunched
  <2>11. Declares(t)
    BY <1>1, <2>1, <2>3, <2>4 DEF Declares
  <2> QED BY <1>3, <2>10, <2>11
<1> QED BY <1>5, <1>6

LEMMA StarveStep ==
  ASSUME LoopInv, Starve
  PROVE  LoopInv' /\ (SameCallFacts \/ \E t \in Calls : Settles(t))
<1> DEFINE out == Outcome("failed", "limit_exceeded", "system")
<1>1. /\ \A i \in Slots : ~Busy(i)
      /\ pc = "starve" /\ RunKept /\ run.activeStep # 0
      /\ UNCHANGED <<control, stopping, due, unresolvable, effects, worker, failure>>
  BY NobodyBusy DEF Starve, InTools, LoopInv, Placed, InStep
<1>2. Failed("limit_exceeded").status \in TerminalStatus
  BY OutcomesAre DEF TerminalStatus
<1>3. CASE CloseWith(Failed("limit_exceeded")) /\ UNCHANGED run
  <2>1. UNCHANGED toolVars
    BY <1>1, <1>3 DEF toolVars
  <2> QED BY <1>1, <1>2, <1>3, <2>1, RestClose DEF SameCallFacts, toolVars
<1>4. CASE Throw("tool-order") /\ UNCHANGED run
  <2>1. UNCHANGED toolVars
    BY <1>1, <1>4 DEF toolVars
  <2> QED BY <1>1, <1>4, <2>1, RestThrow DEF SameCallFacts, toolVars
<1>5. ASSUME NEW i \in Slots, CanFinishTool(run, CallAt(i), out),
             run' = FinishTool(run, CallAt(i), out), CloseWith(Failed("limit_exceeded"))
      PROVE  LoopInv' /\ \E t \in Calls : Settles(t)
  <2> DEFINE t == CallAt(i)
  <2>1. t \in Calls
    BY <1>1, OpenStepIs
  <2>2. out.status = "failed" /\ out.status \in TerminalCall
    BY DEF Outcome, TerminalCall
  <2> HIDE DEF out
  <2>3. /\ RunKept' /\ CallSettled(run, run', t, out.status)
        /\ IsOpen(run.tools[t]) /\ EarlierOpen(run, t) = {}
    <3>1. CanFinishTool(run, t, out) /\ run' = FinishTool(run, t, out)
      BY <1>5
    <3> HIDE DEF t
    <3> QED BY <1>1, <2>1, <2>2, <3>1, SettledRun
  <2>4. CallsKnown'
    BY <1>1, <2>1, <2>2, <2>3, SettledKnown
  <2>5. pc' = "finish" /\ goal'.status \in TerminalStatus /\ UNCHANGED <<answer, next>>
    BY <1>2, <1>5, Closed
  <2>6. LoopType' /\ Placed'
    BY <1>1, <2>5, Leaving DEF LoopInv, LoopType
  <2>7. run'.activeTools \subseteq run.activeTools
    BY <2>3 DEF CallSettled
  <2>8. LoopInv'
    BY <1>1, <2>3, <2>4, <2>5, <2>6, <2>7, RestStep DEF Stopped, Unlaunched, InTools, InRequest, BetweenSteps
  <2>9. Settles(t)
    BY <1>1, <2>2, <2>3 DEF Settles
  <2> QED BY <2>1, <2>8, <2>9
<1> QED BY <1>3, <1>4, <1>5 DEF Starve

-----------------------------------------------------------------------------
(***************************************************************************)
(* Everybody else's steps.                                                 *)
(***************************************************************************)
LEMMA UserDecidesStep ==
  ASSUME LoopInv, NEW t \in Calls, NEW d \in {"allowed", "denied"}, UserDecides(t, d)
  PROVE  LoopInv' /\ Decides(t)
<1>1. /\ CanResolveApproval(run, t, d, "user") /\ run' = ResolveApproval(run, t, d) /\ RunKept
      /\ UNCHANGED <<control, stopping, effects, worker, failure, loopVars>>
  BY DEF UserDecides, LoopInv
<1>2. RunKept' /\ CallDecided(run, run', t, d)
  BY <1>1, ResolveApprovalInv, ResolveApprovalOutcome, DecidedEvent DEF RunKept
<1>3. run.approvals[t] = "pending" /\ run.tools[t].status = "waiting_for_approval"
  BY <1>1 DEF CanResolveApproval, RunKept, RunInv, ActiveSetsAgree
<1>4. CallsKnown'
  <2>1. \A u \in Calls : u # t => run'.tools[u] = run.tools[u] /\ run'.approvals[u] = run.approvals[u]
    BY <1>2 DEF CallDecided, OtherCalls
  <2>2. /\ run'.tools[t].status \in {"created", "waiting_for_approval"}
        /\ run'.tools[t].started = run.tools[t].started
    BY <1>2, <1>3 DEF CallDecided
  <2>3. ~run.tools[t].started
    BY <1>3 DEF LoopInv, CallsKnown, IsOpen, OpenCall
  <2> QED BY <1>1, <2>1, <2>2, <2>3 DEF LoopInv, CallsKnown
<1>5. LoopInv'
  BY <1>1, <1>2, <1>4, AsideStep DEF CallDecided, OtherCalls, Stopped
<1> QED BY <1>1, <1>2, <1>3, <1>5 DEF Decides

LEMMA UserCancelsStep ==
  ASSUME LoopInv, UserCancels
  PROVE  LoopInv' /\ SameCallFacts
<1>1. /\ run' = RequestCancel(run) /\ RunKept
      /\ UNCHANGED <<control, stopping, effects, worker, failure, loopVars>>
  BY DEF UserCancels, LoopInv
<1>2. CanRequestCancel(run) /\ run.status \in LiveStatus
  BY DEF UserCancels
<1>3. RunKept' /\ SameCalls(run, run') /\ run'.activeRequest = run.activeRequest
  BY <1>1, <1>2, RequestCancelInv, RequestCancelOutcome, QuietEvents DEF RunKept
<1>4. SameCallFacts
  BY <1>1, <1>3 DEF SameCalls, SameCallFacts
<1>5. CallsKnown'
  BY <1>4, SameKnown
<1> QED BY <1>1, <1>3, <1>4, <1>5, AsideStep DEF SameCalls, Stopped

\* The monitor, the clock and the shutdown.
LEMMA AbortStep ==
  ASSUME LoopInv, UNCHANGED <<run, effects, worker, failure, loopVars>>,
         Stopped => Stopped', control = "stopped" => control' = "stopped"
  PROVE  LoopInv' /\ SameCallFacts
<1>1. RunKept' /\ SameCallFacts
  BY DEF LoopInv, RunKept, SameCallFacts
<1>2. CallsKnown'
  BY <1>1, SameKnown
<1> QED BY <1>1, <1>2, AsideStep

LEMMA LoopInitially == Init => LoopInv
<1> SUFFICES ASSUME Init PROVE LoopInv
  OBVIOUS
<1>1. PICK c \in Commands : run = AdmitMessage(StartedRun(c))
  BY DEF Init
<1>2. RunInv(StartedRun(c)) /\ OutcomeInv(StartedRun(c))
  BY StartedRunInv, StartedRunOutcome
<1>3. RunKept
  <2>1. CanAdmitMessage(StartedRun(c), c)
    BY DEF CanAdmitMessage, StartedRun, AbsentRun, Dispatchable
  <2> QED BY <1>1, <1>2, <2>1, AdmitMessageInv, AdmitMessageOutcome DEF RunKept
<1>4. /\ run.activeStep = 0 /\ run.activeTools = {} /\ run.steps = [k \in Steps |-> "absent"]
      /\ \A t \in Calls : run.tools[t].status = "absent" /\ run.approvals[t] = "absent"
  <2>1. SameCalls(StartedRun(c), run)
    BY <1>1, <1>2, QuietEvents
  <2>2. /\ AbsentRun.activeStep = 0 /\ AbsentRun.activeTools = {} /\ AbsentRun.steps = [k \in Steps |-> "absent"]
        /\ \A t \in Calls : AbsentRun.tools[t].status = "absent" /\ AbsentRun.approvals[t] = "absent"
    BY DEF AbsentRun
  <2>3. AbsentRun \in RunType
    BY AbsentInv DEF RunInv
  <2>4. /\ StartedRun(c).activeStep = AbsentRun.activeStep /\ StartedRun(c).activeTools = AbsentRun.activeTools
        /\ StartedRun(c).steps = AbsentRun.steps /\ StartedRun(c).tools = AbsentRun.tools
        /\ StartedRun(c).approvals = AbsentRun.approvals
    BY <2>3 DEF StartedRun, RunType
  <2> QED BY <2>1, <2>2, <2>4 DEF SameCalls
<1>5. \A i \in Slots : worker[i].at = "idle" /\ worker[i] = Idle
  BY DEF Init, Idle
<1>6. LoopType
  BY BoundsAssumption DEF Init, LoopType, Idle, WorkerPoints, WorkerOutcomes, Points, NoAnswer, Answer, Completed,
     Outcome, TerminalStatus
<1>7. Placed
  <2>1. NextStep = 1
    <3>1. OpenSteps = {}
      BY <1>4 DEF OpenSteps
    <3> QED BY <3>1, FS_EmptySet DEF NextStep
  <2> QED BY <2>1, BoundsAssumption DEF Init, Placed, InStep, InRequest, InTools, BetweenSteps
<1>8. BusyWhere /\ Launched /\ BodiesKnown
  BY <1>5 DEF BusyWhere, Launched, BodiesKnown, Busy
<1>9. Owned
  BY <1>4, <1>5 DEF Owned, Driven
<1>10. HeldBound
  <2>1. Held = {}
    BY <1>4, <1>5 DEF Held, Busy
  <2> QED BY <2>1, FS_EmptySet, ParallelAssumption DEF HeldBound
<1>11. CallsKnown
  <2>1. \A t \in Calls : effects[t] = 0 /\ ~IsOpen(run.tools[t])
    BY <1>4 DEF Init, IsOpen, OpenCall
  <2> QED BY <1>4, <2>1 DEF CallsKnown
<1> QED BY <1>3, <1>6, <1>7, <1>8, <1>9, <1>10, <1>11 DEF LoopInv

-----------------------------------------------------------------------------
(***************************************************************************)
(* Every step keeps the invariant, and does one of seven things to the     *)
(* calls.                                                                  *)
(***************************************************************************)
OneCallMoves ==
  \/ SameCallFacts
  \/ \E t \in Calls : Declares(t) \/ Asks(t) \/ Decides(t) \/ Starts(t) \/ Applies(t) \/ Settles(t)

LEMMA PlacedFacts ==
  ASSUME UNCHANGED toolVars
  PROVE  SameCallFacts
BY DEF toolVars, SameCallFacts

LEMMA LoopStepStep ==
  ASSUME LoopInv, LoopStep
  PROVE  LoopInv' /\ OneCallMoves
<1>1. CASE Halt
  BY <1>1, HaltStep, PlacedFacts DEF Halt, OneCallMoves
<1>2. CASE Top
  BY <1>2, TopStep, PlacedFacts DEF Top, OneCallMoves
<1>3. CASE OpenStep
  BY <1>3, OpenStepStep DEF OneCallMoves
<1>4. CASE Compact
  BY <1>4, CompactStep DEF OneCallMoves
<1>5. CASE Summarize
  BY <1>5, SummarizeStep, PlacedFacts DEF Summarize, OneCallMoves
<1>6. CASE SettleCompaction
  BY <1>6, SettleCompactionStep DEF OneCallMoves
<1>7. CASE AfterCompact
  BY <1>7, AfterCompactStep, PlacedFacts DEF AfterCompact, OneCallMoves
<1>8. CASE TooLarge
  BY <1>8, TooLargeStep, PlacedFacts DEF TooLarge, OneCallMoves
<1>9. CASE StartModelRequest
  BY <1>9, StartModelRequestStep DEF OneCallMoves
<1>10. CASE Launch
  BY <1>10, LaunchStep DEF OneCallMoves
<1>11. CASE Reading
  BY <1>11, ReadingStep, PlacedFacts DEF Reading, OneCallMoves
<1>12. CASE AppendDelta
  BY <1>12, AppendDeltaStep DEF OneCallMoves
<1>13. CASE CheckAnswer
  BY <1>13, CheckAnswerStep, PlacedFacts DEF CheckAnswer, OneCallMoves
<1>14. CASE RecordAnswer
  BY <1>14, RecordAnswerStep DEF OneCallMoves
<1>15. CASE Recorded
  BY <1>15, RecordedStep, PlacedFacts DEF Recorded, OneCallMoves
<1>16. CASE Prepare
  BY <1>16, PrepareStep, PlacedFacts DEF Prepare, OneCallMoves
<1>17. CASE CreateDeclared
  BY <1>17, CreateDeclaredStep DEF OneCallMoves
<1>18. CASE Pool
  BY <1>18, PoolStep DEF OneCallMoves
<1>19. CASE WaitStart
  BY <1>19, WaitedStep, PlacedFacts DEF WaitStart, OneCallMoves
<1>20. CASE AwaitExclusive
  BY <1>20, WaitedStep, PlacedFacts DEF AwaitExclusive, OneCallMoves
<1>21. CASE Starve
  BY <1>21, StarveStep DEF OneCallMoves
<1>22. CASE Tooled
  BY <1>22, TooledStep, PlacedFacts DEF Tooled, OneCallMoves
<1>23. CASE CloseStep
  BY <1>23, CloseStepStep DEF OneCallMoves
<1>24. CASE StepClosed
  BY <1>24, StepClosedStep DEF OneCallMoves
<1>25. CASE Cancel
  BY <1>25, CancelStep DEF OneCallMoves
<1>26. CASE Sweep
  BY <1>26, SweepStep DEF OneCallMoves
<1>27. CASE Sweeping
  BY <1>27, SweepingStep, PlacedFacts DEF Sweeping, OneCallMoves
<1>28. CASE FinishLoad
  BY <1>28, FinishLoadStep, PlacedFacts DEF FinishLoad, OneCallMoves
<1>29. CASE CloseRun
  BY <1>29, CloseRunStep DEF OneCallMoves
<1>30. CASE Catch
  BY <1>30, CatchStep, PlacedFacts DEF Catch, OneCallMoves
<1> QED BY <1>1, <1>2, <1>3, <1>4, <1>5, <1>6, <1>7, <1>8, <1>9, <1>10, <1>11, <1>12, <1>13, <1>14, <1>15,
           <1>16, <1>17, <1>18, <1>19, <1>20, <1>21, <1>22, <1>23, <1>24, <1>25, <1>26, <1>27, <1>28, <1>29, <1>30
        DEF LoopStep

LEMMA WorkerStepStep ==
  ASSUME LoopInv, NEW i \in Slots, WorkerStep(i), UNCHANGED loopVars
  PROVE  LoopInv' /\ OneCallMoves
<1>1. CASE Advance(i)
  BY <1>1, AdvanceStep DEF OneCallMoves
<1>2. CASE Wake(i)
  BY <1>2, WakeStep DEF OneCallMoves
<1>3. CASE SettleUndispatched(i)
  BY <1>3, SettleUndispatchedStep DEF OneCallMoves
<1>4. CASE Expire(i)
  BY <1>4, ExpireStep DEF OneCallMoves
<1>5. CASE Ask(i)
  BY <1>5, AskStep DEF OneCallMoves
<1>6. CASE Start(i)
  BY <1>6, StartCallStep DEF OneCallMoves
<1>7. CASE BeforeEffect(i)
  BY <1>7, BeforeEffectStep DEF OneCallMoves
<1>8. CASE Effect(i)
  BY <1>8, EffectStep DEF OneCallMoves
<1>9. CASE BodyEnds(i)
  BY <1>9, BodyEndsStep DEF OneCallMoves
<1>10. CASE CommitTurn(i)
  BY <1>10, CommitTurnStep DEF OneCallMoves
<1>11. CASE Finish(i)
  BY <1>11, FinishCallStep DEF OneCallMoves
<1> QED BY <1>1, <1>2, <1>3, <1>4, <1>5, <1>6, <1>7, <1>8, <1>9, <1>10, <1>11 DEF WorkerStep

LEMMA EveryStep ==
  ASSUME LoopInv, [Next]_vars
  PROVE  LoopInv' /\ OneCallMoves
<1>1. CASE LoopStep
  BY <1>1, LoopStepStep
<1>2. ASSUME NEW i \in Slots, WorkerStep(i), UNCHANGED loopVars
      PROVE  LoopInv' /\ OneCallMoves
  BY <1>2, WorkerStepStep
<1>3. CASE Monitor
  BY <1>3, AbortStep DEF Monitor, OneCallMoves, Stopped
<1>4. CASE MonitorFails
  BY <1>4, AbortStep DEF MonitorFails, OneCallMoves, Stopped
<1>5. CASE UserCancels
  BY <1>5, UserCancelsStep DEF OneCallMoves
<1>6. CASE \E t \in Calls, d \in {"allowed", "denied"} : UserDecides(t, d)
  BY <1>6, UserDecidesStep DEF OneCallMoves
<1>7. CASE Deadline
  BY <1>7, AbortStep DEF Deadline, OneCallMoves, Stopped
<1>8. CASE ServiceCloses
  BY <1>8, AbortStep DEF ServiceCloses, OneCallMoves, Stopped
<1>9. CASE UNCHANGED vars
  BY <1>9, AbortStep DEF vars, toolVars, OneCallMoves, Stopped
<1> QED BY <1>1, <1>2, <1>3, <1>4, <1>5, <1>6, <1>7, <1>8, <1>9 DEF Next

(***************************************************************************)
(* The theorems.                                                           *)
(***************************************************************************)
\* The run stays one the reducer's rules allow, every worker drives the call it owns, and no worker lives where
\* the loop of agent-loop.ts is not waiting for it, unless a shutdown threw the loop out.
THEOREM LoopInvariant == Spec => []LoopInv
<1>1. LoopInv /\ [Next]_vars => LoopInv'
  BY EveryStep
<1> QED BY <1>1, LoopInitially, PTL DEF Spec

\* PoolBound: at most MaxParallel calls are driven, and dispatched, at once, the calls of failed workers included.
THEOREM PoolBoundCorrect == Spec => []PoolBound
<1>1. LoopInv => PoolBound
  <2> SUFFICES ASSUME LoopInv PROVE PoolBound
    OBVIOUS
  <2> DEFINE Taken == {t[2] : t \in run.activeTools}
  <2>1. \A t \in run.activeTools : t \in Calls /\ t[2] \in Slots /\ t = CallAt(t[2])
    BY ActiveCall DEF LoopInv
  <2>2. IsFiniteSet(Held)
    BY FiniteSlots, FS_Subset DEF Held
  <2>3. BusySlots \subseteq Held /\ Taken \subseteq Held
    BY <2>1 DEF BusySlots, Held
  <2>4. MaxParallel \in Nat /\ Cardinality(Held) \in Nat /\ Cardinality(Held) <= MaxParallel
    BY <2>2, FS_CardinalityType, ParallelAssumption DEF LoopInv, HeldBound
  <2>5. Cardinality(BusySlots) <= MaxParallel
    BY <2>2, <2>3, <2>4, FS_Subset, FS_CardinalityType
  <2>6. IsFiniteSet(Taken) /\ Cardinality(Taken) \in Nat /\ Cardinality(Taken) <= MaxParallel
    <3> HIDE DEF Taken
    <3> QED BY <2>2, <2>3, <2>4, FS_Subset, FS_CardinalityType
  <2>7. Cardinality(run.activeTools) <= Cardinality(Taken) /\ Cardinality(run.activeTools) \in Nat
    <3> DEFINE f == [t \in run.activeTools |-> t[2]]
    <3>1. f \in Injection(run.activeTools, Taken)
      BY <2>1 DEF Injection, IsInjective
    <3> HIDE DEF f
    <3> QED BY <2>6, <3>1, FS_Injection, FS_CardinalityType
  <2> QED BY <2>4, <2>5, <2>6, <2>7 DEF PoolBound
<1> QED BY <1>1, LoopInvariant, PTL

\* Drained: a loop that nobody stopped ends alone, and of a call still running the outcome was known.
THEOREM DrainedCorrect == Spec => []Drained
<1>1. LoopInv => Drained
  <2> SUFFICES ASSUME LoopInv, pc = "ended", ~Stopped
               PROVE  BusySlots = {} /\ \A t \in run.activeTools : worker[t[2]].out # NoOutcome
    BY DEF Drained
  <2>1. \A i \in Slots : ~Busy(i)
    BY DEF LoopInv, BusyWhere, InTools, Stopped
  <2>2. \A t \in run.activeTools : t[2] \in Slots
    BY ActiveCall DEF LoopInv
  <2>3. \A t \in run.activeTools : worker[t[2]].at \notin Driven
    BY <2>1, <2>2 DEF Busy, Driven
  <2>4. \A t \in run.activeTools : worker[t[2]].out # NoOutcome
    BY <2>3 DEF LoopInv, Owned
  <2> QED BY <2>1, <2>4 DEF BusySlots
<1> QED BY <1>1, LoopInvariant, PTL

-----------------------------------------------------------------------------
(***************************************************************************)
(* The refinement of EffectLedger.  A call's phase is read from its        *)
(* record; its effects are counted as they happen.                         *)
(***************************************************************************)
PhaseOf(call) ==
  CASE call.status = "absent"                        -> "undeclared"
    [] IsOpen(call) /\ ~call.started                 -> "held"
    [] IsOpen(call) /\ call.started                  -> "dispatched"
    [] call.status \in TerminalCall /\ ~call.started -> "refused"
    [] call.status \in TerminalCall /\ call.started  -> IF call.status = "succeeded" THEN "succeeded" ELSE "settled"

LEMMA PhaseOfIs ==
  ASSUME NEW call,
         call.status \in {"absent"} \cup OpenCall \cup TerminalCall, call.started \in BOOLEAN,
         IsOpen(call) => (call.started <=> call.status = "running")
  PROVE  /\ call.status = "absent" => PhaseOf(call) = "undeclared"
         /\ call.status \in {"created", "waiting_for_approval"} => PhaseOf(call) = "held"
         /\ call.status = "running" => PhaseOf(call) = "dispatched"
         /\ call.status \in TerminalCall =>
              PhaseOf(call) = (IF ~call.started THEN "refused"
                               ELSE IF call.status = "succeeded" THEN "succeeded" ELSE "settled")
<1>1. CASE call.status = "absent"
  BY <1>1 DEF PhaseOf, IsOpen, OpenCall, TerminalCall
<1>2. CASE call.status \in {"created", "waiting_for_approval"}
  BY <1>2 DEF PhaseOf, IsOpen, OpenCall, TerminalCall
<1>3. CASE call.status = "running"
  BY <1>3 DEF PhaseOf, IsOpen, OpenCall, TerminalCall
<1>4. CASE call.status \in TerminalCall
  BY <1>4 DEF PhaseOf, IsOpen, OpenCall, TerminalCall
<1> QED BY <1>1, <1>2, <1>3, <1>4 DEF OpenCall

LEMMA Phases ==
  ASSUME LoopInv, NEW t \in Calls
  PROVE  /\ run.tools[t].status \in {"absent"} \cup OpenCall \cup TerminalCall
         /\ run.tools[t].status = "absent" <=> Phase(t) = "undeclared"
         /\ run.tools[t].status \in {"created", "waiting_for_approval"} <=> Phase(t) = "held"
         /\ run.tools[t].status = "running" <=> Phase(t) = "dispatched"
         /\ run.tools[t].status \in TerminalCall <=> Phase(t) \in {"refused", "succeeded", "settled"}
<1>1. Phase(t) = PhaseOf(run.tools[t])
  BY DEF Phase, PhaseOf
<1>2. run.tools[t].status \in {"absent"} \cup OpenCall \cup TerminalCall /\ run.tools[t].started \in BOOLEAN
  BY DEF LoopInv, RunKept, RunInv, RunType, CallType
<1>3. IsOpen(run.tools[t]) => (run.tools[t].started <=> run.tools[t].status = "running")
  BY DEF LoopInv, CallsKnown
<1> HIDE DEF Phase, PhaseOf
<1>4. /\ run.tools[t].status = "absent" => Phase(t) = "undeclared"
      /\ run.tools[t].status \in {"created", "waiting_for_approval"} => Phase(t) = "held"
      /\ run.tools[t].status = "running" => Phase(t) = "dispatched"
      /\ run.tools[t].status \in TerminalCall =>
           Phase(t) = (IF ~run.tools[t].started THEN "refused"
                       ELSE IF run.tools[t].status = "succeeded" THEN "succeeded" ELSE "settled")
  BY <1>1, <1>2, <1>3, PhaseOfIs
<1> QED BY <1>2, <1>4 DEF OpenCall, TerminalCall

LEMMA PhaseNext ==
  ASSUME LoopInv', NEW t \in Calls
  PROVE  /\ run'.tools[t].status \in {"created", "waiting_for_approval"} => Phase(t)' = "held"
         /\ run'.tools[t].status = "running" => Phase(t)' = "dispatched"
         /\ run'.tools[t].status \in TerminalCall =>
              Phase(t)' = (IF ~run'.tools[t].started THEN "refused"
                           ELSE IF run'.tools[t].status = "succeeded" THEN "succeeded" ELSE "settled")
<1>1. Phase(t)' = PhaseOf(run'.tools[t])
  BY DEF Phase, PhaseOf
<1>2. run'.tools[t].status \in {"absent"} \cup OpenCall \cup TerminalCall /\ run'.tools[t].started \in BOOLEAN
  BY DEF LoopInv, RunKept, RunInv, RunType, CallType
<1>3. IsOpen(run'.tools[t]) => (run'.tools[t].started <=> run'.tools[t].status = "running")
  BY DEF LoopInv, CallsKnown
<1> HIDE DEF Phase, PhaseOf
<1> QED BY <1>1, <1>2, <1>3, PhaseOfIs

\* A step that moves call t alone.
LEMMA MoveIs ==
  ASSUME NEW t \in Calls, NEW to, Phase(t)' = to,
         \A u \in Calls : u # t => run'.tools[u] = run.tools[u]
  PROVE  L!Move(t, to)
<1>1. \A u \in Calls : u # t => Phase(u)' = Phase(u)
  BY DEF Phase
<1> HIDE DEF Phase
<1> QED BY <1>1 DEF L!Move

\* The gates, the modes and the effects of the calls stay.
LEMMA SameIs ==
  ASSUME NEW t \in Calls, OtherCalls(run, run', t), Gate(t)' = Gate(t), effects' = effects,
         run'.tools[t].status # "absent", run.tools[t].status # "absent"
  PROVE  L!Same
<1>1. \A u \in Calls : Gate(u)' = Gate(u)
  BY DEF OtherCalls, Gate
<1>2. \A u \in Calls : /\ run'.tools[u].mode = run.tools[u].mode
                       /\ run'.tools[u].status = "absent" <=> run.tools[u].status = "absent"
  BY DEF OtherCalls
<1> HIDE DEF Gate
<1> QED BY <1>1, <1>2 DEF L!Same

LEMMA InFlightIs ==
  ASSUME LoopInv
  PROVE  L!InFlight = run.activeTools
<1>1. \A t \in Calls : run.tools[t].status = "running" <=> t \in run.activeTools
  BY DEF LoopInv, RunKept, RunInv, ActiveSetsAgree
<1>2. run.activeTools \subseteq Calls
  BY DEF LoopInv, RunKept, RunInv, RunType
<1>3. \A t \in Calls : Phase(t) = "dispatched" <=> t \in run.activeTools
  BY <1>1, Phases
<1> HIDE DEF Phase
<1> QED BY <1>2, <1>3 DEF L!InFlight

\* An earlier call of a declared call is settled or open.
LEMMA EarlierPhase ==
  ASSUME LoopInv, NEW t \in Calls, run.tools[t].status # "absent", NEW u \in L!Before(t)
  PROVE  u \in Calls /\ u \in EarlierSlots(t) /\ (L!Closed(u) \/ u \in EarlierOpen(run, t))
<1>1. u \in Calls /\ u \in EarlierSlots(t)
  BY EarlierIs DEF L!Before
<1>2. run.tools[u].status # "absent"
  BY <1>1 DEF LoopInv, RunKept, OutcomeInv, SettledInOrder
<1>3. IsOpen(run.tools[u]) \/ Phase(u) \in {"refused", "succeeded", "settled"}
  BY <1>1, <1>2, Phases DEF IsOpen
<1> HIDE DEF Phase
<1> QED BY <1>1, <1>3 DEF EarlierOpen, L!Closed

LEMMA StutterIs ==
  ASSUME SameCallFacts
  PROVE  UNCHANGED L!vars
<1>1. \A t \in Calls : Phase(t)' = Phase(t) /\ Gate(t)' = Gate(t)
  BY DEF SameCallFacts, Phase, Gate
<1> HIDE DEF Phase, Gate
<1> QED BY <1>1 DEF SameCallFacts, L!vars

LEMMA DeclareIs ==
  ASSUME LoopInv, LoopInv', NEW t \in Calls, Declares(t)
  PROVE  L!Declare(t)
<1>1. PICK gated \in BOOLEAN, mode \in {"parallel", "exclusive"} : CallCreated(run, run', t, gated, mode)
  BY DEF Declares
<1>2. run.tools \in [Calls -> CallType] /\ CanCreateCall(run, t) /\ effects' = effects
  BY DEF Declares, LoopInv, RunKept, RunInv, RunType
<1>3. /\ run'.tools[t].status = "created" /\ run'.tools[t].gated = gated /\ run'.tools[t].mode = mode
      /\ \A u \in Calls : u # t => run'.tools[u] = run.tools[u]
  BY <1>1, <1>2 DEF CallCreated
<1>4. L!Move(t, "held")
  BY <1>2, <1>3, PhaseNext, MoveIs
<1>5. Phase(t) = "undeclared" /\ \A u \in L!Before(t) : Phase(u) # "undeclared"
  <2>1. \A u \in L!Before(t) : u \in Calls /\ u \in EarlierSlots(t)
    BY EarlierIs DEF L!Before
  <2> QED BY <1>2, <2>1, Phases DEF CanCreateCall
<1>6. \A u \in Calls : u # t => Gate(u)' = Gate(u)
  BY <1>1, <1>3 DEF Gate, CallCreated
<1>7. Gate(t)' \in {"open", "shut"}
  <2>1. run'.approvals[t] = "absent"
    BY <1>1, <1>2 DEF LoopInv, CallsKnown, CallCreated, CanCreateCall
  <2> QED BY <2>1 DEF Gate
<1> DEFINE gates == [u \in Calls |-> Gate(u)]
           shared == {u \in Calls : run.tools[u].mode = "parallel" /\ run.tools[u].status # "absent"}
<1>8. gates' \in {[gates EXCEPT ![t] = g] : g \in {"open", "shut"}}
  <2>1. gates' = [gates EXCEPT ![t] = Gate(t)']
    <3> HIDE DEF Gate
    <3> QED BY <1>6
  <2> HIDE DEF gates, Gate
  <2> QED BY <1>7, <2>1
<1>9. shared' \in {shared, shared \cup {t}}
  <2>1. \A u \in Calls : u # t => (u \in shared' <=> u \in shared)
    BY <1>3
  <2>2. shared' \subseteq Calls /\ shared \subseteq Calls /\ t \notin shared
    BY <1>2 DEF CanCreateCall
  <2> HIDE DEF shared
  <2>3. CASE t \in shared'
    <3>1. shared' = shared \cup {t}
      BY <2>1, <2>2, <2>3
    <3> QED BY <3>1
  <2>4. CASE t \notin shared'
    <3>1. shared' = shared
      BY <2>1, <2>2, <2>4
    <3> QED BY <3>1
  <2> QED BY <2>3, <2>4
<1> DEFINE phases == [u \in Calls |-> Phase(u)]
<1>10. phases[t] = "undeclared" /\ \A u \in L!Before(t) : phases[u] # "undeclared"
  <2>1. \A u \in L!Before(t) : u \in Calls
    BY DEF L!Before
  <2> HIDE DEF Phase
  <2> QED BY <1>5, <2>1
<1> HIDE DEF Phase, Gate, phases, gates, shared
<1> QED BY <1>2, <1>4, <1>8, <1>9, <1>10 DEF L!Declare, phases, gates, shared

LEMMA AskIs ==
  ASSUME LoopInv, LoopInv', NEW t \in Calls, Asks(t)
  PROVE  UNCHANGED L!vars
<1>1. /\ CallAsked(run, run', t) /\ effects' = effects
      /\ run.tools[t].status = "created" /\ run.tools[t].gated /\ run.approvals[t] = "absent"
  BY DEF Asks, CanRequestApproval
<1>2. \A u \in Calls : u # t => run'.tools[u] = run.tools[u]
  BY <1>1 DEF CallAsked, OtherCalls
<1>3. Gate(t)' = Gate(t)
  BY <1>1 DEF CallAsked, OtherCalls, Gate
<1>4. L!Same
  BY <1>1, <1>3, SameIs DEF CallAsked
<1>5. Phase(t)' = "held" /\ Phase(t) = "held"
  BY <1>1, PhaseNext, Phases DEF CallAsked
<1>6. \A u \in Calls : Phase(u)' = Phase(u)
  <2>1. \A u \in Calls : u # t => Phase(u)' = Phase(u)
    BY <1>1, <1>2 DEF Phase
  <2> QED BY <1>5, <2>1
<1> HIDE DEF Phase, Gate
<1> QED BY <1>4, <1>6 DEF L!vars, L!Same

LEMMA DecideIs ==
  ASSUME LoopInv, LoopInv', NEW t \in Calls, Decides(t)
  PROVE  L!Allow(t) \/ UNCHANGED L!vars
<1>1. PICK d \in {"allowed", "denied"} : CallDecided(run, run', t, d)
  BY DEF Decides
<1>2. run.approvals[t] = "pending" /\ run.tools[t].status = "waiting_for_approval" /\ effects' = effects
  BY DEF Decides, LoopInv, RunKept, RunInv, ActiveSetsAgree
<1>3. /\ \A u \in Calls : u # t => run'.tools[u] = run.tools[u] /\ run'.approvals[u] = run.approvals[u]
      /\ run'.tools[t].status \in {"created", "waiting_for_approval"}
      /\ run'.tools[t].gated = run.tools[t].gated /\ run'.tools[t].mode = run.tools[t].mode
      /\ run'.approvals[t] = d
  BY <1>1, <1>2 DEF CallDecided, OtherCalls
<1>4. Phase(t) = "held" /\ Phase(t)' = "held"
  BY <1>2, <1>3, Phases, PhaseNext
<1>5. \A u \in Calls : Phase(u)' = Phase(u)
  <2>1. \A u \in Calls : u # t => Phase(u)' = Phase(u)
    BY <1>2, <1>3 DEF Phase
  <2> QED BY <1>4, <2>1
<1>6. CASE run.tools[t].gated /\ d = "allowed"
  <2>1. Gate(t) = "shut" /\ Gate(t)' = "decided" /\ \A u \in Calls : u # t => Gate(u)' = Gate(u)
    BY <1>2, <1>3, <1>6 DEF Gate
  <2>2. \A u \in Calls : /\ run'.tools[u].mode = run.tools[u].mode
                         /\ run'.tools[u].status = "absent" <=> run.tools[u].status = "absent"
    BY <1>2, <1>3
  <2> HIDE DEF Phase, Gate
  <2> QED BY <1>2, <1>4, <1>5, <2>1, <2>2 DEF L!Allow
<1>7. CASE ~(run.tools[t].gated /\ d = "allowed")
  <2>1. Gate(t)' = Gate(t)
    BY <1>2, <1>3, <1>7 DEF Gate
  <2>2. L!Same
    BY <1>1, <1>2, <1>3, <2>1, SameIs DEF CallDecided
  <2> HIDE DEF Phase, Gate
  <2> QED BY <1>5, <2>2 DEF L!vars, L!Same
<1> QED BY <1>6, <1>7

LEMMA DispatchIs ==
  ASSUME LoopInv, LoopInv', NEW t \in Calls, Starts(t)
  PROVE  L!Dispatch(t)
<1>1. CanStartTool(run, t) /\ CallStarted(run, run', t) /\ effects' = effects
  BY DEF Starts
<1>2. run.tools[t].status = "created" /\ MayStartTool(run, t) /\ (run.tools[t].gated => run.approvals[t] = "allowed")
  BY <1>1 DEF CanStartTool
<1>3. run'.tools[t].status = "running" /\ \A u \in Calls : u # t => run'.tools[u] = run.tools[u]
  BY <1>1 DEF CallStarted, OtherCalls
<1>4. Phase(t) = "held"
  BY <1>2, Phases
<1>5. Phase(t)' = "dispatched"
  BY <1>1, <1>3, <1>4, PhaseNext
<1>6. L!Move(t, "dispatched")
  BY <1>3, <1>5, MoveIs
<1>7. Gate(t)' = Gate(t) /\ Gate(t) # "shut"
  BY <1>1, <1>2 DEF Gate, CallStarted, OtherCalls
<1>8. L!Same
  BY <1>1, <1>2, <1>3, <1>7, SameIs DEF CallStarted
<1>9. L!InFlight = run.activeTools /\ run.activeTools \subseteq Calls
  BY InFlightIs DEF LoopInv, RunKept, RunInv, RunType
<1>10. \A u \in L!Before(t) : L!Closed(u) \/ u \in L!InFlight
  <2>1. SUFFICES ASSUME NEW u \in L!Before(t), ~L!Closed(u) PROVE u \in run.activeTools
    BY <1>9
  <2>2. u \in Calls /\ u \in EarlierOpen(run, t)
    BY <1>2, <2>1, EarlierPhase
  <2>3. run.tools[u].status = "running"
    BY <1>2, <2>2 DEF MayStartTool
  <2> QED BY <2>2, <2>3 DEF LoopInv, RunKept, RunInv, ActiveSetsAgree
<1> DEFINE shared == {u \in Calls : run.tools[u].mode = "parallel" /\ run.tools[u].status # "absent"}
<1>11. L!InFlight # {} => L!InFlight \cup {t} \subseteq shared
  <2>1. SUFFICES ASSUME run.activeTools # {}, NEW u \in run.activeTools \cup {t} PROVE u \in shared
    BY <1>9
  <2>2. run.tools[t].mode = "parallel"
    BY <1>2, <2>1 DEF MayStartTool, LoopInv, RunKept, RunInv, RunType, CallType
  <2>3. CASE u = t
    BY <1>2, <2>2, <2>3
  <2>4. CASE u \in run.activeTools
    <3>1. run.tools[u].mode = "parallel"
      BY <1>2, <2>2, <2>4 DEF MayStartTool
    <3>2. u \in Calls /\ run.tools[u].status = "running"
      BY <1>9, <2>4 DEF LoopInv, RunKept, RunInv, ActiveSetsAgree
    <3> QED BY <3>1, <3>2
  <2> QED BY <2>1, <2>3, <2>4
<1> HIDE DEF Phase, Gate
<1> QED BY <1>4, <1>6, <1>7, <1>8, <1>10, <1>11 DEF L!Dispatch

LEMMA ApplyIs ==
  ASSUME LoopInv, LoopInv', NEW t \in Calls, Applies(t)
  PROVE  L!Apply(t)
<1>1. t \in run.activeTools /\ effects[t] = 0 /\ effects' = [effects EXCEPT ![t] = 1] /\ run' = run
  BY DEF Applies
<1>2. run.tools[t].status = "running"
  BY <1>1 DEF LoopInv, RunKept, RunInv, ActiveSetsAgree
<1>3. Phase(t) = "dispatched"
  BY <1>1, <1>2, Phases DEF LoopInv, RunKept, RunInv, RunType
<1>4. \A u \in Calls : Phase(u)' = Phase(u) /\ Gate(u)' = Gate(u)
  BY <1>1 DEF Phase, Gate
<1> HIDE DEF Phase, Gate
<1> QED BY <1>1, <1>3, <1>4 DEF L!Apply

LEMMA SettleIs ==
  ASSUME LoopInv, LoopInv', NEW t \in Calls, Settles(t)
  PROVE  L!Refuse(t) \/ L!Settle(t)
<1>1. PICK status \in TerminalCall : CallSettled(run, run', t, status) /\ (status = "succeeded" => effects[t] = 1)
  BY DEF Settles
<1>2. IsOpen(run.tools[t]) /\ EarlierOpen(run, t) = {} /\ effects' = effects
  BY DEF Settles
<1>3. run.tools[t].status # "absent" /\ status # "absent"
  BY <1>2 DEF IsOpen, OpenCall, TerminalCall
<1>4. /\ run'.tools[t].status = status /\ run'.tools[t].started = run.tools[t].started
      /\ \A u \in Calls : u # t => run'.tools[u] = run.tools[u]
  BY <1>1 DEF CallSettled, OtherCalls
<1>5. Gate(t)' = Gate(t)
  BY <1>1 DEF Gate, CallSettled, OtherCalls
<1>6. L!Same
  BY <1>1, <1>2, <1>3, <1>4, <1>5, SameIs DEF CallSettled
<1>7. \A u \in L!Before(t) : L!Closed(u)
  BY <1>2, <1>3, EarlierPhase
<1>8. run.tools[t].started <=> run.tools[t].status = "running"
  BY <1>2 DEF LoopInv, CallsKnown
<1>9. Phase(t)' = (IF ~run.tools[t].started THEN "refused" ELSE IF status = "succeeded" THEN "succeeded" ELSE "settled")
  BY <1>4, PhaseNext
<1>10. \A to : Phase(t)' = to => L!Move(t, to)
  BY <1>2, <1>4, MoveIs
<1>11. CASE run.tools[t].status # "running"
  <2>1. Phase(t) = "held" /\ L!Move(t, "refused")
    BY <1>2, <1>8, <1>9, <1>10, <1>11, Phases DEF IsOpen, OpenCall
  <2> HIDE DEF Phase
  <2> QED BY <1>6, <1>7, <2>1 DEF L!Refuse
<1>12. CASE run.tools[t].status = "running"
  <2>1. t \in L!InFlight
    BY <1>12, InFlightIs DEF LoopInv, RunKept, RunInv, ActiveSetsAgree
  <2>2. L!Move(t, "settled") \/ (effects[t] = 1 /\ L!Move(t, "succeeded"))
    <3>1. CASE status = "succeeded"
      BY <1>1, <1>8, <1>9, <1>10, <1>12, <3>1
    <3>2. CASE status # "succeeded"
      BY <1>8, <1>9, <1>10, <1>12, <3>2
    <3> QED BY <3>1, <3>2
  <2> HIDE DEF Phase
  <2> QED BY <1>6, <1>7, <2>1, <2>2 DEF L!Settle
<1> QED BY <1>11, <1>12

\* Ledger: whatever happens around the loop, its calls keep the promises of EffectLedger: an effect only of a
\* call that is dispatched behind its gate and not yet settled, and no second one; settlements in the order of
\* declaration, and a success only of what took effect.
THEOREM LedgerCorrect == Spec => Ledger
<1>1. Init => L!Init
  <2> SUFFICES ASSUME Init PROVE L!Init
    OBVIOUS
  <2>1. PICK c \in Commands : run = AdmitMessage(StartedRun(c))
    BY DEF Init
  <2>2. run.tools = AbsentRun.tools
    <3>1. SameCalls(StartedRun(c), run)
      BY <2>1, StartedRunInv, QuietEvents
    <3>2. AbsentRun \in RunType
      BY AbsentInv DEF RunInv
    <3>3. StartedRun(c).tools = AbsentRun.tools
      BY <3>2 DEF StartedRun, RunType
    <3> QED BY <3>1, <3>3 DEF SameCalls
  <2>3. \A t \in Calls : run.tools[t].status = "absent" /\ run.tools[t].gated = FALSE
    BY <2>2 DEF AbsentRun
  <2>4. \A t \in Calls : Phase(t) = "undeclared" /\ Gate(t) = "open"
    <3>1. \A t \in Calls : Gate(t) = "open"
      BY <2>3 DEF Gate
    <3> QED BY <2>3, <3>1, LoopInitially, Phases
  <2>5. effects = [t \in Calls |-> 0]
    BY DEF Init
  <2> HIDE DEF Phase, Gate
  <2> QED BY <2>3, <2>4, <2>5 DEF L!Init
<1>2. LoopInv /\ LoopInv' /\ [Next]_vars => [L!Next]_(L!vars)
  <2> SUFFICES ASSUME LoopInv, LoopInv', [Next]_vars PROVE L!Next \/ UNCHANGED L!vars
    OBVIOUS
  <2>1. OneCallMoves
    BY EveryStep
  <2>2. CASE SameCallFacts
    BY <2>2, StutterIs
  <2>3. ASSUME NEW t \in Calls, Declares(t) \/ Asks(t) \/ Decides(t) \/ Starts(t) \/ Applies(t) \/ Settles(t)
        PROVE  L!Next \/ UNCHANGED L!vars
    <3>1. \/ L!Declare(t) \/ L!Allow(t) \/ L!Refuse(t) \/ L!Dispatch(t) \/ L!Apply(t) \/ L!Settle(t)
          \/ UNCHANGED L!vars
      BY <2>3, DeclareIs, AskIs, DecideIs, DispatchIs, ApplyIs, SettleIs
    <3> QED BY <3>1 DEF L!Next
  <2> QED BY <2>1, <2>2, <2>3 DEF OneCallMoves
<1> QED BY <1>1, <1>2, LoopInvariant, PTL DEF Spec, Ledger, L!Spec

-----------------------------------------------------------------------------
(***************************************************************************)
(* LeftOpen.  While nobody stopped the service and every result could be   *)
(* saved, the loop knows of each of its appends which refusals it can      *)
(* meet; so the account below goes place by place.                         *)
(***************************************************************************)
Clear == ~Stopped /\ ~Unsaved

Undispatched == {"advance", "cancel", "refuse", "reject", "ask", "expire", "start", "waiting"}
Compacting   == {"compact", "summarizing", "compactionAnswered", "afterCompact"}
\* The places where no call of the open step was declared yet, and where all of them are.
Undeclared   == Compacting \cup InRequest \cup {"request", "recorded"}
Declared     == InTools \cup {"tooled", "closeStep"}

\* The open step's first request is answered with context_limit, and has no successor.
Overflowed ==
  /\ run.requests[<<run.activeStep, 1>>].status = "failed" /\ run.requests[<<run.activeStep, 1>>].reason = "context_limit"
  /\ run.requests[<<run.activeStep, 2>>].status = "absent"

Answers(o) ==
  /\ o.status \in {"succeeded", "failed", "cancelled"}
  /\ o.status = "succeeded" => o.reason = "completed"
  /\ o.status = "failed" => o.reason \in FailureReasons
  /\ o.status = "cancelled" => o.reason = "cancel_requested" /\ run.cancelRequested
  /\ o.origin = "runner"

\* The steps are 1..n, the open one is the last, and all but the open one asked for tools.
StepsInOrder ==
  /\ NextStep \in Nat \ {0} /\ OpenSteps = 1..(NextStep - 1)
  /\ run.activeStep # 0 => run.activeStep = NextStep - 1
  /\ pc # "ended" => \A k \in Steps : run.steps[k] # "absent" /\ k # run.activeStep =>
                       run.steps[k] = "completed" /\ LastRequest(run, k).calls > 0

RunOpen ==
  /\ run.userMessage
  /\ pc # "ended" => run.status = Activity(run)
  /\ control = "cancel_requested" => run.cancelRequested
  /\ pc \in {"top", "openStep"} => run.activeStep = 0

\* A request or a compaction is open only where the loop waits for it, or was left by a provider that does not close.
NothingElseOpen ==
  /\ run.activeRequest # NoRequest => pc \in InRequest \/ (pc \in {"catch", "ended"} /\ error = "provider_cleanup")
  /\ run.activeCompaction =>
       pc \in {"summarizing", "compactionAnswered"} \/ (pc \in {"catch", "ended"} /\ error = "provider_cleanup")

Unblocked ==
  /\ pc \in {"top", "compact", "summarizing", "compactionAnswered", "openStep", "request", "prepare", "create",
             "closeStep", "stepClosed"} \cup InRequest => run.blockedReason = NoReason
  /\ pc = "afterCompact" /\ (run.activeStep = 0 \/ compacted) => run.blockedReason = NoReason
  /\ pc = "recorded" /\ (answer.status = "succeeded" \/ (answer.reason = "context_limit" /\ LastAttempt(run, run.activeStep) = 1))
       => run.blockedReason = NoReason
  /\ pc = "recorded" => run.blockedReason \in {NoReason, answer.reason}
  /\ pc \in InTools \cup {"tooled"} => run.blockedReason \in {NoReason, "cleanup_failed"}

RequestsKnown ==
  /\ pc \in Compacting /\ run.activeStep # 0 => Overflowed
  /\ pc \in {"summarizing", "compactionAnswered"} => run.compaction.trigger = Trigger
  /\ pc = "afterCompact" /\ run.activeStep # 0 /\ compacted =>
       run.compaction.status = "succeeded" /\ run.compaction.trigger = "context_overflow"
  /\ pc = "request" => ValidAttempt(run, run.activeStep, NextAttempt)
                       /\ run.requests[<<run.activeStep, 2>>].status = "absent"
  /\ pc \in {"answered", "record", "recorded"} => Answers(answer)
  /\ pc = "recorded" => LET last == LastRequest(run, run.activeStep)
                        IN last.status = answer.status /\ last.reason = answer.reason /\ last.calls = answer.calls
  /\ pc \in {"prepare", "create"} \cup Declared =>
       /\ LastRequest(run, run.activeStep).status = "succeeded"
       /\ LastRequest(run, run.activeStep).calls = answer.calls
       /\ answer.calls > 0

DeclaredInOrder ==
  /\ pc \in Undeclared /\ run.activeStep # 0 => \A i \in Slots : run.tools[CallAt(i)].status = "absent"
  /\ pc \in {"prepare", "create"} =>
       /\ next <= answer.calls + 1
       /\ \A i \in Slots : run.tools[CallAt(i)].status = IF i < next THEN "created" ELSE "absent"
  /\ pc = "create" => next <= answer.calls
  /\ pc \in Declared => \A i \in Slots : i <= answer.calls => run.tools[CallAt(i)].status # "absent"
  /\ pc \in InTools => /\ next <= answer.calls + 1
                       /\ \A i \in Slots : i >= next => run.tools[CallAt(i)].status \in {"absent", "created"}
  /\ pc \in {"tooled", "closeStep"} => \A i \in Slots : ~IsOpen(run.tools[CallAt(i)])

\* What a call's kind says of its gate.
GatesKnown ==
  /\ \A t \in Calls : /\ run.tools[t].gated => run.tools[t].mode = "exclusive"
                      /\ run.approvals[t] # "absent" => run.tools[t].gated
                      /\ run.tools[t].status = "waiting_for_approval" =>
                           run.approvals[t] \in {"pending", "denied", "expired"}
                      /\ IsOpen(run.tools[t]) => run.approvals[t] # "cancelled"
  /\ run.activeStep # 0 => \A i \in Slots : i \in unresolvable =>
       run.tools[CallAt(i)].status # "absent" /\ run.tools[CallAt(i)].mode = "exclusive" /\ run.approvals[CallAt(i)] = "absent"
  /\ pc \in BetweenSteps /\ run.activeStep = 0 => unresolvable = {}

\* A worker that has not dispatched its call yet may still do so.
Turn ==
  \A i \in Slots : worker[i].at \in Undispatched =>
    /\ IsOpen(run.tools[CallAt(i)]) /\ run.tools[CallAt(i)].status # "running"
    /\ MayStartTool(run, CallAt(i))

Decided ==
  /\ \A i \in Slots : worker[i].at = "refuse" => run.approvals[CallAt(i)] \in {"denied", "expired"}
  /\ \A i \in Slots : worker[i].at = "reject" => i \in unresolvable
  /\ \A i \in Slots : worker[i].at = "ask" => /\ run.tools[CallAt(i)].gated /\ run.approvals[CallAt(i)] = "absent"
                                              /\ i \notin unresolvable
  /\ \A i \in Slots : worker[i].at = "start" => /\ run.approvals[CallAt(i)] \notin {"denied", "expired", "pending"}
                                                /\ run.tools[CallAt(i)].gated => run.approvals[CallAt(i)] = "allowed"
  /\ \A t \in Calls : run.approvals[t] = "pending" => worker[t[2]].at \in {"advance", "waiting", "expire", "cancel"}
  /\ \A i \in Slots : worker[i].at = "finish" => EarlierOpen(run, CallAt(i)) = {}
  /\ \A i \in Slots : worker[i].at \in {"commit", "finish"} /\ worker[i].out.status = "cancelled" => run.cancelRequested

\* Whom the loop has launched, and where they can be.
Crew ==
  /\ run.activeStep # 0 => \A i \in Slots : worker[i].at = "done" => run.tools[CallAt(i)].status \in TerminalCall
  /\ pc \in InTools => \A i \in Slots : /\ worker[i].at = "failed" => failure # "none"
                                        /\ i < next => worker[i].at # "idle"
  /\ pc \in {"pool", "waitStart"} => \A i \in Slots : Busy(i) => Mode(i) = "parallel"
  /\ pc = "pool" => \A i \in Slots : worker[i].at \notin Undispatched
  /\ pc = "waitStart" => \A i \in Slots : worker[i].at \in Undispatched => i = next - 1
  /\ pc = "sweeping" => /\ worker[next - 1].at \in {"advance", "cancel", "done"}
                        /\ worker[next - 1].at # "done" => EarlierOpen(run, CallAt(next - 1)) = {}

ErrorsKnown ==
  /\ \/ failure \in {"none", "workspace_blocked", "session_capacity"}
     \/ run.cancelRequested /\ failure \in {"cancelled-dispatch", "tool-order"}
  /\ pc = "catch" =>
       \/ error \in {"workspace_blocked", "provider_cleanup", "session_capacity"}
       \/ run.cancelRequested /\ error \in {"cancelled-dispatch", "tool-order", "unsettled-step"}
       \/ error = "unsettled-step" /\ goal = Failed("limit_exceeded")
  /\ caught => pc \in {"cancel", "sweep", "sweeping", "finish", "close", "ended"}
  /\ caught /\ pc \in {"finish", "close"} => goal.status = "cancelled" \/ goal.reason = "cleanup_failed"

Closing ==
  pc \in {"finish", "close"} /\ goal # Failed("limit_exceeded") =>
    /\ \A t \in Calls : ~IsOpen(run.tools[t])
    /\ goal.status = "completed" => /\ goal = Completed /\ ~caught /\ run.blockedReason = NoReason
                                    /\ run.activeStep # 0
                                    /\ LastRequest(run, run.activeStep).status = "succeeded"
                                    /\ LastRequest(run, run.activeStep).calls = 0
    /\ goal.status = "cancelled" => goal = Cancelled /\ run.cancelRequested /\ run.blockedReason # "cleanup_failed"
    /\ goal.status = "failed" => goal.origin = "runner" /\ goal.reason \in FailureReasons
    /\ goal.status # "interrupted"

OpenAccount ==
  /\ StepsInOrder /\ RunOpen /\ NothingElseOpen /\ Unblocked
  /\ RequestsKnown /\ DeclaredInOrder /\ GatesKnown
  /\ Turn /\ Decided /\ Crew /\ ErrorsKnown /\ Closing /\ LeftOpen

OpenInv == Clear => OpenAccount

(***************************************************************************)
(* What the events do to the rest of the record.                           *)
(***************************************************************************)
\* The status follows the facts, and the message, the requests and the compaction stay.
Quietly(r, n) ==
  /\ n.status = Activity(n) /\ n.userMessage = r.userMessage
  /\ n.requests = r.requests /\ n.activeRequest = r.activeRequest
  /\ n.activeCompaction = r.activeCompaction /\ n.compaction = r.compaction

LEMMA Refreshed ==
  ASSUME NEW r \in RunType
  PROVE  Refresh(r).status = Activity(Refresh(r))
<1> DEFINE n == Refresh(r)
<1>1. n.status = Activity(r) /\ n.cancelRequested = r.cancelRequested /\ n.approvals = r.approvals
  BY DEF Refresh, RunType
<1> HIDE DEF n
<1>2. Activity(n) = Activity(r)
  BY <1>1 DEF Activity, PendingApproval
<1> QED BY <1>1, <1>2 DEF n

\* An event that does not finish the run refreshes its status.
LEMMA RefreshedEvent ==
  ASSUME NEW r, NEW n, n \in RunType, r = Refresh(n)
  PROVE  r.status = Activity(r)
BY Refreshed

LEMMA CreatedQuietly ==
  ASSUME NEW r, RunInv(r), NEW t \in Calls, NEW gated \in BOOLEAN, NEW mode \in {"parallel", "exclusive"}
  PROVE  Quietly(r, CreateCall(r, t, gated, mode)) /\ CreateCall(r, t, gated, mode).blockedReason = r.blockedReason
<1> DEFINE call == [status |-> "created", reason |-> NoReason, started |-> FALSE, gated |-> gated, mode |-> mode]
           x == [r EXCEPT !.tools[t] = call]
           n == Refresh(x)
<1>1. r \in RunType /\ call \in CallType
  BY DEF RunInv, CallType, OpenCall
<1>2. x \in RunType
  BY <1>1 DEF RunType
<1>3. n = CreateCall(r, t, gated, mode)
  BY DEF CreateCall
<1>4. n.status = Activity(n)
  BY <1>2, Refreshed
<1>5. /\ n.userMessage = r.userMessage /\ n.requests = r.requests /\ n.activeRequest = r.activeRequest
      /\ n.activeCompaction = r.activeCompaction /\ n.compaction = r.compaction /\ n.blockedReason = r.blockedReason
  BY <1>1 DEF Refresh, RunType
<1> HIDE DEF n
<1> QED BY <1>3, <1>4, <1>5 DEF Quietly

LEMMA AskedQuietly ==
  ASSUME NEW r, RunInv(r), NEW t \in Calls
  PROVE  Quietly(r, RequestApproval(r, t)) /\ RequestApproval(r, t).blockedReason = r.blockedReason
<1> DEFINE call == [r.tools[t] EXCEPT !.status = "waiting_for_approval"]
           x == [r EXCEPT !.approvals[t] = "pending", !.tools[t] = call]
           n == Refresh(x)
<1>1. r \in RunType /\ r.tools[t] \in CallType
  BY DEF RunInv, RunType
<1>2. x \in RunType
  <2>1. call \in CallType
    BY <1>1 DEF CallType, OpenCall
  <2> HIDE DEF call
  <2> QED BY <1>1, <2>1 DEF RunType
<1>3. n = RequestApproval(r, t)
  BY DEF RequestApproval
<1>4. n.status = Activity(n)
  BY <1>2, Refreshed
<1>5. /\ n.userMessage = r.userMessage /\ n.requests = r.requests /\ n.activeRequest = r.activeRequest
      /\ n.activeCompaction = r.activeCompaction /\ n.compaction = r.compaction /\ n.blockedReason = r.blockedReason
  BY <1>1 DEF Refresh, RunType
<1> HIDE DEF n
<1> QED BY <1>3, <1>4, <1>5 DEF Quietly

LEMMA DecidedQuietly ==
  ASSUME NEW r, RunInv(r), NEW t \in Calls, NEW d \in {"allowed", "denied", "expired", "cancelled"}
  PROVE  Quietly(r, ResolveApproval(r, t, d)) /\ ResolveApproval(r, t, d).blockedReason = r.blockedReason
<1> DEFINE call == IF d = "allowed" THEN [r.tools[t] EXCEPT !.status = "created"] ELSE r.tools[t]
           x == [r EXCEPT !.approvals[t] = d, !.tools[t] = call]
           n == Refresh(x)
<1>1. r \in RunType /\ r.tools[t] \in CallType
  BY DEF RunInv, RunType
<1>2. x \in RunType
  <2>1. call \in CallType
    BY <1>1 DEF CallType, OpenCall
  <2> HIDE DEF call
  <2> QED BY <1>1, <2>1 DEF RunType
<1>3. n = ResolveApproval(r, t, d)
  BY DEF ResolveApproval
<1>4. n.status = Activity(n)
  BY <1>2, Refreshed
<1>5. /\ n.userMessage = r.userMessage /\ n.requests = r.requests /\ n.activeRequest = r.activeRequest
      /\ n.activeCompaction = r.activeCompaction /\ n.compaction = r.compaction /\ n.blockedReason = r.blockedReason
  BY <1>1 DEF Refresh, RunType
<1> HIDE DEF n
<1> QED BY <1>3, <1>4, <1>5 DEF Quietly

LEMMA StartedQuietly ==
  ASSUME NEW r, RunInv(r), NEW t \in Calls
  PROVE  Quietly(r, StartTool(r, t)) /\ StartTool(r, t).blockedReason = r.blockedReason
<1> DEFINE call == [r.tools[t] EXCEPT !.status = "running", !.started = TRUE]
           x == [r EXCEPT !.activeTools = @ \cup {t}, !.tools[t] = call]
           n == Refresh(x)
<1>1. r \in RunType /\ r.tools[t] \in CallType
  BY DEF RunInv, RunType
<1>2. x \in RunType
  <2>1. call \in CallType
    BY <1>1 DEF CallType, OpenCall
  <2> HIDE DEF call
  <2> QED BY <1>1, <2>1 DEF RunType
<1>3. n = StartTool(r, t)
  BY DEF StartTool
<1>4. n.status = Activity(n)
  BY <1>2, Refreshed
<1>5. /\ n.userMessage = r.userMessage /\ n.requests = r.requests /\ n.activeRequest = r.activeRequest
      /\ n.activeCompaction = r.activeCompaction /\ n.compaction = r.compaction /\ n.blockedReason = r.blockedReason
  BY <1>1 DEF Refresh, RunType
<1> HIDE DEF n
<1> QED BY <1>3, <1>4, <1>5 DEF Quietly

LEMMA SettledQuietly ==
  ASSUME NEW r, RunInv(r), NEW t \in Calls, NEW o, IsOutcome(o, TerminalCall)
  PROVE  /\ Quietly(r, FinishTool(r, t, o))
         /\ FinishTool(r, t, o).blockedReason = (IF o.reason = "cleanup_failed" THEN "cleanup_failed" ELSE r.blockedReason)
<1> DEFINE call == [r.tools[t] EXCEPT !.status = o.status, !.reason = o.reason]
           blocked == IF o.reason = "cleanup_failed" THEN "cleanup_failed" ELSE r.blockedReason
           x == [r EXCEPT !.activeTools = @ \ {t}, !.blockedReason = blocked, !.tools[t] = call]
           n == Refresh(x)
<1>1. r \in RunType /\ r.tools[t] \in CallType
  BY DEF RunInv, RunType
<1>2. x \in RunType
  <2>1. call \in CallType
    BY <1>1 DEF CallType, OpenCall, TerminalCall, IsOutcome
  <2>2. blocked \in Reasons \cup {NoReason}
    BY <1>1, ReasonsAssumption DEF RunType, Reasons
  <2> HIDE DEF call, blocked
  <2> QED BY <1>1, <2>1, <2>2 DEF RunType
<1>3. n = FinishTool(r, t, o)
  BY <1>1 DEF FinishTool
<1>4. n.status = Activity(n)
  BY <1>2, Refreshed
<1>5. /\ n.userMessage = r.userMessage /\ n.requests = r.requests /\ n.activeRequest = r.activeRequest
      /\ n.activeCompaction = r.activeCompaction /\ n.compaction = r.compaction /\ n.blockedReason = blocked
  BY <1>1 DEF Refresh, RunType
<1> HIDE DEF n
<1> QED BY <1>3, <1>4, <1>5 DEF Quietly

LEMMA CancelQuietly ==
  ASSUME NEW r, RunInv(r)
  PROVE  Quietly(r, RequestCancel(r)) /\ RequestCancel(r).blockedReason = r.blockedReason
         /\ RequestCancel(r).cancelRequested
<1> DEFINE x == [r EXCEPT !.cancelRequested = TRUE]
           n == Refresh(x)
<1>1. r \in RunType /\ x \in RunType
  BY DEF RunInv, RunType
<1>2. n = RequestCancel(r)
  BY DEF RequestCancel
<1>3. n.status = Activity(n)
  BY <1>1, Refreshed
<1>4. /\ n.userMessage = r.userMessage /\ n.requests = r.requests /\ n.activeRequest = r.activeRequest
      /\ n.activeCompaction = r.activeCompaction /\ n.compaction = r.compaction /\ n.blockedReason = r.blockedReason
      /\ n.cancelRequested
  BY <1>1 DEF Refresh, RunType
<1> HIDE DEF n
<1> QED BY <1>2, <1>3, <1>4 DEF Quietly

LEMMA StepStartedQuietly ==
  ASSUME NEW r, RunInv(r), NEW k \in Steps
  PROVE  /\ Quietly(r, StartStep(r, k)) /\ StartStep(r, k).blockedReason = r.blockedReason
         /\ StartStep(r, k).steps = [r.steps EXCEPT ![k] = "running"]
<1> DEFINE x == [r EXCEPT !.activeStep = k, !.steps[k] = "running"]
           n == Refresh(x)
<1>1. r \in RunType /\ k \in 0..MaxStep
  BY BoundsAssumption DEF RunInv, Steps
<1>2. x \in RunType
  BY <1>1 DEF RunType
<1>3. n = StartStep(r, k)
  BY DEF StartStep
<1>4. n.status = Activity(n)
  BY <1>2, Refreshed
<1>5. /\ n.userMessage = r.userMessage /\ n.requests = r.requests /\ n.activeRequest = r.activeRequest
      /\ n.activeCompaction = r.activeCompaction /\ n.compaction = r.compaction /\ n.blockedReason = r.blockedReason
      /\ n.steps = [r.steps EXCEPT ![k] = "running"]
  BY <1>1 DEF Refresh, RunType
<1> HIDE DEF n
<1> QED BY <1>3, <1>4, <1>5 DEF Quietly

LEMMA StepFinishedQuietly ==
  ASSUME NEW r, RunInv(r), NEW k \in Steps, NEW o, IsOutcome(o, TerminalStatus)
  PROVE  /\ Quietly(r, FinishStep(r, k, o)) /\ (o.status = "completed" => FinishStep(r, k, o).blockedReason = r.blockedReason)
         /\ o.reason # "cleanup_failed" /\ r.blockedReason # "cleanup_failed" => FinishStep(r, k, o).blockedReason # "cleanup_failed"
         /\ FinishStep(r, k, o).steps = [r.steps EXCEPT ![k] = o.status]
<1> DEFINE blocked == IF o.status = "completed" THEN r.blockedReason ELSE BlockedOr(r, o.reason)
           x == [r EXCEPT !.activeStep = 0, !.blockedReason = blocked, !.steps[k] = o.status]
           n == Refresh(x)
<1>1. r \in RunType /\ 0 \in 0..MaxStep
  BY BoundsAssumption DEF RunInv
<1>2. x \in RunType
  <2>1. blocked \in Reasons \cup {NoReason}
    BY <1>1 DEF RunType, BlockedOr, IsOutcome
  <2> HIDE DEF blocked
  <2> QED BY <1>1, <2>1 DEF RunType, IsOutcome
<1>3. n = FinishStep(r, k, o)
  BY <1>1 DEF FinishStep
<1>4. n.status = Activity(n)
  BY <1>2, Refreshed
<1>5. /\ n.userMessage = r.userMessage /\ n.requests = r.requests /\ n.activeRequest = r.activeRequest
      /\ n.activeCompaction = r.activeCompaction /\ n.compaction = r.compaction /\ n.blockedReason = blocked
      /\ n.steps = [r.steps EXCEPT ![k] = o.status]
  BY <1>1 DEF Refresh, RunType
<1>6. /\ o.status = "completed" => blocked = r.blockedReason
      /\ o.reason # "cleanup_failed" /\ r.blockedReason # "cleanup_failed" => blocked # "cleanup_failed"
  BY DEF BlockedOr
<1> HIDE DEF n, blocked
<1>7. /\ Quietly(r, n) /\ (o.status = "completed" => n.blockedReason = r.blockedReason)
      /\ o.reason # "cleanup_failed" /\ r.blockedReason # "cleanup_failed" => n.blockedReason # "cleanup_failed"
      /\ n.steps = [r.steps EXCEPT ![k] = o.status]
  BY <1>4, <1>5, <1>6 DEF Quietly
<1> QED BY <1>3, <1>7

\* What the reducer reads of a request.
SameRequest(p, q) == p.status = q.status /\ p.reason = q.reason /\ p.calls = q.calls

LEMMA RequestStartedIs ==
  ASSUME NEW r, RunInv(r), NEW k \in Steps, NEW a \in Attempts
  PROVE  LET n == StartRequest(r, k, a)
         IN /\ n.status = Activity(n) /\ n.userMessage = r.userMessage /\ n.blockedReason = r.blockedReason
            /\ n.activeCompaction = r.activeCompaction /\ n.compaction = r.compaction
            /\ n.requests[<<k, a>>].status = "running"
            /\ \A q \in Requests : q # <<k, a>> => n.requests[q] = r.requests[q]
<1> DEFINE request == [status |-> "running", reason |-> NoReason, calls |-> 0, deltas |-> 0]
           x == [r EXCEPT !.activeRequest = <<k, a>>, !.requests[<<k, a>>] = request]
           n == Refresh(x)
<1>1. r \in RunType /\ <<k, a>> \in Requests /\ request \in RequestType
  BY BoundsAssumption DEF RunInv, Requests, RequestType
<1>2. x \in RunType
  <2> HIDE DEF request
  <2> QED BY <1>1 DEF RunType
<1>3. n = StartRequest(r, k, a)
  BY DEF StartRequest
<1>4. n.status = Activity(n)
  BY <1>2, Refreshed
<1>5. /\ n.userMessage = r.userMessage /\ n.blockedReason = r.blockedReason
      /\ n.activeCompaction = r.activeCompaction /\ n.compaction = r.compaction
      /\ n.requests = [r.requests EXCEPT ![<<k, a>>] = request]
  BY <1>1 DEF Refresh, RunType
<1>6. request.status = "running"
  OBVIOUS
<1> HIDE DEF n, request
<1>7. n.requests[<<k, a>>] = request /\ \A q \in Requests : q # <<k, a>> => n.requests[q] = r.requests[q]
  BY <1>1, <1>5 DEF RunType
<1> QED BY <1>3, <1>4, <1>5, <1>6, <1>7

LEMMA DeltaRecordedIs ==
  ASSUME NEW r, RunInv(r), NEW q \in Requests, r.requests[q].deltas < MaxDelta
  PROVE  LET n == RecordDelta(r, q)
         IN /\ n.status = Activity(n) /\ n.userMessage = r.userMessage /\ n.blockedReason = r.blockedReason
            /\ n.activeCompaction = r.activeCompaction /\ n.compaction = r.compaction
            /\ n.activeRequest = r.activeRequest
            /\ \A p \in Requests : SameRequest(n.requests[p], r.requests[p])
<1> DEFINE request == [r.requests[q] EXCEPT !.deltas = r.requests[q].deltas + 1]
           x == [r EXCEPT !.requests[q] = request]
           n == Refresh(x)
<1>1. r \in RunType /\ r.requests[q] \in RequestType
  BY DEF RunInv, RunType
<1>2. request \in RequestType /\ SameRequest(request, r.requests[q])
  <2>1. r.requests[q].deltas \in 0..MaxDelta /\ MaxDelta \in Nat
    BY <1>1, BoundsAssumption DEF RequestType
  <2>2. r.requests[q].deltas + 1 \in 0..MaxDelta
    BY <2>1
  <2> QED BY <1>1, <2>2 DEF RequestType, SameRequest
<1>3. x \in RunType
  <2> HIDE DEF request
  <2> QED BY <1>1, <1>2 DEF RunType
<1>4. n = RecordDelta(r, q)
  BY <1>1 DEF RecordDelta, RunType
<1>5. n.status = Activity(n)
  BY <1>3, Refreshed
<1>6. /\ n.userMessage = r.userMessage /\ n.blockedReason = r.blockedReason
      /\ n.activeCompaction = r.activeCompaction /\ n.compaction = r.compaction
      /\ n.activeRequest = r.activeRequest
      /\ n.requests = [r.requests EXCEPT ![q] = request]
  BY <1>1 DEF Refresh, RunType
<1> HIDE DEF n, request
<1>7. \A p \in Requests : n.requests[p] = r.requests[p] \/ (p = q /\ n.requests[p] = request)
  BY <1>1, <1>6 DEF RunType
<1>8. \A p \in Requests : SameRequest(n.requests[p], r.requests[p])
  BY <1>2, <1>7 DEF SameRequest
<1> QED BY <1>4, <1>5, <1>6, <1>8

LEMMA RequestFinishedIs ==
  ASSUME NEW r, RunInv(r), NEW q \in Requests, NEW o, IsOutcome(o, TerminalRequest), NEW calls \in 0..MaxCall
  PROVE  LET n == FinishRequest(r, q, o, calls)
         IN /\ n.status = Activity(n) /\ n.userMessage = r.userMessage
            /\ n.activeCompaction = r.activeCompaction /\ n.compaction = r.compaction
            /\ n.activeRequest = NoRequest
            /\ n.blockedReason = (IF o.status = "succeeded" \/ (o.reason = "context_limit" /\ q[2] = 1)
                                  THEN r.blockedReason ELSE BlockedOr(r, o.reason))
            /\ n.requests[q].status = o.status /\ n.requests[q].reason = o.reason /\ n.requests[q].calls = calls
            /\ \A p \in Requests : p # q => n.requests[p] = r.requests[p]
<1> DEFINE request == [r.requests[q] EXCEPT !.status = o.status, !.reason = o.reason, !.calls = calls]
           blocked == IF o.status = "succeeded" \/ (o.reason = "context_limit" /\ q[2] = 1)
                      THEN r.blockedReason ELSE BlockedOr(r, o.reason)
           x == [r EXCEPT !.activeRequest = NoRequest, !.blockedReason = blocked, !.requests[q] = request]
           n == Refresh(x)
<1>1. r \in RunType /\ r.requests[q] \in RequestType
  BY DEF RunInv, RunType
<1>2. request \in RequestType /\ request.status = o.status /\ request.reason = o.reason /\ request.calls = calls
  BY <1>1 DEF RequestType, IsOutcome, TerminalRequest
<1>3. x \in RunType
  <2>1. blocked \in Reasons \cup {NoReason}
    BY <1>1 DEF RunType, BlockedOr, IsOutcome
  <2> HIDE DEF request, blocked
  <2> QED BY <1>1, <1>2, <2>1 DEF RunType
<1>4. n = FinishRequest(r, q, o, calls)
  BY <1>1 DEF FinishRequest, RunType
<1>5. n.status = Activity(n)
  BY <1>3, Refreshed
<1>6. /\ n.userMessage = r.userMessage /\ n.blockedReason = blocked
      /\ n.activeCompaction = r.activeCompaction /\ n.compaction = r.compaction
      /\ n.activeRequest = NoRequest
      /\ n.requests = [r.requests EXCEPT ![q] = request]
  BY <1>1 DEF Refresh, RunType
<1> HIDE DEF n, request
<1>7. n.requests[q] = request /\ \A p \in Requests : p # q => n.requests[p] = r.requests[p]
  BY <1>1, <1>6 DEF RunType
<1> QED BY <1>2, <1>4, <1>5, <1>6, <1>7

LEMMA CompactionStartedIs ==
  ASSUME NEW r, RunInv(r), NEW trigger \in Triggers
  PROVE  LET n == StartCompaction(r, trigger)
         IN /\ n.status = Activity(n) /\ n.userMessage = r.userMessage /\ n.requests = r.requests
            /\ n.activeRequest = r.activeRequest /\ n.blockedReason = r.blockedReason
            /\ n.compaction.status = "running" /\ n.compaction.trigger = trigger
<1> DEFINE c == [status |-> "running", trigger |-> trigger, step |-> r.activeStep]
           x == [r EXCEPT !.activeCompaction = TRUE, !.compaction = c]
           n == Refresh(x)
<1>1. r \in RunType
  BY DEF RunInv
<1>2. x \in RunType
  BY <1>1 DEF RunType, CompactionType
<1>3. n = StartCompaction(r, trigger)
  BY DEF StartCompaction
<1>4. n.status = Activity(n)
  BY <1>2, Refreshed
<1>5. /\ n.userMessage = r.userMessage /\ n.requests = r.requests
      /\ n.activeRequest = r.activeRequest /\ n.blockedReason = r.blockedReason
      /\ n.compaction.status = "running" /\ n.compaction.trigger = trigger
  BY <1>1 DEF Refresh, RunType
<1> HIDE DEF n
<1> QED BY <1>3, <1>4, <1>5

LEMMA CompactionSettledIs ==
  ASSUME NEW r, RunInv(r), NEW n, n \in {SucceedCompaction(r), FailCompaction(r)}
  PROVE  /\ n.status = Activity(n) /\ n.userMessage = r.userMessage /\ n.requests = r.requests
         /\ n.activeRequest = r.activeRequest /\ ~n.activeCompaction /\ n.compaction.trigger = r.compaction.trigger
         /\ n = SucceedCompaction(r) => n.compaction.status = "succeeded" /\ n.blockedReason = r.blockedReason
         /\ r.compaction.trigger # "context_overflow" => n.blockedReason = r.blockedReason
<1>1. r \in RunType /\ r.compaction \in CompactionType
  BY DEF RunInv, RunType
<1>2. CASE n = SucceedCompaction(r)
  <2> DEFINE c == [r.compaction EXCEPT !.status = "succeeded"]
             x == [r EXCEPT !.activeCompaction = FALSE, !.compaction = c]
  <2>1. c \in CompactionType /\ c.status = "succeeded" /\ c.trigger = r.compaction.trigger
    BY <1>1 DEF CompactionType
  <2>2. x \in RunType
    <3> HIDE DEF c
    <3> QED BY <1>1, <2>1 DEF RunType
  <2>3. n = Refresh(x)
    BY <1>1, <1>2 DEF SucceedCompaction, RunType
  <2>4. n.status = Activity(n)
    BY <2>2, <2>3, Refreshed
  <2>5. /\ n.userMessage = r.userMessage /\ n.requests = r.requests
        /\ n.activeRequest = r.activeRequest /\ ~n.activeCompaction /\ n.compaction = c
        /\ n.blockedReason = r.blockedReason
    BY <1>1, <2>3 DEF Refresh, RunType
  <2> HIDE DEF c
  <2> QED BY <2>1, <2>4, <2>5
<1>3. CASE n = FailCompaction(r) /\ n # SucceedCompaction(r)
  <2> DEFINE c == [r.compaction EXCEPT !.status = "failed"]
             blocked == IF r.compaction.trigger = "context_overflow" THEN "context_limit" ELSE r.blockedReason
             x == [r EXCEPT !.activeCompaction = FALSE, !.blockedReason = blocked, !.compaction = c]
  <2>1. c \in CompactionType /\ c.status = "failed" /\ c.trigger = r.compaction.trigger
    BY <1>1 DEF CompactionType
  <2>2. x \in RunType
    <3>1. blocked \in Reasons \cup {NoReason}
      BY <1>1, ReasonsAssumption DEF RunType, Reasons
    <3> HIDE DEF c, blocked
    <3> QED BY <1>1, <2>1, <3>1 DEF RunType
  <2>3. n = Refresh(x)
    BY <1>1, <1>3 DEF FailCompaction, RunType
  <2>4. n.status = Activity(n)
    BY <2>2, <2>3, Refreshed
  <2>5. /\ n.userMessage = r.userMessage /\ n.requests = r.requests
        /\ n.activeRequest = r.activeRequest /\ ~n.activeCompaction /\ n.compaction = c
        /\ n.blockedReason = blocked
    BY <1>1, <2>3 DEF Refresh, RunType
  <2> HIDE DEF c
  <2> QED BY <1>3, <2>1, <2>4, <2>5
<1> QED BY <1>2, <1>3

(***************************************************************************)
(* What stays while nobody works.                                          *)
(***************************************************************************)
LEMMA StandingClear ==
  ASSUME UNCHANGED worker, run.activeTools \subseteq run'.activeTools, Stopped => Stopped', Clear'
  PROVE  Clear
BY DEF Clear, Unsaved

LEMMA SameClear ==
  ASSUME UNCHANGED toolVars
  PROVE  Clear' = Clear
BY DEF Clear, Unsaved, Stopped, toolVars

LEMMA OpenNow ==
  ASSUME OpenInv, Clear
  PROVE  OpenAccount
BY DEF OpenInv

\* Nobody runs a call where nobody is busy.
LEMMA NobodyActive ==
  ASSUME LoopInv, Clear, \A i \in Slots : ~Busy(i)
  PROVE  run.activeTools = {}
<1>1. ASSUME NEW t \in run.activeTools PROVE FALSE
  <2>1. t[2] \in Slots
    BY ActiveCall DEF LoopInv
  <2>2. worker[t[2]].at \notin Driven
    BY <2>1 DEF Busy, Driven
  <2>3. worker[t[2]].at = "failed" \/ Stopped
    BY <2>2 DEF LoopInv, Owned
  <2> QED BY <2>3 DEF Clear, Unsaved
<1> QED BY <1>1

\* Nor does anybody wait for a decision.
LEMMA NothingPending ==
  ASSUME OpenAccount, \A i \in Slots : ~Busy(i)
  PROVE  ~PendingApproval(run)
<1>1. ASSUME NEW t \in Calls, run.approvals[t] = "pending" PROVE FALSE
  <2>1. t[2] \in Slots
    BY DEF Calls
  <2>2. worker[t[2]].at \in {"advance", "waiting", "expire", "cancel"}
    BY <1>1 DEF OpenAccount, Decided
  <2> QED BY <2>1, <2>2 DEF Busy
<1> QED BY <1>1 DEF PendingApproval

\* The workers rest, and the calls stay: what is known of them stays too.
RestingPlaces == Points \ (InTools \cup {"sweeping"})

LEMMA RestAccount ==
  ASSUME LoopInv, OpenAccount, \A i \in Slots : ~Busy(i), UNCHANGED <<worker, unresolvable>>,
         run'.tools = run.tools, run'.approvals = run.approvals,
         run'.activeStep \in {run.activeStep, 0},
         pc' \in RestingPlaces,
         pc' \in BetweenSteps /\ run'.activeStep = 0 => pc \in BetweenSteps /\ run.activeStep = 0
  PROVE  GatesKnown' /\ Turn' /\ Decided' /\ Crew'
<1>1. \A i \in Slots : worker[i].at \in {"idle", "done", "failed"}
  BY DEF Busy
<1>2. Turn'
  BY <1>1 DEF Turn, Undispatched
<1>3. Decided'
  <2>1. \A t \in Calls : run.approvals[t] # "pending"
    BY NothingPending DEF PendingApproval
  <2> QED BY <1>1, <2>1 DEF Decided
<1>4. run'.activeStep # 0 => \A i \in Slots : CallAt(i)' = CallAt(i)
  BY DEF CallAt
<1>5. GatesKnown'
  <2>1. \A t \in Calls : /\ run'.tools[t].gated => run'.tools[t].mode = "exclusive"
                         /\ run'.approvals[t] # "absent" => run'.tools[t].gated
                         /\ run'.tools[t].status = "waiting_for_approval" =>
                              run'.approvals[t] \in {"pending", "denied", "expired"}
                         /\ IsOpen(run'.tools[t]) => run'.approvals[t] # "cancelled"
    BY DEF OpenAccount, GatesKnown
  <2>2. run'.activeStep # 0 => run'.activeStep = run.activeStep
    OBVIOUS
  <2>3. pc' \in BetweenSteps /\ run'.activeStep = 0 => unresolvable' = {}
    BY DEF OpenAccount, GatesKnown
  <2> QED BY <2>1, <2>2, <2>3 DEF OpenAccount, GatesKnown, CallAt
<1>6. Crew'
  BY <1>4 DEF OpenAccount, Crew, RestingPlaces, InTools, Busy
<1> QED BY <1>2, <1>3, <1>5, <1>6

\* The places an error or an end leads to: the loop's account of the open step is closed.
Ends == {"catch", "cancel", "sweep", "finish", "close", "ended"}

LEMMA EndsAreElsewhere ==
  Ends \cap (InTools \cup {"sweeping"} \cup BetweenSteps \cup InRequest \cup Declared \cup Undeclared
             \cup {"request", "recorded", "prepare", "create", "closeStep", "stepClosed", "tooled"}) = {} /\ Ends \subseteq Points
BY DEF Ends, InTools, BetweenSteps, InRequest, Declared, Undeclared, Compacting, Points

LEMMA EndsStep ==
  ASSUME LoopInv, OpenAccount, \A i \in Slots : ~Busy(i), UNCHANGED toolVars, pc # "ended", pc' \in Ends
  PROVE  StepsInOrder' /\ RunOpen' /\ Unblocked' /\ RequestsKnown' /\ DeclaredInOrder'
         /\ GatesKnown' /\ Turn' /\ Decided' /\ Crew'
<1>1. /\ pc' \notin InTools \cup {"sweeping"} \cup BetweenSteps \cup InRequest \cup Declared \cup Undeclared
      /\ pc' \notin {"request", "recorded", "prepare", "create", "closeStep", "stepClosed", "tooled"}
      /\ pc' \in Points
  BY EndsAreElsewhere
<1>2. pc' \notin {"top", "compact", "summarizing", "compactionAnswered", "afterCompact", "openStep", "answered", "record"} \cup Compacting
  BY <1>1 DEF BetweenSteps, InRequest, Compacting
<1>3. NextStep' = NextStep /\ OpenSteps' = OpenSteps /\ run' = run
  BY SameNextStep DEF toolVars, OpenSteps
<1>4. StepsInOrder'
  BY <1>3 DEF OpenAccount, StepsInOrder
<1>5. RunOpen'
  BY <1>2, <1>3 DEF OpenAccount, RunOpen, toolVars
<1>6. Unblocked'
  BY <1>1, <1>2 DEF Unblocked
<1>7. RequestsKnown'
  BY <1>1, <1>2 DEF RequestsKnown
<1>8. DeclaredInOrder'
  BY <1>1, <1>2 DEF DeclaredInOrder, Declared
<1>9. GatesKnown' /\ Turn' /\ Decided' /\ Crew'
  BY <1>1, <1>3, RestAccount DEF toolVars, RestingPlaces
<1> QED BY <1>4, <1>5, <1>6, <1>7, <1>8, <1>9

\* An error the loop may have.
Known(code) ==
  \/ code \in {"workspace_blocked", "provider_cleanup", "session_capacity"}
  \/ run.cancelRequested /\ code \in {"cancelled-dispatch", "tool-order", "unsettled-step"}
  \/ code = "unsettled-step" /\ goal = Failed("limit_exceeded")

NothingOpen == run.activeRequest = NoRequest /\ ~run.activeCompaction

LEMMA ThrowAccount ==
  ASSUME LoopInv, OpenAccount, \A i \in Slots : ~Busy(i), UNCHANGED toolVars, pc # "ended",
         NEW code, Throw(code), ~caught, Known(code), code = "provider_cleanup" \/ NothingOpen
  PROVE  OpenAccount'
<1>1. pc' = "catch" /\ error' = code /\ UNCHANGED <<answer, compacted, next, goal, caught>> /\ run' = run
  BY DEF Throw, toolVars
<1>2. StepsInOrder' /\ RunOpen' /\ Unblocked' /\ RequestsKnown' /\ DeclaredInOrder'
      /\ GatesKnown' /\ Turn' /\ Decided' /\ Crew'
  BY <1>1, EndsStep DEF Ends
<1>3. NothingElseOpen'
  BY <1>1 DEF NothingElseOpen, NothingOpen
<1>4. ErrorsKnown'
  BY <1>1 DEF OpenAccount, ErrorsKnown, Known, toolVars
<1>5. Closing' /\ LeftOpen'
  BY <1>1 DEF Closing, LeftOpen
<1> QED BY <1>2, <1>3, <1>4, <1>5 DEF OpenAccount

\* What a run may be closed with, once its calls are.
MayClose(o) ==
  o # Failed("limit_exceeded") =>
    /\ \A t \in Calls : ~IsOpen(run.tools[t])
    /\ o.status = "completed" => /\ o = Completed /\ ~caught /\ run.blockedReason = NoReason
                                 /\ run.activeStep # 0
                                 /\ LastRequest(run, run.activeStep).status = "succeeded"
                                 /\ LastRequest(run, run.activeStep).calls = 0
    /\ o.status = "cancelled" => o = Cancelled /\ run.cancelRequested /\ run.blockedReason # "cleanup_failed"
    /\ o.status = "failed" => o.origin = "runner" /\ o.reason \in FailureReasons
    /\ o.status # "interrupted"

LEMMA CloseAccount ==
  ASSUME LoopInv, OpenAccount, \A i \in Slots : ~Busy(i), UNCHANGED toolVars, pc # "ended",
         NEW o, CloseWith(o), MayClose(o), NothingOpen, caught => o.status = "cancelled" \/ o.reason = "cleanup_failed"
  PROVE  OpenAccount'
<1>1. pc' = "finish" /\ goal' = o /\ UNCHANGED <<answer, compacted, next, error, caught>> /\ run' = run
  BY DEF CloseWith, toolVars
<1>2. StepsInOrder' /\ RunOpen' /\ Unblocked' /\ RequestsKnown' /\ DeclaredInOrder'
      /\ GatesKnown' /\ Turn' /\ Decided' /\ Crew'
  BY <1>1, EndsStep DEF Ends
<1>3. NothingElseOpen'
  BY <1>1 DEF NothingElseOpen, NothingOpen
<1>4. ErrorsKnown'
  BY <1>1 DEF OpenAccount, ErrorsKnown, toolVars
<1>5. Closing' /\ LeftOpen'
  BY <1>1 DEF Closing, LeftOpen, MayClose
<1> QED BY <1>2, <1>3, <1>4, <1>5 DEF OpenAccount

LEMMA CancelAccount ==
  ASSUME LoopInv, OpenAccount, \A i \in Slots : ~Busy(i), UNCHANGED toolVars, pc # "ended",
         GotoLoop("cancel"), NothingOpen
  PROVE  OpenAccount'
<1>1. pc' = "cancel" /\ UNCHANGED <<answer, compacted, next, error, caught, goal>> /\ run' = run
  BY DEF GotoLoop, Stay, toolVars
<1>2. StepsInOrder' /\ RunOpen' /\ Unblocked' /\ RequestsKnown' /\ DeclaredInOrder'
      /\ GatesKnown' /\ Turn' /\ Decided' /\ Crew'
  BY <1>1, EndsStep DEF Ends
<1>3. NothingElseOpen'
  BY <1>1 DEF NothingElseOpen, NothingOpen
<1>4. ErrorsKnown'
  BY <1>1 DEF OpenAccount, ErrorsKnown, toolVars
<1>5. Closing' /\ LeftOpen'
  BY <1>1 DEF Closing, LeftOpen
<1> QED BY <1>2, <1>3, <1>4, <1>5 DEF OpenAccount

\* Where nothing but a call can be open.
LEMMA NothingOpenAt ==
  ASSUME OpenAccount, pc \notin InRequest \cup {"summarizing", "compactionAnswered", "catch", "ended"}
  PROVE  NothingOpen
BY DEF OpenAccount, NothingElseOpen, NothingOpen

LEMMA NotCaught ==
  ASSUME OpenAccount, pc \notin {"cancel", "sweep", "sweeping", "finish", "close", "ended"}
  PROVE  ~caught
BY DEF OpenAccount, ErrorsKnown

LEMMA KnownVerdict ==
  ASSUME NEW accepted, ~run.cancelRequested /\ run.blockedReason # "cleanup_failed" => accepted,
         NEW v \in Verdicts(accepted), v # "accepted"
  PROVE  Known(v)
<1>1. CASE RunBlockers(run) # {}
  BY <1>1 DEF Verdicts, Known
<1>2. CASE RunBlockers(run) = {}
  <2>1. run.blockedReason # "cleanup_failed"
    BY <1>2 DEF RunBlockers
  <2>2. CASE accepted
    BY <1>2, <2>2 DEF Verdicts, Known
  <2>3. CASE ~accepted
    <3>1. run.cancelRequested
      BY <2>1, <2>3
    <3>2. DispatchError = "cancelled-dispatch"
      BY <3>1 DEF DispatchError
    <3> QED BY <1>2, <2>3, <3>1, <3>2 DEF Verdicts, Known
  <2> QED BY <2>2, <2>3
<1> QED BY <1>1, <1>2

\* A run that is neither cancelled nor blocked may be dispatched.
LEMMA MayDispatch ==
  ASSUME OpenAccount, pc # "ended", ~run.cancelRequested, run.blockedReason = NoReason
  PROVE  Dispatchable(run)
BY DEF OpenAccount, RunOpen, Activity, Dispatchable

\* Only the calls of the open step can be open.
LEMMA NoOpenCalls ==
  ASSUME LoopInv, run.activeStep # 0 => \A i \in Slots : ~IsOpen(run.tools[CallAt(i)])
  PROVE  \A t \in Calls : ~IsOpen(run.tools[t])
<1>1. ASSUME NEW t \in Calls, IsOpen(run.tools[t]) PROVE FALSE
  <2>1. t[1] = run.activeStep /\ t[1] \in Steps /\ t[2] \in Slots /\ t = <<t[1], t[2]>>
    BY <1>1 DEF LoopInv, RunKept, RunInv, ActiveSetsAgree, Calls
  <2>2. run.activeStep # 0
    BY <2>1, BoundsAssumption DEF Steps
  <2> QED BY <1>1, <2>1, <2>2 DEF CallAt
<1> QED BY <1>1

LEMMA UndeclaredClosed ==
  ASSUME LoopInv, OpenAccount, pc \in Undeclared
  PROVE  \A t \in Calls : ~IsOpen(run.tools[t])
<1>1. run.activeStep # 0 => \A i \in Slots : ~IsOpen(run.tools[CallAt(i)])
  BY DEF OpenAccount, DeclaredInOrder, IsOpen, OpenCall
<1> QED BY <1>1, NoOpenCalls

\* A step of a loop nobody works for, that leaves the calls alone and does not end the step.
LEMMA AppendAccount ==
  ASSUME LoopInv, OpenAccount, \A i \in Slots : ~Busy(i), UNCHANGED <<worker, unresolvable, failure, caught>>,
         SameCalls(run, run'), run'.userMessage, run'.status = Activity(run'),
         control' = "cancel_requested" => run'.cancelRequested,
         \A k \in Steps : k # run.activeStep => LastRequest(run', k).calls = LastRequest(run, k).calls,
         pc # "ended", ~caught, pc' \in RestingPlaces \ Ends,
         pc' \in {"top", "openStep"} => run.activeStep = 0,
         pc' \in BetweenSteps /\ run.activeStep = 0 => pc \in BetweenSteps,
         NothingElseOpen', Unblocked', RequestsKnown', DeclaredInOrder'
  PROVE  OpenAccount'
<1>1. /\ run'.activeStep = run.activeStep /\ run'.steps = run.steps
      /\ run'.tools = run.tools /\ run'.approvals = run.approvals
      /\ run.cancelRequested => run'.cancelRequested
  BY DEF SameCalls
<1>2. StepsInOrder'
  <2>1. NextStep' = NextStep /\ OpenSteps' = OpenSteps
    BY <1>1, SameSteps DEF OpenSteps
  <2> QED BY <1>1, <2>1 DEF OpenAccount, StepsInOrder
<1>3. RunOpen'
  BY <1>1 DEF OpenAccount, RunOpen
<1>4. GatesKnown' /\ Turn' /\ Decided' /\ Crew'
  BY <1>1, RestAccount
<1>5. pc' \notin {"catch", "cancel", "sweep", "finish", "close", "ended"}
  BY DEF Ends
<1>6. ErrorsKnown'
  BY <1>1, <1>5 DEF OpenAccount, ErrorsKnown
<1>7. Closing' /\ LeftOpen'
  BY <1>5 DEF Closing, LeftOpen
<1> QED BY <1>2, <1>3, <1>4, <1>6, <1>7 DEF OpenAccount

\* The same, when the loop only moves.
LEMMA MoveAccount ==
  ASSUME LoopInv, OpenAccount, \A i \in Slots : ~Busy(i), UNCHANGED <<run, worker, unresolvable, failure, caught>>,
         control' = "cancel_requested" => run.cancelRequested,
         pc # "ended", ~caught, pc' \in RestingPlaces \ Ends,
         pc' \in {"top", "openStep"} => run.activeStep = 0,
         pc' \in BetweenSteps /\ run.activeStep = 0 => pc \in BetweenSteps,
         NothingElseOpen', Unblocked', RequestsKnown', DeclaredInOrder'
  PROVE  OpenAccount'
<1>1. SameCalls(run, run')
  BY DEF SameCalls
<1>2. run'.userMessage /\ run'.status = Activity(run')
  BY DEF OpenAccount, RunOpen
<1>3. \A k \in Steps : LastRequest(run', k).calls = LastRequest(run, k).calls
  OBVIOUS
<1>4. control' = "cancel_requested" => run'.cancelRequested
  OBVIOUS
<1> QED BY <1>1, <1>2, <1>3, <1>4, AppendAccount

-----------------------------------------------------------------------------
LEMMA TopAccount ==
  ASSUME LoopInv, OpenInv, Clear', Top
  PROVE  OpenAccount'
<1>1. UNCHANGED toolVars /\ pc = "top" /\ OpenAccount
  BY SameClear, OpenNow DEF Top
<1>2. \A i \in Slots : ~Busy(i)
  BY <1>1, NobodyBusy DEF InTools
<1>3. NothingOpen /\ ~caught
  BY <1>1, NothingOpenAt, NotCaught DEF InRequest
<1>4. CASE GotoLoop("cancel")
  BY <1>1, <1>2, <1>3, <1>4, CancelAccount
<1>5. CASE \E p \in {"openStep", "compact"} : GotoLoop(p)
  <2>1. pc' \in {"openStep", "compact"} /\ UNCHANGED <<answer, compacted, next, goal, error, caught>>
    BY <1>5 DEF GotoLoop, Stay
  <2>2. run.activeStep = 0 /\ run' = run /\ run.blockedReason = NoReason
    BY <1>1 DEF OpenAccount, RunOpen, Unblocked, toolVars
  <2>3. NothingElseOpen' /\ Unblocked'
    BY <1>3, <2>1, <2>2 DEF NothingOpen, NothingElseOpen, Unblocked, InTools
  <2>4. RequestsKnown' /\ DeclaredInOrder'
    BY <2>1, <2>2 DEF RequestsKnown, DeclaredInOrder, Declared, InTools
  <2>5. pc' \in RestingPlaces \ Ends
    BY <2>1 DEF RestingPlaces, Ends, InTools, Points
  <2>6. UNCHANGED <<run, worker, unresolvable, failure, caught>> /\ (control' = "cancel_requested" => run.cancelRequested)
    BY <1>1, <2>1 DEF OpenAccount, RunOpen, toolVars
  <2> QED BY <1>1, <1>2, <1>3, <2>1, <2>2, <2>3, <2>4, <2>5, <2>6, MoveAccount DEF BetweenSteps
<1> QED BY <1>4, <1>5 DEF Top

\* The step after the last one may be opened.
LEMMA MayOpenStep ==
  ASSUME LoopInv, OpenAccount, \A i \in Slots : ~Busy(i), pc = "openStep"
  PROVE  /\ NextStep \in Steps /\ run.steps[NextStep] = "absent" /\ run.activeStep = 0
         /\ ~run.cancelRequested => CanStartStep(run, NextStep)
<1>1. run.activeStep = 0 /\ run.blockedReason = NoReason /\ run.userMessage
  BY DEF OpenAccount, RunOpen, Unblocked
<1>2. NextStep <= MaxStep
  BY <1>1 DEF LoopInv, Placed, BetweenSteps
<1>3. NextStep \in Nat \ {0} /\ OpenSteps = 1..(NextStep - 1)
  BY DEF OpenAccount, StepsInOrder
<1>4. NextStep \in Steps
  BY <1>2, <1>3, BoundsAssumption DEF Steps
<1> DEFINE k == NextStep
<1> HIDE DEF k
<1>5. k \in Nat \ {0} /\ OpenSteps = 1..(k - 1) /\ k \in Steps
  BY <1>3, <1>4 DEF k
<1>6. run.steps[k] = "absent"
  <2>1. k \notin OpenSteps
    BY <1>5
  <2> QED BY <1>5, <2>1 DEF OpenSteps
<1>7. k > 1 => run.steps[k - 1] = "completed" /\ LastRequest(run, k - 1).calls > 0
  <2>1. SUFFICES ASSUME k > 1 PROVE run.steps[k - 1] = "completed" /\ LastRequest(run, k - 1).calls > 0
    OBVIOUS
  <2>2. k - 1 \in OpenSteps /\ k - 1 # 0
    BY <1>5, <2>1
  <2>3. k - 1 \in Steps /\ run.steps[k - 1] # "absent"
    BY <2>2 DEF OpenSteps
  <2> HIDE DEF OpenSteps
  <2> QED BY <1>1, <2>2, <2>3 DEF OpenAccount, StepsInOrder
<1>8. ~run.cancelRequested => CanStartStep(run, k)
  BY <1>1, <1>6, <1>7, MayDispatch, NothingPending DEF CanStartStep
<1> QED BY <1>1, <1>5, <1>6, <1>8 DEF k

LEMMA StepOpened ==
  ASSUME StepsInOrder, NextStep \in Steps, run.steps[NextStep] = "absent", run.activeStep = 0, pc # "ended",
         run \in RunType,
         run'.steps = [run.steps EXCEPT ![NextStep] = "running"], run'.activeStep = NextStep, run'.requests = run.requests
  PROVE  StepsInOrder'
<1> DEFINE k == NextStep
<1> HIDE DEF k
<1>1. k \in Nat \ {0} /\ OpenSteps = 1..(k - 1) /\ k \in Steps
  BY DEF StepsInOrder, k
<1>2. DOMAIN run.steps = Steps /\ run'.steps = [run.steps EXCEPT ![k] = "running"]
  BY DEF k, RunType
<1>3. run'.steps[k] = "running" /\ \A j \in Steps : j # k => run'.steps[j] = run.steps[j]
  BY <1>1, <1>2
<1>4. OpenSteps' = OpenSteps \cup {k}
  BY <1>1, <1>3 DEF OpenSteps
<1>5. OpenSteps' = 1..k
  BY <1>1, <1>4
<1>6. Cardinality(OpenSteps)' = k
  BY <1>1, <1>5, FS_Interval
<1>7. NextStep' = k + 1
  BY <1>6 DEF NextStep
<1>8. run'.activeStep = k
  BY DEF k
<1>9. ASSUME NEW j \in Steps, run'.steps[j] # "absent", j # run'.activeStep
      PROVE  run'.steps[j] = "completed" /\ LastRequest(run', j).calls > 0
  <2>1. run'.steps[j] = run.steps[j] /\ j # run.activeStep
    BY <1>3, <1>8, <1>9, BoundsAssumption DEF Steps
  <2>2. LastRequest(run', j) = LastRequest(run, j)
    BY DEF LastRequest, LastAttempt
  <2> QED BY <1>9, <2>1, <2>2 DEF StepsInOrder
<1>10. NextStep' \in Nat \ {0} /\ OpenSteps' = 1..(NextStep' - 1) /\ run'.activeStep = NextStep' - 1
  BY <1>1, <1>5, <1>7, <1>8
<1> QED BY <1>9, <1>10 DEF StepsInOrder

LEMMA OpenStepAccount ==
  ASSUME LoopInv, LoopInv', OpenInv, Clear', OpenStep
  PROVE  OpenAccount'
<1>1. PICK v \in Verdicts(CanStartStep(run, NextStep)) :
        IF v = "accepted"
        THEN run' = StartStep(run, NextStep) /\ GotoLoop("request")
        ELSE Throw(v) /\ UNCHANGED run
  BY DEF OpenStep
<1>2. (\A i \in Slots : ~Busy(i)) /\ pc = "openStep" /\ RunInv(run)
  BY NobodyBusy DEF OpenStep, InTools, LoopInv, RunKept
<1>3. UNCHANGED <<control, stopping, due, unresolvable, effects, worker, failure>>
  BY DEF OpenStep
<1>4. CASE v # "accepted"
  <2>1. UNCHANGED toolVars /\ Throw(v)
    BY <1>1, <1>3, <1>4 DEF toolVars
  <2>2. OpenAccount
    BY <2>1, SameClear, OpenNow
  <2>3. Known(v)
    BY <1>2, <1>4, <2>2, MayOpenStep, KnownVerdict
  <2>4. NothingOpen /\ ~caught
    BY <1>2, <2>2, NothingOpenAt, NotCaught DEF InRequest
  <2> QED BY <1>2, <2>1, <2>2, <2>3, <2>4, ThrowAccount
<1>5. CASE v = "accepted"
  <2> DEFINE k == NextStep
  <2>1. run' = StartStep(run, k) /\ pc' = "request" /\ UNCHANGED <<answer, next, goal, caught, error, compacted>>
    BY <1>1, <1>5 DEF GotoLoop, Stay
  <2>2. CanStartStep(run, k)
    BY <1>1, <1>5, VerdictAccepted
  <2>3. k \in Steps
    <3>1. run.activeStep = 0
      BY <2>2 DEF CanStartStep
    <3> QED BY <1>2, <3>1, NextStepIs DEF LoopInv, Placed, BetweenSteps
  <2> HIDE DEF k
  <2>4. /\ run'.activeStep = k /\ run'.activeTools = run.activeTools /\ run'.tools = run.tools
        /\ run'.approvals = run.approvals /\ run'.cancelRequested = run.cancelRequested
    BY <1>2, <2>1, <2>3, StepEvents
  <2>5. /\ Quietly(run, run') /\ run'.blockedReason = run.blockedReason
        /\ run'.steps = [run.steps EXCEPT ![k] = "running"]
    BY <1>2, <2>1, <2>3, StepStartedQuietly
  <2>6. OpenAccount
    <3>1. Stopped => Stopped'
      BY <1>3 DEF Stopped
    <3> QED BY <1>3, <2>4, <3>1, StandingClear, OpenNow
  <2>7. run.steps[k] = "absent" /\ run.activeStep = 0
    BY <1>2, <2>6, MayOpenStep DEF k
  <2>8. StepsInOrder'
    BY <1>2, <2>3, <2>4, <2>5, <2>6, <2>7, StepOpened DEF OpenAccount, Quietly, k, RunInv
  <2>9. RunOpen'
    BY <1>3, <2>1, <2>4, <2>5, <2>6 DEF OpenAccount, RunOpen, Quietly
  <2>10. NothingElseOpen' /\ Unblocked'
    BY <1>2, <2>1, <2>5, <2>6 DEF OpenAccount, NothingElseOpen, Unblocked, Quietly, InRequest, InTools
  <2>11. run.requests[<<k, 1>>].status = "absent" /\ run.requests[<<k, 2>>].status = "absent"
    BY <1>2, <2>3, <2>7 DEF RunInv, RequestHasStep, Requests, Attempts
  <2>12. RequestsKnown'
    BY <2>1, <2>4, <2>5, <2>11
       DEF Quietly, RequestsKnown, NextAttempt, ValidAttempt, Compacting, Declared, InTools
  <2>13. \A i \in Slots : run'.tools[CallAt(i)'].status = "absent"
    BY <1>2, <2>3, <2>4, <2>11 DEF RunInv, RetryIsRecovery, LastRequest, LastAttempt, CallAt
  <2>14. DeclaredInOrder'
    BY <2>1, <2>13 DEF DeclaredInOrder, Declared, InTools
  <2>15. unresolvable = {} /\ \A i \in Slots : worker[i].at = "idle"
    BY <1>2, <2>6, <2>7 DEF OpenAccount, GatesKnown, BetweenSteps, LoopInv, Launched, Unlaunched
  <2>16. GatesKnown'
    BY <1>3, <2>4, <2>6, <2>15 DEF OpenAccount, GatesKnown
  <2>17. Turn' /\ Crew'
    BY <1>3, <2>1, <2>15 DEF Turn, Undispatched, Crew, InTools
  <2>18. Decided'
    BY <1>3, <2>4, <2>6, <2>15 DEF OpenAccount, Decided
  <2>19. ErrorsKnown'
    BY <1>2, <1>3, <2>1, <2>4, <2>6 DEF OpenAccount, ErrorsKnown
  <2>20. Closing' /\ LeftOpen'
    BY <2>1 DEF Closing, LeftOpen
  <2> QED BY <2>8, <2>9, <2>10, <2>12, <2>14, <2>16, <2>17, <2>18, <2>19, <2>20 DEF OpenAccount
<1> QED BY <1>4, <1>5

LEMMA OpenBefore ==
  ASSUME OpenInv, Clear', UNCHANGED <<control, stopping, worker>>, run'.activeTools = run.activeTools
  PROVE  OpenAccount /\ Clear
<1>1. Stopped' = Stopped
  BY DEF Stopped
<1> QED BY <1>1, StandingClear, OpenNow

LEMMA CompactAccount ==
  ASSUME LoopInv, LoopInv', OpenInv, Clear', Compact
  PROVE  OpenAccount'
<1>1. /\ UNCHANGED <<control, stopping, due, unresolvable, effects, worker, failure>>
      /\ pc = "compact" /\ (\A i \in Slots : ~Busy(i)) /\ RunInv(run)
  BY NobodyBusy DEF Compact, InTools, LoopInv, RunKept
<1>2. Trigger \in Triggers /\ SameCalls(run, StartCompaction(run, Trigger))
  BY <1>1, QuietEvents DEF Trigger, Triggers
<1>3. run'.activeTools = run.activeTools
  BY <1>2 DEF Compact, SameCalls
<1>4. OpenAccount /\ Clear
  BY <1>1, <1>3, OpenBefore
<1>5. NothingOpen /\ ~caught
  BY <1>1, <1>4, NothingOpenAt, NotCaught DEF InRequest
<1>6. run.blockedReason = NoReason /\ (run.activeStep # 0 => Overflowed) /\ run.userMessage
  BY <1>1, <1>4 DEF OpenAccount, Unblocked, RequestsKnown, Compacting, RunOpen
<1>7. run.activeStep # 0 => \A i \in Slots : run.tools[CallAt(i)].status = "absent"
  BY <1>1, <1>4 DEF OpenAccount, DeclaredInOrder, Undeclared, Compacting
<1>8. control' = "cancel_requested" => run.cancelRequested
  BY <1>1, <1>4 DEF OpenAccount, RunOpen
<1>9. CASE Compacted(FALSE) /\ UNCHANGED run
  <2>1. pc' = "afterCompact" /\ compacted' = FALSE /\ UNCHANGED <<answer, next, goal, error, caught>> /\ run' = run
    BY <1>9 DEF Compacted
  <2>2. NothingElseOpen' /\ Unblocked'
    BY <1>5, <1>6, <2>1 DEF NothingOpen, NothingElseOpen, Unblocked, InTools, InRequest
  <2>3. RequestsKnown'
    BY <1>6, <2>1 DEF RequestsKnown, Overflowed, Declared, InTools
  <2>4. DeclaredInOrder'
    BY <1>7, <2>1 DEF DeclaredInOrder, Declared, InTools, CallAt
  <2>5. pc' \in RestingPlaces \ Ends
    BY <2>1 DEF RestingPlaces, Ends, InTools, Points
  <2> QED BY <1>1, <1>4, <1>5, <1>8, <2>1, <2>2, <2>3, <2>4, <2>5, MoveAccount DEF BetweenSteps
<1>10. CASE CanStartCompaction(run, Trigger) /\ run' = StartCompaction(run, Trigger) /\ GotoLoop("summarizing")
  <2>1. pc' = "summarizing" /\ UNCHANGED <<answer, next, goal, error, caught, compacted>>
    BY <1>10 DEF GotoLoop, Stay
  <2>2. SameCalls(run, run')
    BY <1>2, <1>10
  <2>3. /\ run'.status = Activity(run') /\ run'.userMessage = run.userMessage /\ run'.requests = run.requests
        /\ run'.activeRequest = run.activeRequest /\ run'.blockedReason = run.blockedReason
        /\ run'.compaction.trigger = Trigger
    BY <1>1, <1>2, <1>10, CompactionStartedIs
  <2>4. Trigger' = Trigger /\ run'.activeStep = run.activeStep /\ run'.tools = run.tools
    BY <2>2 DEF Trigger, SameCalls
  <2>5. NothingElseOpen' /\ Unblocked'
    BY <1>5, <1>6, <2>1, <2>3 DEF NothingOpen, NothingElseOpen, Unblocked, InTools, InRequest
  <2>6. RequestsKnown'
    BY <1>6, <2>1, <2>3, <2>4 DEF RequestsKnown, Overflowed, Declared, InTools
  <2>7. DeclaredInOrder'
    BY <1>7, <2>1, <2>4 DEF DeclaredInOrder, Declared, InTools, CallAt
  <2>8. pc' \in RestingPlaces \ Ends /\ pc' \notin {"top", "openStep"} /\ pc # "ended"
    BY <1>1, <2>1 DEF RestingPlaces, Ends, InTools, Points
  <2>9. \A k \in Steps : LastRequest(run', k) = LastRequest(run, k)
    BY <2>3 DEF LastRequest, LastAttempt
  <2>10. control' = "cancel_requested" => run'.cancelRequested
    BY <1>8, <2>2 DEF SameCalls
  <2>11. run'.userMessage
    BY <1>6, <2>3
  <2> QED BY <1>1, <1>4, <1>5, <2>1, <2>2, <2>3, <2>5, <2>6, <2>7, <2>8, <2>9, <2>10, <2>11, AppendAccount
          DEF BetweenSteps
<1>11. CASE ~CanStartCompaction(run, Trigger) /\ Throw(DispatchError) /\ UNCHANGED run
  <2>1. UNCHANGED toolVars
    BY <1>1, <1>11 DEF toolVars
  <2>2. run.activeTools = {} /\ ~PendingApproval(run)
    BY <1>1, <1>4, NobodyActive, NothingPending
  <2>3. ASSUME run.activeStep # 0 PROVE CanStartCompaction(run, Trigger)
    <3>1. run.activeStep \in Steps
      BY <2>3, OpenStepIs DEF LoopInv
    <3>2. run.steps[run.activeStep] = "running"
      BY <1>1, <3>1 DEF RunInv, ActiveSetsAgree
    <3>3. LastAttempt(run, run.activeStep) = 1 /\ LastRequest(run, run.activeStep) = run.requests[<<run.activeStep, 1>>]
      BY <1>6, <2>3 DEF Overflowed, LastAttempt, LastRequest
    <3> QED BY <1>5, <1>6, <2>2, <2>3, <3>2, <3>3 DEF CanStartCompaction, Trigger, NothingOpen, Overflowed
  <2>4. run.cancelRequested
    <3>1. run.activeStep = 0
      BY <1>11, <2>3
    <3>2. ~Dispatchable(run)
      BY <1>5, <1>11, <2>2, <3>1 DEF CanStartCompaction, Trigger, NothingOpen
    <3> QED BY <1>1, <1>4, <1>6, <3>2, MayDispatch
  <2>5. Known(DispatchError)
    BY <2>4 DEF Known, DispatchError
  <2> QED BY <1>1, <1>4, <1>5, <1>11, <2>1, <2>5, ThrowAccount
<1> QED BY <1>9, <1>10, <1>11 DEF Compact

LEMMA SummarizeAccount ==
  ASSUME LoopInv, LoopInv', OpenInv, Clear', Summarize
  PROVE  OpenAccount'
<1>1. UNCHANGED toolVars /\ pc = "summarizing" /\ OpenAccount /\ ~LoopStopped
  <2>1. UNCHANGED toolVars /\ pc = "summarizing" /\ OpenAccount /\ Clear
    BY SameClear, OpenNow DEF Summarize
  <2> QED BY <2>1 DEF Clear, Stopped, LoopStopped
<1>2. \A i \in Slots : ~Busy(i)
  BY <1>1, NobodyBusy DEF InTools
<1>3. ~caught
  BY <1>1, NotCaught
<1>4. CASE pc' = "compactionAnswered" /\ UNCHANGED <<answer, next, goal, error, caught>>
  <2>1. run.blockedReason = NoReason /\ (run.activeStep # 0 => Overflowed) /\ run' = run /\ run.compaction.trigger = Trigger
    BY <1>1 DEF OpenAccount, Unblocked, RequestsKnown, Compacting, toolVars
  <2>2. run.activeStep # 0 => \A i \in Slots : run.tools[CallAt(i)].status = "absent"
    BY <1>1 DEF OpenAccount, DeclaredInOrder, Undeclared, Compacting
  <2>3. NothingElseOpen'
    BY <1>1, <1>4, <2>1 DEF OpenAccount, NothingElseOpen, InRequest
  <2>4. Unblocked'
    BY <1>4, <2>1 DEF Unblocked, InTools, InRequest
  <2>5. RequestsKnown'
    BY <1>4, <2>1 DEF RequestsKnown, Overflowed, Declared, InTools, Trigger
  <2>6. DeclaredInOrder'
    BY <1>4, <2>1, <2>2 DEF DeclaredInOrder, Declared, InTools, CallAt
  <2>7. pc' \in RestingPlaces \ Ends /\ pc' \notin {"top", "openStep"} /\ pc \in BetweenSteps /\ pc # "ended"
    BY <1>1, <1>4 DEF RestingPlaces, Ends, InTools, Points, BetweenSteps
  <2>8. UNCHANGED <<run, worker, unresolvable, failure, caught>> /\ (control' = "cancel_requested" => run.cancelRequested)
    BY <1>1, <1>4 DEF OpenAccount, RunOpen, toolVars
  <2> QED BY <1>1, <1>2, <1>3, <2>3, <2>4, <2>5, <2>6, <2>7, <2>8, MoveAccount
<1>5. CASE Throw("provider_cleanup")
  BY <1>1, <1>2, <1>3, <1>5, ThrowAccount DEF Known
<1> QED BY <1>1, <1>4, <1>5 DEF Summarize

LEMMA SettleCompactionAccount ==
  ASSUME LoopInv, LoopInv', OpenInv, Clear', SettleCompaction
  PROVE  OpenAccount'
<1>1. /\ UNCHANGED <<control, stopping, due, unresolvable, effects, worker, failure>>
      /\ pc = "compactionAnswered" /\ (\A i \in Slots : ~Busy(i)) /\ RunInv(run)
      /\ run' = IF compacted THEN SucceedCompaction(run) ELSE FailCompaction(run)
      /\ pc' = "afterCompact" /\ UNCHANGED <<answer, next, goal, error, caught, compacted>>
  BY NobodyBusy DEF SettleCompaction, InTools, LoopInv, RunKept, GotoLoop, Stay
<1>2. SameCalls(run, run')
  BY <1>1, QuietEvents
<1>3. OpenAccount
  BY <1>1, <1>2, OpenBefore DEF SameCalls
<1>4. ~caught
  BY <1>1, <1>3, NotCaught
<1>5. /\ run'.status = Activity(run') /\ run'.userMessage = run.userMessage /\ run'.requests = run.requests
      /\ run'.activeRequest = run.activeRequest /\ ~run'.activeCompaction /\ run'.compaction.trigger = run.compaction.trigger
      /\ compacted => run'.compaction.status = "succeeded" /\ run'.blockedReason = run.blockedReason
      /\ run.compaction.trigger # "context_overflow" => run'.blockedReason = run.blockedReason
  <2>1. run' \in {SucceedCompaction(run), FailCompaction(run)} /\ (compacted => run' = SucceedCompaction(run))
    BY <1>1
  <2> QED BY <1>1, <2>1, CompactionSettledIs
<1>6. /\ run.blockedReason = NoReason /\ (run.activeStep # 0 => Overflowed) /\ run.userMessage
      /\ run.compaction.trigger = Trigger /\ run.activeRequest = NoRequest
      /\ control' = "cancel_requested" => run.cancelRequested
  BY <1>1, <1>3 DEF OpenAccount, Unblocked, RequestsKnown, Compacting, RunOpen, NothingElseOpen, InRequest
<1>7. run.activeStep # 0 => \A i \in Slots : run.tools[CallAt(i)].status = "absent"
  BY <1>1, <1>3 DEF OpenAccount, DeclaredInOrder, Undeclared, Compacting
<1>8. run'.activeStep = run.activeStep /\ run'.tools = run.tools
  BY <1>2 DEF SameCalls
<1>9. NothingElseOpen'
  BY <1>5, <1>6 DEF NothingElseOpen
<1>10. Unblocked'
  BY <1>1, <1>5, <1>6, <1>8 DEF Unblocked, InTools, InRequest, Trigger
<1>11. RequestsKnown'
  BY <1>1, <1>5, <1>6, <1>8 DEF RequestsKnown, Overflowed, Declared, InTools, Trigger
<1>12. DeclaredInOrder'
  BY <1>1, <1>7, <1>8 DEF DeclaredInOrder, Declared, InTools, CallAt
<1>13. pc' \in RestingPlaces \ Ends /\ pc' \notin {"top", "openStep"} /\ pc \in BetweenSteps /\ pc # "ended"
  BY <1>1 DEF RestingPlaces, Ends, InTools, Points, BetweenSteps
<1>14. \A k \in Steps : LastRequest(run', k) = LastRequest(run, k)
  BY <1>5 DEF LastRequest, LastAttempt
<1>15. (control' = "cancel_requested" => run'.cancelRequested) /\ run'.userMessage
  BY <1>2, <1>5, <1>6 DEF SameCalls
<1> QED BY <1>1, <1>2, <1>3, <1>4, <1>5, <1>9, <1>10, <1>11, <1>12, <1>13, <1>14, <1>15, AppendAccount

LEMMA AfterCompactAccount ==
  ASSUME LoopInv, LoopInv', OpenInv, Clear', AfterCompact
  PROVE  OpenAccount'
<1>1. UNCHANGED toolVars /\ pc = "afterCompact" /\ OpenAccount
  BY SameClear, OpenNow DEF AfterCompact
<1>2. \A i \in Slots : ~Busy(i)
  BY <1>1, NobodyBusy DEF InTools
<1>3. NothingOpen /\ ~caught /\ run' = run /\ pc # "ended"
  BY <1>1, NothingOpenAt, NotCaught DEF InRequest, toolVars
<1>4. CASE GotoLoop("cancel")
  BY <1>1, <1>2, <1>3, <1>4, CancelAccount
<1>5. \A t \in Calls : ~IsOpen(run.tools[t])
  BY <1>1, UndeclaredClosed DEF Undeclared, Compacting
<1>6. CASE CloseWith(Failed("limit_exceeded"))
  BY <1>1, <1>2, <1>3, <1>6, CloseAccount DEF MayClose
<1>7. CASE CloseWith(Failed("context_limit"))
  <2>1. MayClose(Failed("context_limit"))
    BY <1>5, OutcomesAre, ReasonsAssumption DEF MayClose
  <2> QED BY <1>1, <1>2, <1>3, <1>7, <2>1, CloseAccount
<1>8. CASE /\ run.activeStep = 0 /\ GotoLoop("openStep")
  <2>1. pc' = "openStep" /\ UNCHANGED <<answer, next, goal, error, caught, compacted>>
    BY <1>8 DEF GotoLoop, Stay
  <2>2. run.blockedReason = NoReason
    BY <1>1, <1>8 DEF OpenAccount, Unblocked
  <2>3. NothingElseOpen' /\ Unblocked'
    BY <1>3, <2>1, <2>2 DEF NothingOpen, NothingElseOpen, Unblocked, InTools
  <2>4. RequestsKnown' /\ DeclaredInOrder'
    BY <1>3, <1>8, <2>1 DEF RequestsKnown, DeclaredInOrder, Declared, InTools, Undeclared, Compacting, InRequest
  <2>5. pc' \in RestingPlaces \ Ends
    BY <2>1 DEF RestingPlaces, Ends, InTools, Points
  <2>6. UNCHANGED <<run, worker, unresolvable, failure, caught>> /\ (control' = "cancel_requested" => run.cancelRequested)
    BY <1>1, <2>1 DEF OpenAccount, RunOpen, toolVars
  <2>7. pc \in BetweenSteps
    BY <1>1 DEF BetweenSteps
  <2> QED BY <1>1, <1>2, <1>3, <1>8, <2>1, <2>3, <2>4, <2>5, <2>6, <2>7, MoveAccount
<1>9. CASE /\ run.activeStep # 0 /\ compacted /\ GotoLoop("request")
  <2>1. pc' = "request" /\ UNCHANGED <<answer, next, goal, error, caught, compacted>>
    BY <1>9 DEF GotoLoop, Stay
  <2>2. /\ run.blockedReason = NoReason /\ Overflowed
        /\ run.compaction.status = "succeeded" /\ run.compaction.trigger = "context_overflow"
        /\ \A i \in Slots : run.tools[CallAt(i)].status = "absent"
    BY <1>1, <1>9 DEF OpenAccount, Unblocked, RequestsKnown, DeclaredInOrder, Undeclared, Compacting
  <2>3. NothingElseOpen' /\ Unblocked'
    BY <1>3, <2>1, <2>2 DEF NothingOpen, NothingElseOpen, Unblocked, InTools
  <2>4. RequestsKnown'
    BY <1>3, <2>1, <2>2 DEF RequestsKnown, Declared, InTools, Compacting, Overflowed, ValidAttempt, NextAttempt
  <2>5. DeclaredInOrder'
    BY <1>3, <2>1, <2>2 DEF DeclaredInOrder, Declared, InTools, CallAt
  <2>6. pc' \in RestingPlaces \ Ends
    BY <2>1 DEF RestingPlaces, Ends, InTools, Points
  <2>7. UNCHANGED <<run, worker, unresolvable, failure, caught>> /\ (control' = "cancel_requested" => run.cancelRequested)
    BY <1>1, <2>1 DEF OpenAccount, RunOpen, toolVars
  <2> QED BY <1>1, <1>2, <1>3, <1>9, <2>1, <2>3, <2>4, <2>5, <2>6, <2>7, MoveAccount
<1> QED BY <1>4, <1>6, <1>7, <1>8, <1>9 DEF AfterCompact

LEMMA TooLargeAccount ==
  ASSUME LoopInv, LoopInv', OpenInv, Clear', TooLarge
  PROVE  OpenAccount'
<1>1. UNCHANGED toolVars /\ pc = "request" /\ OpenAccount /\ CloseWith(Failed("limit_exceeded"))
  BY SameClear, OpenNow DEF TooLarge
<1>2. \A i \in Slots : ~Busy(i)
  BY <1>1, NobodyBusy DEF InTools
<1>3. NothingOpen /\ ~caught
  BY <1>1, NothingOpenAt, NotCaught DEF InRequest
<1> QED BY <1>1, <1>2, <1>3, CloseAccount DEF MayClose

-----------------------------------------------------------------------------
LEMMA StartModelRequestAccount ==
  ASSUME LoopInv, LoopInv', OpenInv, Clear', StartModelRequest
  PROVE  OpenAccount'
<1> DEFINE k == run.activeStep
           a == NextAttempt
<1>1. /\ UNCHANGED <<control, stopping, due, unresolvable, effects, worker, failure>>
      /\ pc = "request" /\ (\A i \in Slots : ~Busy(i)) /\ RunInv(run)
      /\ run.activeStep # 0
  BY NobodyBusy DEF StartModelRequest, InTools, LoopInv, RunKept, Placed, InStep
<1>2. k \in Steps /\ a \in Attempts
  BY <1>1, OpenStepIs DEF LoopInv, NextAttempt, Attempts
<1>3. PICK v \in Verdicts(CanStartRequest(run, k, a)) :
       CASE v = "accepted" -> /\ run' = StartRequest(run, k, a)
                              /\ GotoLoop("launch")
         [] v = "session_capacity" -> CloseWith(Failed("limit_exceeded")) /\ UNCHANGED run
         [] OTHER -> Throw(v) /\ UNCHANGED run
  BY DEF StartModelRequest
<1>4. SameCalls(run, StartRequest(run, k, a))
  BY <1>1, QuietEvents
<1>5. run'.activeTools = run.activeTools
  BY <1>3, <1>4 DEF SameCalls
<1>6. OpenAccount /\ Clear
  BY <1>1, <1>5, OpenBefore
<1>7. NothingOpen /\ ~caught
  BY <1>1, <1>6, NothingOpenAt, NotCaught DEF InRequest
<1>8. /\ run.blockedReason = NoReason /\ run.userMessage
      /\ ValidAttempt(run, k, a) /\ run.requests[<<k, 2>>].status = "absent"
      /\ control' = "cancel_requested" => run.cancelRequested
  BY <1>1, <1>6 DEF OpenAccount, Unblocked, RequestsKnown, RunOpen
<1>9. \A i \in Slots : run.tools[CallAt(i)].status = "absent"
  BY <1>1, <1>6 DEF OpenAccount, DeclaredInOrder, Undeclared
<1> HIDE DEF a
<1>10. CASE v \notin {"accepted", "session_capacity"}
  <2>1. UNCHANGED toolVars /\ Throw(v)
    BY <1>1, <1>3, <1>10 DEF toolVars
  <2>2. ~run.cancelRequested => CanStartRequest(run, k, a)
    <3>1. ~run.cancelRequested => Dispatchable(run)
      BY <1>1, <1>6, <1>8, MayDispatch
    <3>2. run.activeTools = {} /\ ~PendingApproval(run)
      BY <1>1, <1>6, NobodyActive, NothingPending
    <3>3. run.steps[k] = "running"
      BY <1>1, <1>2 DEF RunInv, ActiveSetsAgree
    <3> QED BY <1>7, <1>8, <3>1, <3>2, <3>3 DEF CanStartRequest, NothingOpen
  <2>3. Known(v)
    BY <1>10, <2>2, KnownVerdict
  <2> QED BY <1>1, <1>6, <1>7, <2>1, <2>3, ThrowAccount
<1>11. CASE v = "session_capacity"
  <2>1. UNCHANGED toolVars /\ CloseWith(Failed("limit_exceeded"))
    BY <1>1, <1>3, <1>11 DEF toolVars
  <2> QED BY <1>1, <1>6, <1>7, <2>1, CloseAccount DEF MayClose
<1>12. CASE v = "accepted"
  <2>1. run' = StartRequest(run, k, a) /\ pc' = "launch" /\ UNCHANGED <<answer, compacted, next, goal, error, caught>>
    BY <1>3, <1>12 DEF GotoLoop, Stay
  <2>2. SameCalls(run, run')
    BY <1>4, <2>1
  <2>3. /\ run'.status = Activity(run') /\ run'.userMessage = run.userMessage /\ run'.blockedReason = run.blockedReason
        /\ run'.activeCompaction = run.activeCompaction
        /\ \A q \in Requests : q # <<k, a>> => run'.requests[q] = run.requests[q]
    BY <1>1, <1>2, <2>1, RequestStartedIs
  <2>4. run'.activeStep = run.activeStep /\ run'.tools = run.tools
    BY <2>2 DEF SameCalls
  <2>5. NothingElseOpen' /\ Unblocked'
    BY <1>7, <1>8, <2>1, <2>3 DEF NothingOpen, NothingElseOpen, Unblocked, InTools, InRequest
  <2>6. RequestsKnown'
    BY <2>1 DEF RequestsKnown, Compacting, Declared, InTools
  <2>7. DeclaredInOrder'
    BY <1>9, <2>1, <2>4 DEF DeclaredInOrder, Declared, InTools, CallAt
  <2>8. pc' \in RestingPlaces \ Ends /\ pc' \notin {"top", "openStep"} \cup BetweenSteps /\ pc # "ended"
    BY <1>1, <2>1 DEF RestingPlaces, Ends, InTools, Points, BetweenSteps
  <2>9. \A j \in Steps : j # k => LastRequest(run', j) = LastRequest(run, j)
    <3>1. SUFFICES ASSUME NEW j \in Steps, j # k PROVE LastRequest(run', j) = LastRequest(run, j)
      OBVIOUS
    <3>2. <<j, 1>> \in Requests /\ <<j, 2>> \in Requests /\ <<j, 1>> # <<k, a>> /\ <<j, 2>> # <<k, a>>
      BY <3>1 DEF Requests, Attempts
    <3> QED BY <2>3, <3>2 DEF LastRequest, LastAttempt
  <2>10. (control' = "cancel_requested" => run'.cancelRequested) /\ run'.userMessage
    BY <1>8, <2>2, <2>3 DEF SameCalls
  <2> QED BY <1>1, <1>6, <1>7, <2>1, <2>2, <2>3, <2>5, <2>6, <2>7, <2>8, <2>9, <2>10, AppendAccount
<1> QED BY <1>10, <1>11, <1>12

\* An answer arrives, or nothing but the loop's place changes, while the request is open.
LEMMA AnswerAccount ==
  ASSUME LoopInv, OpenAccount, pc \in InRequest, pc' \in InRequest, UNCHANGED <<run, worker, unresolvable, failure, caught>>,
         control' = "cancel_requested" => run.cancelRequested,
         pc' \in {"answered", "record"} => Answers(answer')
  PROVE  OpenAccount'
<1>1. \A i \in Slots : ~Busy(i)
  BY NobodyBusy DEF InTools, InRequest
<1>2. ~caught /\ run' = run
  BY NotCaught DEF InRequest
<1>3. NothingElseOpen'
  BY <1>2 DEF OpenAccount, NothingElseOpen, InRequest
<1>4. Unblocked'
  BY <1>2 DEF OpenAccount, Unblocked, InRequest, InTools
<1>5. RequestsKnown'
  BY <1>2 DEF RequestsKnown, Compacting, Declared, InTools, InRequest, Answers
<1>6. DeclaredInOrder'
  <2>1. run.activeStep # 0 => \A i \in Slots : run.tools[CallAt(i)].status = "absent"
    BY DEF OpenAccount, DeclaredInOrder, Undeclared
  <2> QED BY <1>2, <2>1 DEF DeclaredInOrder, Declared, InTools, InRequest, CallAt
<1>7. pc' \in RestingPlaces \ Ends /\ pc' \notin {"top", "openStep"} \cup BetweenSteps /\ pc # "ended"
  BY DEF RestingPlaces, Ends, InTools, Points, BetweenSteps, InRequest
<1> QED BY <1>1, <1>2, <1>3, <1>4, <1>5, <1>6, <1>7, MoveAccount

LEMMA LaunchAccount ==
  ASSUME LoopInv, LoopInv', OpenInv, Clear', Launch
  PROVE  OpenAccount'
<1>1. /\ UNCHANGED <<run, stopping, due, unresolvable, effects, worker, failure, caught>>
      /\ pc = "launch" /\ control' = AbortForCancel
  BY DEF Launch
<1>2. Stopped => Stopped'
  BY <1>1 DEF Stopped, AbortForCancel
<1>3. OpenAccount
  BY <1>1, <1>2, StandingClear, OpenNow
<1>4. control' = "cancel_requested" => run.cancelRequested
  BY <1>1, <1>3 DEF OpenAccount, RunOpen, AbortForCancel
<1>5. \/ pc' = "answered" /\ answer' = Answer("cancelled", "cancel_requested", 0) /\ control' = "cancel_requested"
      \/ pc' = "reading"
  BY DEF Launch
<1>6. pc' \in {"answered", "record"} => Answers(answer')
  BY <1>4, <1>5 DEF Answers, Answer
<1> QED BY <1>1, <1>3, <1>4, <1>5, <1>6, AnswerAccount DEF InRequest

LEMMA ReadingAccount ==
  ASSUME LoopInv, LoopInv', OpenInv, Clear', Reading
  PROVE  OpenAccount'
<1>1. UNCHANGED toolVars /\ pc = "reading" /\ OpenAccount /\ ~LoopStopped
  <2>1. UNCHANGED toolVars /\ pc = "reading" /\ OpenAccount /\ Clear
    BY SameClear, OpenNow DEF Reading
  <2> QED BY <2>1 DEF Clear, Stopped, LoopStopped
<1>2. (\A i \in Slots : ~Busy(i)) /\ ~caught
  BY <1>1, NobodyBusy, NotCaught DEF InTools
<1>3. CASE Throw("provider_cleanup")
  BY <1>1, <1>2, <1>3, ThrowAccount DEF Known
<1>4. CASE \E o : Answered(o) /\ Answers(o)
  <2>1. /\ pc' = "answered" /\ Answers(answer') /\ UNCHANGED <<run, worker, unresolvable, failure, caught>>
        /\ control' = "cancel_requested" => run.cancelRequested
    BY <1>1, <1>4 DEF Answered, toolVars, OpenAccount, RunOpen
  <2> QED BY <1>1, <2>1, AnswerAccount DEF InRequest
<1>5. \A n : Answers(Answer("succeeded", "completed", n))
  BY DEF Answers, Answer
<1>6. \A reason \in ModelFailures : Answers(Answer("failed", reason, 0))
  BY FailedAssumption, ReasonsAssumption DEF Answers, Answer, ModelFailures
<1>7. control = "cancel_requested" => Answers(Answer("cancelled", "cancel_requested", 0))
  BY <1>1 DEF Answers, Answer, OpenAccount, RunOpen
<1> QED BY <1>1, <1>3, <1>4, <1>5, <1>6, <1>7 DEF Reading

LEMMA AppendDeltaAccount ==
  ASSUME LoopInv, LoopInv', OpenInv, Clear', AppendDelta
  PROVE  OpenAccount'
<1> DEFINE q == run.activeRequest
<1>1. /\ UNCHANGED <<stopping, due, unresolvable, effects, worker, failure>>
      /\ pc = "reading" /\ control = "none" /\ (\A i \in Slots : ~Busy(i)) /\ RunInv(run)
      /\ q # NoRequest
  BY NobodyBusy DEF AppendDelta, InTools, LoopInv, RunKept, Placed, InRequest
<1>2. SameCalls(run, RecordDelta(run, q)) /\ RecordDelta(run, q).activeRequest = q
  BY <1>1, QuietEvents
<1>3. run'.activeTools = run.activeTools
  BY <1>2 DEF AppendDelta, SameCalls
<1>4. Stopped => Stopped'
  BY <1>1 DEF Stopped
<1>5. OpenAccount
  BY <1>1, <1>3, <1>4, StandingClear, OpenNow
<1>6. ~caught /\ run.blockedReason = NoReason /\ run.userMessage /\ ~run.activeCompaction
  BY <1>1, <1>5, NotCaught DEF OpenAccount, Unblocked, RunOpen, NothingElseOpen, InRequest
<1>7. run.activeStep # 0 => \A i \in Slots : run.tools[CallAt(i)].status = "absent"
  BY <1>1, <1>5 DEF OpenAccount, DeclaredInOrder, Undeclared, InRequest
<1>8. CASE CanRecordDelta(run, q) /\ run' = RecordDelta(run, q) /\ GotoLoop("reading") /\ UNCHANGED control
  <2>1. pc' = "reading" /\ UNCHANGED <<answer, next, goal, error, caught, compacted>>
    BY <1>8 DEF GotoLoop, Stay
  <2>2. SameCalls(run, run') /\ run'.activeRequest = q
    BY <1>2, <1>8
  <2>3. q \in Requests
    BY <1>1 DEF RunInv, RunType
  <2>4. /\ run'.status = Activity(run') /\ run'.userMessage = run.userMessage /\ run'.blockedReason = run.blockedReason
        /\ run'.activeCompaction = run.activeCompaction
        /\ \A p \in Requests : SameRequest(run'.requests[p], run.requests[p])
    <3> HIDE DEF q
    <3>1. run.requests[q].deltas < MaxDelta
      BY <1>8 DEF CanRecordDelta
    <3> QED BY <1>1, <1>8, <2>3, <3>1, DeltaRecordedIs
  <2>5. NothingElseOpen' /\ Unblocked'
    BY <1>6, <2>1, <2>4 DEF NothingElseOpen, Unblocked, InTools, InRequest
  <2>6. RequestsKnown'
    BY <2>1 DEF RequestsKnown, Compacting, Declared, InTools
  <2>7. DeclaredInOrder'
    BY <1>7, <2>1, <2>2 DEF DeclaredInOrder, Declared, InTools, CallAt, SameCalls
  <2>8. pc' \in RestingPlaces \ Ends /\ pc' \notin {"top", "openStep"} \cup BetweenSteps /\ pc # "ended"
    BY <1>1, <2>1 DEF RestingPlaces, Ends, InTools, Points, BetweenSteps
  <2>9. \A j \in Steps : LastRequest(run', j).calls = LastRequest(run, j).calls
    <3>1. SUFFICES ASSUME NEW j \in Steps PROVE LastRequest(run', j).calls = LastRequest(run, j).calls
      OBVIOUS
    <3>2. <<j, 1>> \in Requests /\ <<j, 2>> \in Requests
      BY DEF Requests, Attempts
    <3> QED BY <2>4, <3>2 DEF LastRequest, LastAttempt, SameRequest
  <2>10. (control' = "cancel_requested" => run'.cancelRequested) /\ run'.userMessage
    BY <1>1, <1>6, <1>8, <2>4
  <2> QED BY <1>1, <1>5, <1>6, <2>1, <2>2, <2>4, <2>5, <2>6, <2>7, <2>8, <2>9, <2>10, AppendAccount
<1>9. CASE /\ UNCHANGED run /\ (control' = "cancel_requested" => run.cancelRequested)
           /\ \E o : Answered(o) /\ Answers(o)
  <2>1. pc' = "answered" /\ Answers(answer') /\ UNCHANGED <<run, worker, unresolvable, failure, caught>>
    BY <1>1, <1>9 DEF Answered
  <2> QED BY <1>1, <1>5, <1>9, <2>1, AnswerAccount DEF InRequest
<1>10. run.cancelRequested => Answers(Answer("cancelled", "cancel_requested", 0))
  BY DEF Answers, Answer
<1>11. Answers(Answer("failed", "limit_exceeded", 0))
  BY ReasonsAssumption DEF Answers, Answer
<1> QED BY <1>1, <1>8, <1>9, <1>10, <1>11 DEF AppendDelta

LEMMA CheckAnswerAccount ==
  ASSUME LoopInv, LoopInv', OpenInv, Clear', CheckAnswer
  PROVE  OpenAccount'
<1>1. UNCHANGED toolVars /\ pc = "answered" /\ pc' = "record" /\ OpenAccount /\ caught' = caught
  BY SameClear, OpenNow DEF CheckAnswer
<1>2. Answers(answer')
  BY <1>1 DEF CheckAnswer, OpenAccount, RequestsKnown, Answers, Answer
<1>3. UNCHANGED <<run, worker, unresolvable, failure, caught>> /\ (control' = "cancel_requested" => run.cancelRequested)
  BY <1>1 DEF OpenAccount, RunOpen, toolVars
<1> QED BY <1>1, <1>2, <1>3, AnswerAccount DEF InRequest

LEMMA RecordAnswerAccount ==
  ASSUME LoopInv, LoopInv', OpenInv, Clear', RecordAnswer
  PROVE  OpenAccount'
<1> DEFINE q == run.activeRequest
           k == run.activeStep
<1>1. /\ UNCHANGED <<control, stopping, due, unresolvable, effects, worker, failure>>
      /\ pc = "record" /\ (\A i \in Slots : ~Busy(i)) /\ RunInv(run)
      /\ q # NoRequest
  BY NobodyBusy DEF RecordAnswer, InTools, LoopInv, RunKept, Placed, InRequest
<1>2. SameCalls(run, FinishRequest(run, q, answer, answer.calls))
  BY <1>1, QuietEvents
<1>3. run'.activeTools = run.activeTools
  BY <1>2 DEF RecordAnswer, SameCalls
<1>4. OpenAccount
  BY <1>1, <1>3, OpenBefore
<1>5. q \in Requests /\ q[1] = k /\ run.requests[q].status = "running"
  BY <1>1 DEF RunInv, RunType, ActiveSetsAgree
<1>6. Answers(answer) /\ answer.calls \in 0..MaxCall /\ (answer.status # "succeeded" => answer.calls = 0)
  BY <1>1, <1>4 DEF OpenAccount, RequestsKnown, LoopInv, LoopType
<1>7. IsOutcome(answer, TerminalRequest) /\ TerminalSemantics(run, answer)
  BY <1>6 DEF Answers, IsOutcome, TerminalRequest, Reasons, TerminalSemantics
<1>8. /\ ~caught /\ run.blockedReason = NoReason /\ run.userMessage /\ ~run.activeCompaction
      /\ control' = "cancel_requested" => run.cancelRequested
  BY <1>1, <1>4, NotCaught DEF OpenAccount, Unblocked, RunOpen, NothingElseOpen, InRequest
<1>9. run.activeStep # 0 => \A i \in Slots : run.tools[CallAt(i)].status = "absent"
  BY <1>1, <1>4 DEF OpenAccount, DeclaredInOrder, Undeclared, InRequest
<1>10. CanFinishRequest(run, q, answer, answer.calls)
  BY <1>5, <1>6, <1>7 DEF CanFinishRequest
<1>11. run' = FinishRequest(run, q, answer, answer.calls)
       /\ pc' = "recorded" /\ UNCHANGED <<answer, next, goal, error, caught, compacted>>
  BY <1>10 DEF RecordAnswer, GotoLoop, Stay
<1>12. SameCalls(run, run')
  BY <1>2, <1>11
<1>13. /\ run'.status = Activity(run') /\ run'.userMessage = run.userMessage
       /\ run'.activeCompaction = run.activeCompaction
       /\ run'.activeRequest = NoRequest
       /\ run'.blockedReason = (IF answer.status = "succeeded" \/ (answer.reason = "context_limit" /\ q[2] = 1)
                                THEN run.blockedReason ELSE BlockedOr(run, answer.reason))
       /\ run'.requests[q].status = answer.status /\ run'.requests[q].reason = answer.reason
       /\ run'.requests[q].calls = answer.calls
       /\ \A p \in Requests : p # q => run'.requests[p] = run.requests[p]
  <2> HIDE DEF q
  <2> QED BY <1>1, <1>5, <1>6, <1>7, <1>11, RequestFinishedIs
<1>14. k \in Steps /\ q[2] \in {1, 2} /\ q = <<k, q[2]>> /\ run'.activeStep = k
  BY <1>5, <1>12 DEF Requests, Attempts, SameCalls
<1>15. LastAttempt(run', k) = q[2] /\ LastRequest(run', k) = run'.requests[q]
  <2>1. CASE q[2] = 1
    <3>1. run.requests[<<k, 2>>].status = "absent"
      BY <1>1, <1>5, <1>14, <2>1, RunningRequest
    <3>2. <<k, 2>> \in Requests /\ <<k, 2>> # q
      BY <1>14, <2>1 DEF Requests, Attempts
    <3>3. run'.requests[<<k, 2>>].status = "absent"
      BY <1>13, <3>1, <3>2
    <3> QED BY <1>14, <2>1, <3>3 DEF LastAttempt, LastRequest
  <2>2. CASE q[2] = 2
    <3>1. run'.requests[<<k, 2>>].status # "absent"
      BY <1>6, <1>13, <1>14, <2>2 DEF Answers
    <3> QED BY <1>14, <2>2, <3>1 DEF LastAttempt, LastRequest
  <2> QED BY <1>14, <2>1, <2>2
<1>16. NothingElseOpen'
  BY <1>8, <1>13 DEF NothingElseOpen
<1>17. Unblocked'
  <2>1. run'.blockedReason \in {NoReason, answer'.reason}
    BY <1>8, <1>11, <1>13 DEF BlockedOr
  <2>2. answer'.status = "succeeded" \/ (answer'.reason = "context_limit" /\ LastAttempt(run', run'.activeStep) = 1)
          => run'.blockedReason = NoReason
    BY <1>8, <1>11, <1>13, <1>14, <1>15
  <2> QED BY <1>11, <2>1, <2>2 DEF Unblocked, InTools, InRequest
<1>18. RequestsKnown'
  <2>1. Answers(answer)'
    BY <1>6, <1>11, <1>12 DEF Answers, SameCalls
  <2> QED BY <1>11, <1>13, <1>14, <1>15, <2>1 DEF RequestsKnown, Compacting, Declared, InTools, Answers
<1>19. DeclaredInOrder'
  BY <1>9, <1>11, <1>12 DEF DeclaredInOrder, Declared, InTools, CallAt, SameCalls
<1>20. pc' \in RestingPlaces \ Ends /\ pc' \notin {"top", "openStep"} \cup BetweenSteps /\ pc # "ended"
  BY <1>1, <1>11 DEF RestingPlaces, Ends, InTools, Points, BetweenSteps
<1>21. \A j \in Steps : j # k => LastRequest(run', j) = LastRequest(run, j)
  <2>1. SUFFICES ASSUME NEW j \in Steps, j # k PROVE LastRequest(run', j) = LastRequest(run, j)
    OBVIOUS
  <2>2. <<j, 1>> \in Requests /\ <<j, 2>> \in Requests /\ <<j, 1>> # q /\ <<j, 2>> # q
    BY <1>14, <2>1 DEF Requests, Attempts
  <2> QED BY <1>13, <2>2 DEF LastRequest, LastAttempt
<1>22. (control' = "cancel_requested" => run'.cancelRequested) /\ run'.userMessage
  BY <1>8, <1>12, <1>13 DEF SameCalls
<1> QED BY <1>1, <1>4, <1>8, <1>11, <1>12, <1>13, <1>16, <1>17, <1>18, <1>19, <1>20, <1>21, <1>22, AppendAccount

LEMMA RecordedAccount ==
  ASSUME LoopInv, LoopInv', OpenInv, Clear', Recorded
  PROVE  OpenAccount'
<1>1. UNCHANGED toolVars /\ pc = "recorded" /\ OpenAccount
  BY SameClear, OpenNow DEF Recorded
<1>2. \A i \in Slots : ~Busy(i)
  BY <1>1, NobodyBusy DEF InTools
<1>3. NothingOpen /\ ~caught /\ run' = run /\ pc # "ended"
  BY <1>1, NothingOpenAt, NotCaught DEF InRequest, toolVars
<1>4. \A t \in Calls : ~IsOpen(run.tools[t])
  BY <1>1, UndeclaredClosed DEF Undeclared
<1>5. /\ Answers(answer) /\ run.blockedReason \in {NoReason, answer.reason}
      /\ answer.status = "succeeded" \/ (answer.reason = "context_limit" /\ LastAttempt(run, run.activeStep) = 1)
           => run.blockedReason = NoReason
      /\ LastRequest(run, run.activeStep).status = answer.status /\ LastRequest(run, run.activeStep).reason = answer.reason
      /\ LastRequest(run, run.activeStep).calls = answer.calls
  BY <1>1 DEF OpenAccount, RequestsKnown, Unblocked
<1>6. run.activeStep # 0 /\ answer.calls \in Nat /\ next \in Nat
  BY <1>1, BoundsAssumption DEF LoopInv, Placed, InStep, LoopType
<1>7. \A i \in Slots : run.tools[CallAt(i)].status = "absent"
  BY <1>1, <1>6 DEF OpenAccount, DeclaredInOrder, Undeclared
<1>8. UNCHANGED <<run, worker, unresolvable, failure>> /\ (control' = "cancel_requested" => run.cancelRequested)
  BY <1>1 DEF OpenAccount, RunOpen, toolVars
<1>9. CASE answer.reason = "context_limit" /\ LastAttempt(run, run.activeStep) = 1 /\ GotoLoop("compact")
  <2>1. pc' = "compact" /\ UNCHANGED <<answer, next, goal, error, caught, compacted>>
    BY <1>9 DEF GotoLoop, Stay
  <2>2. run.blockedReason = NoReason /\ Overflowed
    BY <1>5, <1>9 DEF Answers, Overflowed, LastAttempt, LastRequest
  <2>3. NothingElseOpen' /\ Unblocked'
    BY <1>3, <2>1, <2>2 DEF NothingOpen, NothingElseOpen, Unblocked, InTools, InRequest
  <2>4. RequestsKnown'
    BY <1>3, <2>1, <2>2 DEF RequestsKnown, Overflowed, Declared, InTools
  <2>5. DeclaredInOrder'
    BY <1>3, <1>7, <2>1 DEF DeclaredInOrder, Declared, InTools, CallAt
  <2>6. pc' \in RestingPlaces \ Ends /\ pc' \notin {"top", "openStep"}
    BY <2>1 DEF RestingPlaces, Ends, InTools, Points
  <2> QED BY <1>1, <1>2, <1>3, <1>6, <1>8, <2>1, <2>3, <2>4, <2>5, <2>6, MoveAccount
<1>10. CASE /\ answer.status # "succeeded"
            /\ CloseWith(Outcome(IF answer.status = "cancelled" THEN "cancelled" ELSE "failed", answer.reason, "runner"))
  <2> DEFINE o == Outcome(IF answer.status = "cancelled" THEN "cancelled" ELSE "failed", answer.reason, "runner")
  <2>1. CASE answer.status = "cancelled"
    <3>1. o = Cancelled /\ run.cancelRequested /\ run.blockedReason # "cleanup_failed"
      BY <1>5, <2>1 DEF Answers, Outcome, Cancelled, NoReason
    <3>2. MayClose(o)
      BY <1>4, <3>1, OutcomesAre DEF MayClose
    <3> HIDE DEF o
    <3> QED BY <1>1, <1>2, <1>3, <1>10, <3>2, CloseAccount DEF o
  <2>2. CASE answer.status = "failed"
    <3>1. o.status = "failed" /\ o.reason \in FailureReasons /\ o.origin = "runner"
      BY <1>5, <2>2 DEF Answers, Outcome
    <3>2. MayClose(o)
      BY <1>4, <3>1 DEF MayClose
    <3> HIDE DEF o
    <3> QED BY <1>1, <1>2, <1>3, <1>10, <3>2, CloseAccount DEF o
  <2> QED BY <1>5, <1>10, <2>1, <2>2 DEF Answers
<1>11. CASE answer.status = "succeeded" /\ answer.calls = 0 /\ CloseWith(Completed)
  <2>1. MayClose(Completed)
    BY <1>3, <1>4, <1>5, <1>6, <1>11, OutcomesAre DEF MayClose
  <2> QED BY <1>1, <1>2, <1>3, <1>11, <2>1, CloseAccount
<1>12. CASE /\ answer.status = "succeeded" /\ answer.calls # 0
            /\ pc' = "prepare" /\ next' = 1 /\ UNCHANGED <<answer, compacted, goal, error, caught>>
  <2>1. NothingElseOpen' /\ Unblocked'
    BY <1>3, <1>5, <1>12 DEF NothingOpen, NothingElseOpen, Unblocked, InTools, InRequest
  <2>2. RequestsKnown'
    BY <1>3, <1>5, <1>6, <1>12 DEF RequestsKnown, Compacting
  <2>3. DeclaredInOrder'
    <3>1. \A i \in Slots : ~(i < 1)
      BY DEF Slots
    <3>2. 1 <= answer.calls + 1
      BY <1>6
    <3> QED BY <1>3, <1>7, <1>12, <3>1, <3>2 DEF DeclaredInOrder, Declared, Undeclared, Compacting, InRequest, InTools, CallAt
  <2>4. pc' \in RestingPlaces \ Ends /\ pc' \notin {"top", "openStep"}
    BY <1>12 DEF RestingPlaces, Ends, InTools, Points
  <2> QED BY <1>1, <1>2, <1>3, <1>6, <1>8, <1>12, <2>1, <2>2, <2>3, <2>4, MoveAccount
<1> QED BY <1>9, <1>10, <1>11, <1>12 DEF Recorded

-----------------------------------------------------------------------------
\* No worker is launched yet, nor does an approval wait.
LEMMA IdleAccount ==
  ASSUME \A i \in Slots : worker'[i].at = "idle", \A t \in Calls : run'.approvals[t] # "pending",
         pc' \notin {"sweeping", "waitStart", "await"}, pc' = "pool" => next' = 1
  PROVE  Turn' /\ Decided' /\ Crew'
<1>1. Turn' /\ Decided'
  BY DEF Turn, Undispatched, Decided
<1>2. Crew'
  <2>1. \A i \in Slots : ~(i < 1)
    BY DEF Slots
  <2> QED BY <2>1 DEF Crew, InTools, Undispatched, Busy
<1> QED BY <1>1, <1>2

\* The loop moves among the tools: the run stays.
LEMMA ToolsMoveAccount ==
  ASSUME OpenAccount, UNCHANGED <<run, control, unresolvable, failure, answer, caught>>, ~caught, NothingOpen,
         pc # "ended", pc' \in InTools,
         run.blockedReason \in {NoReason, "cleanup_failed"},
         LastRequest(run, run.activeStep).status = "succeeded" /\ LastRequest(run, run.activeStep).calls = answer.calls,
         answer.calls > 0,
         DeclaredInOrder', Turn', Decided', Crew'
  PROVE  OpenAccount'
<1>1. run' = run /\ pc' \notin BetweenSteps \cup InRequest \cup {"request", "recorded", "prepare", "create", "tooled", "closeStep",
         "stepClosed", "catch", "cancel", "sweep", "sweeping", "finish", "close", "ended"}
  BY DEF InTools, BetweenSteps, InRequest
<1>2. StepsInOrder'
  <2>1. NextStep' = NextStep /\ OpenSteps' = OpenSteps
    BY <1>1, SameSteps DEF OpenSteps
  <2> QED BY <1>1, <2>1 DEF OpenAccount, StepsInOrder
<1>3. RunOpen'
  BY <1>1 DEF OpenAccount, RunOpen, BetweenSteps
<1>4. NothingElseOpen' /\ Unblocked'
  BY <1>1 DEF NothingOpen, NothingElseOpen, Unblocked, BetweenSteps
<1>5. RequestsKnown'
  BY <1>1 DEF RequestsKnown, Compacting, BetweenSteps, InRequest
<1>6. GatesKnown'
  BY <1>1 DEF OpenAccount, GatesKnown, CallAt
<1>7. ErrorsKnown'
  BY <1>1 DEF OpenAccount, ErrorsKnown
<1>8. Closing' /\ LeftOpen'
  BY <1>1 DEF Closing, LeftOpen
<1> QED BY <1>2, <1>3, <1>4, <1>5, <1>6, <1>7, <1>8 DEF OpenAccount

LEMMA PrepareAccount ==
  ASSUME LoopInv, LoopInv', OpenInv, Clear', Prepare
  PROVE  OpenAccount'
<1>1. UNCHANGED toolVars /\ pc = "prepare" /\ OpenAccount /\ pc # "ended"
  BY SameClear, OpenNow DEF Prepare
<1>2. \A i \in Slots : ~Busy(i)
  BY <1>1, NobodyBusy DEF InTools
<1>3. NothingOpen /\ ~caught /\ run' = run
  BY <1>1, NothingOpenAt, NotCaught DEF InRequest, toolVars
<1>4. /\ run.blockedReason = NoReason
      /\ LastRequest(run, run.activeStep).status = "succeeded" /\ LastRequest(run, run.activeStep).calls = answer.calls
      /\ answer.calls > 0 /\ next <= answer.calls + 1
      /\ \A i \in Slots : run.tools[CallAt(i)].status = IF i < next THEN "created" ELSE "absent"
  BY <1>1 DEF OpenAccount, Unblocked, RequestsKnown, DeclaredInOrder
<1>5. run.activeStep # 0 /\ answer.calls \in 0..MaxCall /\ next \in Nat
  BY <1>1, BoundsAssumption DEF LoopInv, Placed, InStep, LoopType
<1>6. UNCHANGED <<run, worker, unresolvable, failure>> /\ (control' = "cancel_requested" => run.cancelRequested)
  BY <1>1 DEF OpenAccount, RunOpen, toolVars
<1>7. CASE GotoLoop("cancel")
  BY <1>1, <1>2, <1>3, <1>7, CancelAccount
<1>8. CASE next <= answer.calls /\ GotoLoop("create")
  <2>1. pc' = "create" /\ UNCHANGED <<answer, next, goal, error, caught, compacted>>
    BY <1>8 DEF GotoLoop, Stay
  <2>2. NothingElseOpen' /\ Unblocked'
    BY <1>3, <1>4, <2>1 DEF NothingOpen, NothingElseOpen, Unblocked, InTools, InRequest
  <2>3. RequestsKnown'
    BY <1>3, <1>4, <2>1 DEF RequestsKnown, Compacting
  <2>4. DeclaredInOrder'
    BY <1>3, <1>4, <1>8, <2>1 DEF DeclaredInOrder, Declared, Undeclared, Compacting, InRequest, InTools, CallAt
  <2>5. pc' \in RestingPlaces \ Ends /\ pc' \notin {"top", "openStep"}
    BY <2>1 DEF RestingPlaces, Ends, InTools, Points
  <2> QED BY <1>1, <1>2, <1>3, <1>5, <1>6, <2>1, <2>2, <2>3, <2>4, <2>5, MoveAccount
<1>9. CASE ~(next <= answer.calls) /\ pc' = "pool" /\ next' = 1 /\ UNCHANGED <<answer, compacted, goal, error, caught>>
  <2>1. DeclaredInOrder'
    <3>1. \A i \in Slots : i <= answer.calls => i < next
      BY <1>5, <1>9, BoundsAssumption DEF Slots
    <3>2. 1 <= answer.calls + 1
      BY <1>5, BoundsAssumption
    <3>3. \A i \in Slots : /\ i <= answer.calls => run.tools[CallAt(i)].status # "absent"
                           /\ run.tools[CallAt(i)].status \in {"absent", "created"}
      BY <1>4, <3>1
    <3> QED BY <1>3, <1>9, <3>2, <3>3 DEF DeclaredInOrder, Declared, Undeclared, Compacting, InRequest, InTools, CallAt
  <2>2. \A i \in Slots : worker'[i].at = "idle"
    BY <1>1, <1>6 DEF LoopInv, Launched, Unlaunched
  <2>3. \A t \in Calls : run'.approvals[t] # "pending"
    BY <1>1, <1>2, <1>3, NothingPending DEF PendingApproval
  <2>4. Turn' /\ Decided' /\ Crew'
    BY <1>9, <2>2, <2>3, IdleAccount
  <2> QED BY <1>1, <1>3, <1>4, <1>9, <2>1, <2>4, ToolsMoveAccount DEF InTools, toolVars
<1> QED BY <1>7, <1>8, <1>9 DEF Prepare

\* The loop meets a full session while it works for the calls, or another error.
LEMMA ThrowInToolsAccount ==
  ASSUME LoopInv, OpenAccount, \A i \in Slots : ~Busy(i), UNCHANGED toolVars, pc # "ended",
         NEW code, ThrowInTools(code), ~caught, Known(code), NothingOpen, run.activeStep # 0
  PROVE  OpenAccount'
<1>1. CASE Throw(code)
  BY <1>1, ThrowAccount
<1>2. CASE GotoLoop("starve")
  <2>1. pc' = "starve" /\ UNCHANGED <<answer, next, goal, error, caught, compacted>> /\ run' = run
    BY <1>2 DEF GotoLoop, Stay, toolVars
  <2>2. NothingElseOpen' /\ Unblocked'
    BY <2>1 DEF NothingOpen, NothingElseOpen, Unblocked, InTools, InRequest
  <2>3. RequestsKnown' /\ DeclaredInOrder'
    BY <2>1 DEF RequestsKnown, DeclaredInOrder, Declared, Undeclared, Compacting, InRequest, InTools
  <2>4. pc' \in RestingPlaces \ Ends /\ pc' \notin {"top", "openStep"}
    BY <2>1 DEF RestingPlaces, Ends, InTools, Points
  <2>5. UNCHANGED <<run, worker, unresolvable, failure>> /\ (control' = "cancel_requested" => run.cancelRequested)
    BY DEF OpenAccount, RunOpen, toolVars
  <2> QED BY <2>1, <2>2, <2>3, <2>4, <2>5, MoveAccount
<1> QED BY <1>1, <1>2 DEF ThrowInTools

LEMMA CreateDeclaredAccount ==
  ASSUME LoopInv, LoopInv', OpenInv, Clear', CreateDeclared
  PROVE  OpenAccount'
<1> DEFINE t == CallAt(next)
           k == run.activeStep
<1>1. /\ \A i \in Slots : ~Busy(i)
      /\ pc = "create" /\ pc # "ended" /\ RunInv(run) /\ RunKept /\ run.activeStep # 0
      /\ UNCHANGED <<control, stopping, due, effects, worker, failure>>
  BY NobodyBusy DEF CreateDeclared, InTools, LoopInv, RunKept, Placed, InStep
<1>2. next \in Slots
  BY <1>1, BoundsAssumption DEF LoopInv, LoopType, Placed, Slots
<1>3. t \in Calls /\ k \in Steps /\ \A i \in Slots : CallAt(i) \in Calls
  BY <1>1, <1>2, OpenStepIs
<1>4. PICK v \in Verdicts(CanCreateCall(run, t)) :
          IF v = "accepted"
          THEN /\ \E kind \in CallKinds :
                    /\ run' = CreateCall(run, t, kind.gated, kind.mode)
                    /\ unresolvable' = IF kind.resolvable THEN unresolvable ELSE unresolvable \cup {next}
               /\ pc' = "prepare" /\ next' = next + 1
               /\ UNCHANGED <<answer, compacted, goal, error, caught>>
          ELSE ThrowInTools(v) /\ UNCHANGED <<run, unresolvable>>
  BY DEF CreateDeclared
<1>5. \A gated, mode : CallCreated(run, CreateCall(run, t, gated, mode), t, gated, mode)
  <2> HIDE DEF t
  <2> QED BY <1>1, <1>3, CreatedEvent
<1>6. run'.activeTools = run.activeTools
  BY <1>4, <1>5 DEF CallCreated
<1>7. OpenAccount /\ Clear
  BY <1>1, <1>6, OpenBefore
<1>8. NothingOpen /\ ~caught
  BY <1>1, <1>7, NothingOpenAt, NotCaught DEF InRequest
<1>9. /\ run.blockedReason = NoReason /\ run.userMessage
      /\ LastRequest(run, k).status = "succeeded" /\ LastRequest(run, k).calls = answer.calls
      /\ answer.calls > 0 /\ next <= answer.calls
      /\ \A i \in Slots : run.tools[CallAt(i)].status = IF i < next THEN "created" ELSE "absent"
      /\ control' = "cancel_requested" => run.cancelRequested
  BY <1>1, <1>7 DEF OpenAccount, Unblocked, RequestsKnown, DeclaredInOrder, RunOpen
<1>10. next \in Nat /\ answer.calls \in Nat /\ \A i \in Slots : i \in Nat
  BY <1>2, BoundsAssumption DEF LoopInv, LoopType, Slots
<1>11. run.tools[t].status = "absent"
  BY <1>2, <1>9, <1>10
<1>12. CASE v # "accepted"
  <2>1. UNCHANGED toolVars /\ ThrowInTools(v)
    BY <1>1, <1>4, <1>12 DEF toolVars
  <2>2. ~run.cancelRequested => CanCreateCall(run, t)
    <3>1. ~run.cancelRequested => Dispatchable(run)
      BY <1>1, <1>7, <1>9, MayDispatch
    <3>2. run.steps[k] = "running"
      BY <1>1, <1>3 DEF RunInv, ActiveSetsAgree
    <3>3. \A u \in EarlierSlots(t) : run.tools[u].status # "absent"
      <4>1. SUFFICES ASSUME NEW j \in 1..(next - 1) PROVE run.tools[<<k, j>>].status # "absent"
        BY DEF EarlierSlots, CallAt
      <4>2. j \in Slots /\ j < next
        BY <1>2, <1>10, BoundsAssumption DEF Slots
      <4> QED BY <1>9, <4>2 DEF CallAt
    <3> QED BY <1>8, <1>9, <1>11, <3>1, <3>2, <3>3 DEF CanCreateCall, NothingOpen, CallAt
  <2>3. Known(v)
    BY <1>12, <2>2, KnownVerdict
  <2> QED BY <1>1, <1>7, <1>8, <2>1, <2>3, ThrowInToolsAccount
<1>13. CASE v = "accepted"
  <2>1. PICK kind \in CallKinds :
                    /\ run' = CreateCall(run, t, kind.gated, kind.mode)
                    /\ unresolvable' = IF kind.resolvable THEN unresolvable ELSE unresolvable \cup {next}
    BY <1>4, <1>13
  <2>2. pc' = "prepare" /\ next' = next + 1 /\ UNCHANGED <<answer, compacted, goal, error, caught>>
    BY <1>4, <1>13
  <2>3. CallCreated(run, run', t, kind.gated, kind.mode)
    BY <1>5, <2>1
  <2>4. /\ kind.gated \in BOOLEAN /\ kind.mode \in {"parallel", "exclusive"}
        /\ kind.gated => kind.mode = "exclusive"
        /\ ~kind.resolvable => kind.mode = "exclusive"
    <3>1. \/ kind = [mode |-> "parallel", gated |-> FALSE, resolvable |-> TRUE]
          \/ \E g, r \in BOOLEAN : kind = [mode |-> "exclusive", gated |-> g, resolvable |-> r]
      BY DEF CallKinds
    <3>2. CASE kind = [mode |-> "parallel", gated |-> FALSE, resolvable |-> TRUE]
      <4>1. kind.mode = "parallel" /\ kind.gated = FALSE /\ kind.resolvable = TRUE
        BY <3>2
      <4> QED BY <4>1
    <3>3. ASSUME NEW g \in BOOLEAN, NEW r \in BOOLEAN,
                 kind = [mode |-> "exclusive", gated |-> g, resolvable |-> r]
          PROVE  /\ kind.gated \in BOOLEAN /\ kind.mode \in {"parallel", "exclusive"}
                 /\ kind.gated => kind.mode = "exclusive"
                 /\ ~kind.resolvable => kind.mode = "exclusive"
      <4>1. kind.mode = "exclusive" /\ kind.gated = g /\ kind.resolvable = r
        BY <3>3
      <4> QED BY <3>3, <4>1
    <3> QED BY <3>1, <3>2, <3>3
  <2>5. Quietly(run, run') /\ run'.blockedReason = run.blockedReason
    <3> HIDE DEF t
    <3> QED BY <1>1, <1>3, <2>1, <2>4, CreatedQuietly
  <2>6. /\ run'.activeStep = k /\ run'.steps = run.steps /\ run'.cancelRequested = run.cancelRequested
        /\ run'.approvals = run.approvals
        /\ run'.tools[t].status = "created" /\ run'.tools[t].gated = kind.gated /\ run'.tools[t].mode = kind.mode
        /\ \A u \in Calls : u # t => run'.tools[u] = run.tools[u]
    BY <1>1, <1>3, <2>3 DEF CallCreated, RunInv, RunType
  <2>7. \A i \in Slots : CallAt(i)' = CallAt(i) /\ (i # next => CallAt(i) # t)
    BY <2>6 DEF CallAt
  <2>8. StepsInOrder'
    <3>1. NextStep' = NextStep /\ OpenSteps' = OpenSteps
      BY <2>6, SameSteps DEF OpenSteps
    <3>2. \A j \in Steps : LastRequest(run', j) = LastRequest(run, j)
      BY <2>5 DEF Quietly, LastRequest, LastAttempt
    <3> QED BY <1>1, <1>7, <2>6, <3>1, <3>2 DEF OpenAccount, StepsInOrder
  <2>9. RunOpen'
    BY <1>9, <2>2, <2>5, <2>6 DEF RunOpen, Quietly
  <2>10. NothingElseOpen' /\ Unblocked'
    BY <1>8, <1>9, <2>2, <2>5 DEF NothingOpen, NothingElseOpen, Unblocked, InTools, InRequest, Quietly
  <2>11. RequestsKnown'
    BY <1>9, <2>2, <2>5, <2>6 DEF RequestsKnown, Compacting, Quietly, LastRequest, LastAttempt
  <2>12. DeclaredInOrder'
    <3>1. next + 1 <= answer.calls + 1
      BY <1>9, <1>10
    <3>2. \A i \in Slots : run'.tools[CallAt(i)].status = IF i < next + 1 THEN "created" ELSE "absent"
      <4>1. SUFFICES ASSUME NEW i \in Slots PROVE run'.tools[CallAt(i)].status = IF i < next + 1 THEN "created" ELSE "absent"
        OBVIOUS
      <4>2. CASE i = next
        BY <1>10, <2>6, <4>2
      <4>3. CASE i # next
        <5>1. run'.tools[CallAt(i)] = run.tools[CallAt(i)]
          BY <1>3, <2>6, <2>7, <4>3
        <5>2. i < next <=> i < next + 1
          BY <1>10, <4>3
        <5> QED BY <1>9, <5>1, <5>2
      <4> QED BY <4>2, <4>3
    <3> QED BY <2>2, <2>7, <3>1, <3>2 DEF DeclaredInOrder, Declared, Undeclared, Compacting, InRequest, InTools
  <2>13. GatesKnown'
    <3>1. run.approvals[t] = "absent"
      BY <1>3, <1>11 DEF LoopInv, CallsKnown
    <3>2. \A u \in Calls : /\ run'.tools[u].gated => run'.tools[u].mode = "exclusive"
                           /\ run'.approvals[u] # "absent" => run'.tools[u].gated
                           /\ run'.tools[u].status = "waiting_for_approval" =>
                                run'.approvals[u] \in {"pending", "denied", "expired"}
                           /\ IsOpen(run'.tools[u]) => run'.approvals[u] # "cancelled"
      BY <1>7, <2>4, <2>6, <3>1 DEF OpenAccount, GatesKnown
    <3>3. ASSUME NEW i \in Slots, i \in unresolvable'
          PROVE  /\ run'.tools[CallAt(i)].status # "absent" /\ run'.tools[CallAt(i)].mode = "exclusive"
                 /\ run'.approvals[CallAt(i)] = "absent"
      <4>1. CASE i \in unresolvable
        <5>1. /\ run.tools[CallAt(i)].status # "absent" /\ run.tools[CallAt(i)].mode = "exclusive"
              /\ run.approvals[CallAt(i)] = "absent"
          BY <1>1, <1>7, <4>1 DEF OpenAccount, GatesKnown
        <5>2. run.tools[CallAt(i)] = run'.tools[CallAt(i)]
          <6>1. CallAt(i) # t
            BY <1>11, <5>1
          <6> QED BY <1>3, <2>6, <6>1
        <5> QED BY <2>6, <5>1, <5>2
      <4>2. CASE i \notin unresolvable
        <5>1. i = next /\ ~kind.resolvable
          BY <2>1, <3>3, <4>2
        <5> QED BY <2>4, <2>6, <3>1, <5>1
      <4> QED BY <4>1, <4>2
    <3>4. pc' \notin BetweenSteps /\ \A i : CallAt(i)' = CallAt(i)
      BY <2>2, <2>6 DEF BetweenSteps, CallAt
    <3> QED BY <3>2, <3>3, <3>4 DEF GatesKnown
  <2>14. Turn' /\ Decided' /\ Crew'
    <3>1. \A i \in Slots : worker'[i].at = "idle"
      BY <1>1 DEF LoopInv, Launched, Unlaunched
    <3>2. \A u \in Calls : run'.approvals[u] # "pending"
      BY <1>1, <1>7, <2>6, NothingPending DEF PendingApproval
    <3> QED BY <2>2, <3>1, <3>2, IdleAccount
  <2>15. ErrorsKnown' /\ Closing' /\ LeftOpen'
    BY <1>1, <1>7, <1>8, <2>2, <2>6 DEF OpenAccount, ErrorsKnown, Closing, LeftOpen
  <2> QED BY <2>8, <2>9, <2>10, <2>11, <2>12, <2>13, <2>14, <2>15 DEF OpenAccount
<1> QED BY <1>12, <1>13

-----------------------------------------------------------------------------
\* Of some slots there is a first one.
LEMMA FirstSlot ==
  ASSUME NEW S \in SUBSET Slots, S # {}
  PROVE  \E i \in S : \A j \in 1..(i - 1) : j \notin S
<1>1. S \in SUBSET Nat
  BY BoundsAssumption DEF Slots
<1>2. PICK n \in S : \A m \in S : <<m, n>> \notin OpToRel(<, Nat)
  BY <1>1, WFMin, NatLessThanWellFounded, Zenon
<1>3. \A m \in S : ~(m < n)
  BY <1>1, <1>2, Zenon DEF OpToRel
<1>4. \A j \in 1..(n - 1) : j \notin S
  BY <1>1, <1>3
<1> QED BY <1>4

\* Nobody is busy where the loop waits for nobody, as long as nobody stopped it.
LEMMA NobodyBusyNow ==
  ASSUME LoopInv, Clear, pc \notin InTools \cup {"sweeping"}
  PROVE  \A i \in Slots : ~Busy(i)
BY DEF LoopInv, BusyWhere, Clear, Stopped

\* Where the step is behind the loop, an unchanged run leaves little to account for.
LEMMA ElsewhereAccount ==
  ASSUME OpenAccount, UNCHANGED run, control' = "cancel_requested" => run.cancelRequested, pc # "ended",
         pc' \in Ends \cup {"sweeping"}
  PROVE  StepsInOrder' /\ RunOpen' /\ Unblocked' /\ RequestsKnown' /\ DeclaredInOrder'
<1>1. /\ pc' \notin InTools \cup BetweenSteps \cup InRequest \cup Declared \cup Undeclared
      /\ pc' \notin {"request", "recorded", "prepare", "create", "closeStep", "stepClosed", "tooled"}
  BY DEF Ends, InTools, BetweenSteps, InRequest, Declared, Undeclared, Compacting
<1>2. pc' \notin {"top", "compact", "summarizing", "compactionAnswered", "afterCompact", "openStep", "answered", "record"} \cup Compacting
  BY <1>1 DEF BetweenSteps, InRequest, Compacting
<1>3. NextStep' = NextStep /\ OpenSteps' = OpenSteps /\ run' = run
  BY SameSteps DEF OpenSteps
<1>4. StepsInOrder'
  BY <1>3 DEF OpenAccount, StepsInOrder
<1>5. RunOpen'
  BY <1>2, <1>3 DEF OpenAccount, RunOpen
<1>6. Unblocked' /\ RequestsKnown' /\ DeclaredInOrder'
  BY <1>1, <1>2 DEF Unblocked, RequestsKnown, DeclaredInOrder, Declared
<1> QED BY <1>4, <1>5, <1>6

\* The loop goes on with a cancellation.
LEMMA SweepAccount ==
  ASSUME LoopInv, OpenAccount, \A i \in Slots : ~Busy(i), UNCHANGED toolVars, pc # "ended", pc' \in {"cancel", "sweep"}, NothingOpen
  PROVE  OpenAccount'
<1>1. StepsInOrder' /\ RunOpen' /\ Unblocked' /\ RequestsKnown' /\ DeclaredInOrder'
      /\ GatesKnown' /\ Turn' /\ Decided' /\ Crew'
  BY EndsStep DEF Ends
<1>2. NothingElseOpen'
  BY DEF NothingElseOpen, NothingOpen, toolVars
<1>3. ErrorsKnown'
  BY DEF OpenAccount, ErrorsKnown, toolVars
<1>4. Closing' /\ LeftOpen'
  BY DEF Closing, LeftOpen
<1> QED BY <1>1, <1>2, <1>3, <1>4 DEF OpenAccount

LEMMA CancelStepAccount ==
  ASSUME LoopInv, LoopInv', OpenInv, Clear', Cancel
  PROVE  OpenAccount'
<1>1. /\ UNCHANGED <<control, stopping, due, unresolvable, effects, worker, failure>>
      /\ pc = "cancel" /\ pc # "ended" /\ (\A i \in Slots : ~Busy(i)) /\ RunInv(run)
      /\ pc' = "sweep"
  BY NobodyBusy DEF Cancel, InTools, LoopInv, RunKept, GotoLoop
<1>2. run'.activeTools = run.activeTools
  <2>1. SameCalls(run, FinishRequest(run, run.activeRequest, Cancelled, 0))
    BY <1>1, QuietEvents
  <2> QED BY <2>1 DEF Cancel, SameCalls
<1>3. OpenAccount
  BY <1>1, <1>2, OpenBefore
<1>4. NothingOpen
  BY <1>1, <1>3, NothingOpenAt DEF InRequest
<1>5. UNCHANGED toolVars
  BY <1>1, <1>4 DEF Cancel, NothingOpen, toolVars
<1> QED BY <1>1, <1>3, <1>4, <1>5, SweepAccount

LEMMA SweepStepAccount ==
  ASSUME LoopInv, LoopInv', OpenInv, Clear', Sweep
  PROVE  OpenAccount'
<1>1. pc = "sweep" /\ pc # "ended" /\ (\A j \in Slots : ~Busy(j)) /\ RunKept /\ RunInv(run) /\ run.cancelRequested
  BY NobodyBusy DEF Sweep, InTools, LoopInv, Placed, RunKept
<1>2. CASE run.activeStep # 0 /\ \E i \in Slots : FirstOpen(i)
  <2>1. PICK i \in Slots :
            /\ FirstOpen(i)
            /\ IF run.tools[CallAt(i)].status = "running"
               THEN Throw("unowned_dispatch") /\ UNCHANGED toolVars
               ELSE /\ Goto(i, "advance") /\ failure' = "none"
                    /\ pc' = "sweeping" /\ next' = i + 1
                    /\ UNCHANGED <<answer, compacted, goal, error, caught>>
                    /\ UNCHANGED <<run, control, stopping, due, unresolvable, effects>>
    BY <1>2 DEF Sweep
  <2>2. CallAt(i) \in Calls /\ CallAt(i)[1] = run.activeStep /\ CallAt(i)[2] = i
    BY <1>1, <1>2, OpenStepIs
  <2>3. CASE run.tools[CallAt(i)].status = "running"
    <3>1. Clear
      BY <2>1, <2>3, SameClear
    <3>2. run.activeTools = {}
      BY <1>1, <3>1, NobodyActive
    <3>3. CallAt(i) \in run.activeTools
      BY <1>1, <2>2, <2>3 DEF RunInv, ActiveSetsAgree
    <3> QED BY <3>2, <3>3
  <2>4. CASE run.tools[CallAt(i)].status # "running"
    <3>1. run.activeTools = {}
      BY <1>1, <1>2, <2>1, <2>4, NobodyRuns
    <3>2. /\ Goto(i, "advance") /\ failure' = "none" /\ pc' = "sweeping" /\ next' = i + 1
          /\ UNCHANGED <<answer, compacted, goal, error, caught>>
          /\ UNCHANGED <<run, control, stopping, due, unresolvable, effects>>
      BY <2>1, <2>4
    <3>3. OpenAccount
      <4>1. Clear
        BY <3>1, <3>2 DEF Clear, Unsaved, Stopped
      <4> QED BY <4>1, OpenNow
    <3>4. worker'[i].at = "advance" /\ \A j \in Slots : j # i => worker'[j] = worker[j]
      BY <2>1, <3>2, GotoMoves DEF LoopInv, Moves, WorkerPoints
    <3>5. \A j \in Slots : worker[j].at \in {"idle", "done", "failed"}
      BY <1>1 DEF Busy
    <3>6. IsOpen(run.tools[CallAt(i)]) /\ EarlierOpen(run, CallAt(i)) = {}
      <4>1. ASSUME NEW u \in EarlierOpen(run, CallAt(i)) PROVE FALSE
        <5>1. PICK j \in 1..(i - 1) : u = <<CallAt(i)[1], j>>
          BY <2>2 DEF EarlierOpen, EarlierSlots
        <5>2. u = CallAt(j) /\ IsOpen(run.tools[u])
          BY <2>2, <5>1 DEF CallAt, EarlierOpen
        <5> QED BY <2>1, <5>1, <5>2 DEF FirstOpen
      <4> QED BY <2>1, <4>1 DEF FirstOpen
    <3>7. MayStartTool(run, CallAt(i))
      BY <3>1, <3>6 DEF MayStartTool
    <3>8. next' - 1 = i /\ run' = run /\ \A j : CallAt(j)' = CallAt(j)
      BY <2>1, <3>2, BoundsAssumption DEF Slots, CallAt
    <3>9. StepsInOrder' /\ RunOpen' /\ Unblocked' /\ RequestsKnown' /\ DeclaredInOrder'
      BY <1>1, <3>2, <3>3, ElsewhereAccount DEF OpenAccount, RunOpen
    <3>10. NothingElseOpen'
      <4>1. NothingOpen
        BY <1>1, <3>3, NothingOpenAt DEF InRequest
      <4> QED BY <3>8, <4>1 DEF NothingElseOpen, NothingOpen
    <3>11. GatesKnown'
      BY <3>2, <3>3, <3>8 DEF OpenAccount, GatesKnown, BetweenSteps
    <3>12. Turn'
      <4>1. ASSUME NEW j \in Slots, worker'[j].at \in Undispatched PROVE j = i
        BY <3>4, <3>5, <4>1 DEF Undispatched
      <4>2. IsOpen(run'.tools[CallAt(i)']) /\ run'.tools[CallAt(i)'].status # "running" /\ MayStartTool(run', CallAt(i)')
        BY <2>4, <3>6, <3>7, <3>8
      <4> QED BY <4>1, <4>2 DEF Turn
    <3>13. Decided'
      <4>1. \A t \in Calls : run.approvals[t] # "pending"
        BY <1>1, <3>3, NothingPending DEF PendingApproval
      <4>2. \A j \in Slots : worker'[j].at \in {"idle", "done", "failed", "advance"}
        BY <3>4, <3>5
      <4> QED BY <3>8, <4>1, <4>2 DEF Decided
    <3>14. Crew'
      <4>1. pc' = "sweeping" /\ worker'[next' - 1].at = "advance" /\ EarlierOpen(run, CallAt(next - 1))' = {}
        BY <3>2, <3>4, <3>6, <3>8
      <4>2. \A j \in Slots : worker'[j].at = "done" => worker[j].at = "done"
        BY <3>4
      <4>3. run'.activeStep # 0 => \A j \in Slots : worker'[j].at = "done" => run'.tools[CallAt(j)'].status \in TerminalCall
        BY <3>3, <3>8, <4>2 DEF OpenAccount, Crew
      <4> QED BY <3>8, <4>1, <4>3 DEF Crew, InTools
    <3>15. ErrorsKnown' /\ Closing' /\ LeftOpen'
      BY <3>2, <3>3, <3>8 DEF OpenAccount, ErrorsKnown, Closing, LeftOpen
    <3> QED BY <3>9, <3>10, <3>11, <3>12, <3>13, <3>14, <3>15 DEF OpenAccount
  <2> QED BY <2>3, <2>4
<1>3. CASE ~(run.activeStep # 0 /\ \E i \in Slots : FirstOpen(i))
  <2>1. UNCHANGED toolVars
        /\ IF run.blockedReason = "cleanup_failed" THEN CloseWith(Failed("cleanup_failed")) ELSE CloseWith(Cancelled)
    BY <1>3 DEF Sweep
  <2>2. OpenAccount
    BY <2>1, SameClear, OpenNow
  <2>3. NothingOpen
    BY <1>1, <2>2, NothingOpenAt DEF InRequest
  <2>4. \A t \in Calls : ~IsOpen(run.tools[t])
    <3>1. ASSUME run.activeStep # 0, NEW j \in Slots, IsOpen(run.tools[CallAt(j)]) PROVE FALSE
      <4> DEFINE S == {i \in Slots : IsOpen(run.tools[CallAt(i)])}
      <4>1. S \in SUBSET Slots /\ S # {}
        BY <3>1
      <4>2. PICK i \in S : \A m \in 1..(i - 1) : m \notin S
        BY <4>1, FirstSlot
      <4>3. \A m \in 1..(i - 1) : m \in Slots
        BY <4>2, BoundsAssumption DEF Slots
      <4>4. FirstOpen(i) /\ i \in Slots
        BY <4>2, <4>3 DEF FirstOpen
      <4> QED BY <1>3, <3>1, <4>4
    <3> QED BY <3>1, NoOpenCalls
  <2>5. CASE run.blockedReason = "cleanup_failed"
    <3>1. MayClose(Failed("cleanup_failed"))
      BY <2>4, OutcomesAre, ReasonsAssumption DEF MayClose
    <3>2. Failed("cleanup_failed").reason = "cleanup_failed"
      BY OutcomesAre
    <3> QED BY <1>1, <2>1, <2>2, <2>3, <2>5, <3>1, <3>2, CloseAccount
  <2>6. CASE run.blockedReason # "cleanup_failed"
    <3>1. MayClose(Cancelled)
      BY <1>1, <2>4, <2>6, OutcomesAre DEF MayClose
    <3>2. Cancelled.status = "cancelled"
      BY OutcomesAre
    <3> QED BY <1>1, <2>1, <2>2, <2>3, <2>6, <3>1, <3>2, CloseAccount
  <2> QED BY <2>5, <2>6
<1> QED BY <1>2, <1>3

LEMMA SweepingAccount ==
  ASSUME LoopInv, LoopInv', OpenInv, Clear', Sweeping
  PROVE  OpenAccount'
<1>1. UNCHANGED toolVars /\ pc = "sweeping" /\ pc # "ended" /\ OpenAccount /\ ~Busy(next - 1)
  BY SameClear, OpenNow DEF Sweeping
<1>2. next - 1 \in Slots
  BY <1>1, BoundsAssumption DEF LoopInv, LoopType, Placed, Slots
<1>3. \A i \in Slots : ~Busy(i)
  BY <1>1, <1>2 DEF LoopInv, Launched
<1>4. worker[next - 1].at = "done"
  BY <1>1 DEF OpenAccount, Crew, Busy
<1>5. pc' = "sweep"
  BY <1>4 DEF Sweeping, GotoLoop
<1>6. NothingOpen
  BY <1>1, NothingOpenAt DEF InRequest
<1> QED BY <1>1, <1>3, <1>5, <1>6, SweepAccount

LEMMA CatchAccount ==
  ASSUME LoopInv, LoopInv', OpenInv, Clear', Catch
  PROVE  OpenAccount'
<1>1. UNCHANGED toolVars /\ pc = "catch" /\ pc # "ended" /\ OpenAccount /\ Clear
  BY SameClear, OpenNow DEF Catch
<1>2. \A i \in Slots : ~Busy(i)
  BY <1>1, NobodyBusyNow DEF InTools
<1>3. \/ error \in {"workspace_blocked", "provider_cleanup", "session_capacity"}
      \/ run.cancelRequested /\ error \in {"cancelled-dispatch", "tool-order", "unsettled-step"}
      \/ error = "unsettled-step" /\ goal = Failed("limit_exceeded")
  BY <1>1 DEF OpenAccount, ErrorsKnown
<1>4. CASE error \in CancelledRace /\ run.cancelRequested /\ pc' = "cancel"
  <2>1. NothingOpen
    BY <1>1, <1>4 DEF OpenAccount, NothingElseOpen, NothingOpen, InRequest, CancelledRace
  <2> QED BY <1>1, <1>2, <1>4, <2>1, SweepAccount
<1>5. CASE ~(error \in CancelledRace /\ run.cancelRequested) /\ pc' = "ended" /\ UNCHANGED <<error, caught, goal>>
  <2>1. StepsInOrder' /\ RunOpen' /\ Unblocked' /\ RequestsKnown' /\ DeclaredInOrder'
        /\ GatesKnown' /\ Turn' /\ Decided' /\ Crew'
    BY <1>1, <1>2, <1>5, EndsStep DEF Ends
  <2>2. run' = run
    BY <1>1 DEF toolVars
  <2>3. NothingElseOpen'
    BY <1>1, <1>5, <2>2 DEF OpenAccount, NothingElseOpen, InRequest
  <2>4. ErrorsKnown'
    BY <1>1, <1>5, <2>2 DEF OpenAccount, ErrorsKnown, toolVars
  <2>5. LeftOpen'
    BY <1>3, <1>5, <2>2 DEF LeftOpen, CancelledRace, Failed, Outcome
  <2>6. Closing'
    BY <1>5 DEF Closing
  <2> QED BY <2>1, <2>3, <2>4, <2>5, <2>6 DEF OpenAccount
<1> QED BY <1>4, <1>5 DEF Catch

LEMMA FinishLoadAccount ==
  ASSUME LoopInv, LoopInv', OpenInv, Clear', FinishLoad
  PROVE  OpenAccount'
<1>1. UNCHANGED toolVars /\ pc = "finish" /\ pc # "ended" /\ OpenAccount /\ run' = run
  BY SameClear, OpenNow DEF FinishLoad, toolVars
<1>2. \A i \in Slots : ~Busy(i)
  BY <1>1, NobodyBusy DEF InTools
<1>3. NothingOpen
  BY <1>1, NothingOpenAt DEF InRequest
<1>4. CASE GotoLoop("cancel")
  BY <1>1, <1>2, <1>3, <1>4, CancelAccount
<1>5. CASE run.status \in TerminalStatus
  BY <1>1, <1>5 DEF OpenAccount, RunOpen, Activity, TerminalStatus
<1>6. CASE GotoLoop("close")
  <2>1. pc' = "close" /\ UNCHANGED <<answer, next, goal, error, caught, compacted>>
    BY <1>6 DEF GotoLoop, Stay
  <2>2. StepsInOrder' /\ RunOpen' /\ Unblocked' /\ RequestsKnown' /\ DeclaredInOrder'
        /\ GatesKnown' /\ Turn' /\ Decided' /\ Crew'
    BY <1>1, <1>2, <2>1, EndsStep DEF Ends
  <2>3. NothingElseOpen'
    BY <1>1, <1>3 DEF NothingElseOpen, NothingOpen
  <2>4. ErrorsKnown'
    BY <1>1, <2>1 DEF OpenAccount, ErrorsKnown, toolVars
  <2>5. Closing'
    BY <1>1, <2>1 DEF OpenAccount, Closing
  <2>6. LeftOpen'
    BY <2>1 DEF LeftOpen
  <2> QED BY <2>2, <2>3, <2>4, <2>5, <2>6 DEF OpenAccount
<1> QED BY <1>4, <1>5, <1>6 DEF FinishLoad

LEMMA TooledAccount ==
  ASSUME LoopInv, LoopInv', OpenInv, Clear', Tooled
  PROVE  OpenAccount'
<1>1. UNCHANGED toolVars /\ pc = "tooled" /\ pc # "ended" /\ OpenAccount
  BY SameClear, OpenNow DEF Tooled
<1>2. \A i \in Slots : ~Busy(i)
  BY <1>1, NobodyBusy DEF InTools
<1>3. NothingOpen /\ ~caught /\ run' = run
  BY <1>1, NothingOpenAt, NotCaught DEF InRequest, toolVars
<1>4. /\ run.blockedReason \in {NoReason, "cleanup_failed"}
      /\ LastRequest(run, run.activeStep).status = "succeeded" /\ LastRequest(run, run.activeStep).calls = answer.calls
      /\ answer.calls > 0
      /\ \A i \in Slots : /\ i <= answer.calls => run.tools[CallAt(i)].status # "absent"
                          /\ ~IsOpen(run.tools[CallAt(i)])
  BY <1>1 DEF OpenAccount, Unblocked, RequestsKnown, DeclaredInOrder, Declared
<1>5. CASE CloseWith(Failed("cleanup_failed"))
  <2>1. MayClose(Failed("cleanup_failed"))
    BY <1>4, NoOpenCalls, OutcomesAre, ReasonsAssumption DEF MayClose
  <2> QED BY <1>1, <1>2, <1>3, <1>5, <2>1, CloseAccount
<1>6. CASE GotoLoop("cancel")
  BY <1>1, <1>2, <1>3, <1>6, CancelAccount
<1>7. CASE run.blockedReason # "cleanup_failed" /\ GotoLoop("closeStep")
  <2>1. pc' = "closeStep" /\ UNCHANGED <<answer, next, goal, error, caught, compacted>> /\ run.blockedReason = NoReason
    BY <1>4, <1>7 DEF GotoLoop, Stay
  <2>2. NothingElseOpen' /\ Unblocked'
    BY <1>3, <2>1 DEF NothingOpen, NothingElseOpen, Unblocked, InTools, InRequest
  <2>3. RequestsKnown'
    BY <1>3, <1>4, <2>1 DEF RequestsKnown, Compacting
  <2>4. DeclaredInOrder'
    BY <1>3, <1>4, <2>1 DEF DeclaredInOrder, Undeclared, Compacting, InRequest, InTools, CallAt
  <2>5. pc' \in RestingPlaces \ Ends /\ pc' \notin {"top", "openStep"} \cup BetweenSteps
    BY <2>1 DEF RestingPlaces, Ends, InTools, Points, BetweenSteps
  <2>6. UNCHANGED <<run, worker, unresolvable, failure>> /\ (control' = "cancel_requested" => run.cancelRequested)
    BY <1>1 DEF OpenAccount, RunOpen, toolVars
  <2> QED BY <1>1, <1>2, <1>3, <2>1, <2>2, <2>3, <2>4, <2>5, <2>6, MoveAccount
<1> QED BY <1>5, <1>6, <1>7 DEF Tooled

\* The step in progress ends: it is the last one.
LEMMA StepEnded ==
  ASSUME StepsInOrder, run.activeStep \in Steps, run \in RunType, NEW status, status # "absent",
         run.steps[run.activeStep] = "running",
         run'.steps = [run.steps EXCEPT ![run.activeStep] = status], run'.activeStep = 0, run'.requests = run.requests,
         pc' = "ended" \/ (pc # "ended" /\ status = "completed" /\ LastRequest(run, run.activeStep).calls > 0)
  PROVE  StepsInOrder'
<1> DEFINE k == run.activeStep
<1>1. k \in Steps /\ run'.steps[k] = status /\ \A j \in Steps : j # k => run'.steps[j] = run.steps[j]
  BY DEF RunType
<1>2. OpenSteps' = OpenSteps
  BY <1>1 DEF OpenSteps
<1>3. NextStep' = NextStep
  BY <1>2 DEF NextStep
<1>4. \A j \in Steps : LastRequest(run', j) = LastRequest(run, j)
  BY DEF LastRequest, LastAttempt
<1>5. ASSUME pc' # "ended", NEW j \in Steps, run'.steps[j] # "absent"
      PROVE  run'.steps[j] = "completed" /\ LastRequest(run', j).calls > 0
  <2>1. CASE j = k
    BY <1>1, <1>4, <1>5, <2>1
  <2>2. CASE j # k
    BY <1>1, <1>4, <1>5, <2>2 DEF StepsInOrder
  <2> QED BY <2>1, <2>2
<1> QED BY <1>2, <1>3, <1>5 DEF StepsInOrder

LEMMA CloseStepAccount ==
  ASSUME LoopInv, LoopInv', OpenInv, Clear', CloseStep
  PROVE  OpenAccount'
<1> DEFINE k == run.activeStep
<1>1. /\ UNCHANGED <<control, stopping, due, unresolvable, effects, worker, failure>>
      /\ pc = "closeStep" /\ pc # "ended" /\ (\A i \in Slots : ~Busy(i)) /\ RunInv(run) /\ RunKept
      /\ run.activeStep # 0
  BY NobodyBusy DEF CloseStep, InTools, LoopInv, RunKept, Placed, InStep
<1>2. k \in Steps /\ \A i \in Slots : CallAt(i) = <<k, i>>
  BY <1>1, OpenStepIs DEF CallAt
<1>3. run'.activeTools = run.activeTools
  BY <1>1, <1>2, StepEvents DEF CloseStep
<1>4. OpenAccount /\ Clear
  BY <1>1, <1>3, OpenBefore
<1>5. NothingOpen /\ ~caught
  BY <1>1, <1>4, NothingOpenAt, NotCaught DEF InRequest
<1>6. /\ run.blockedReason = NoReason /\ run.userMessage
      /\ LastRequest(run, k).status = "succeeded" /\ LastRequest(run, k).calls = answer.calls
      /\ answer.calls > 0
      /\ \A i \in Slots : /\ i <= answer.calls => run.tools[CallAt(i)].status # "absent"
                          /\ ~IsOpen(run.tools[CallAt(i)])
      /\ control' = "cancel_requested" => run.cancelRequested
  BY <1>1, <1>4 DEF OpenAccount, Unblocked, RequestsKnown, DeclaredInOrder, Declared, RunOpen
<1>7. run.steps[k] = "running"
  BY <1>1, <1>2 DEF RunInv, ActiveSetsAgree
<1>8. CASE ~CanFinishStep(run, k, Completed)
  <2>1. UNCHANGED toolVars /\ Throw("unsettled-step")
    BY <1>1, <1>8 DEF CloseStep, toolVars
  <2>2. run.activeTools = {} /\ ~PendingApproval(run)
    BY <1>1, <1>4, NobodyActive, NothingPending
  <2>3. TerminalSemantics(run, Completed)
    BY OutcomesAre DEF TerminalSemantics
  <2>4. AllDeclaredCreated(run, k)
    BY <1>2, <1>6 DEF AllDeclaredCreated
  <2>5. run.cancelRequested
    BY <1>2, <1>5, <1>6, <1>7, <1>8, <2>2, <2>3, <2>4, OutcomesAre DEF CanFinishStep, NothingOpen
  <2> QED BY <1>1, <1>4, <1>5, <2>1, <2>5, ThrowAccount DEF Known
<1>9. CASE CanFinishStep(run, k, Completed)
  <2>1. run' = FinishStep(run, k, Completed) /\ pc' = "stepClosed" /\ UNCHANGED <<answer, compacted, next, goal, error, caught>>
    BY <1>9 DEF CloseStep, GotoLoop, Stay
  <2>2. IsOutcome(Completed, TerminalStatus)
    BY OutcomesAre DEF IsOutcome, TerminalStatus, Reasons
  <2>3. Quietly(run, run') /\ run'.blockedReason = run.blockedReason /\ run'.steps = [run.steps EXCEPT ![k] = "completed"]
    BY <1>1, <1>2, <2>1, <2>2, StepFinishedQuietly, OutcomesAre
  <2>4. /\ run'.activeStep = 0 /\ run'.tools = run.tools
        /\ run'.approvals = run.approvals /\ run'.cancelRequested = run.cancelRequested
    BY <1>1, <1>2, <2>1, StepEvents
  <2>5. StepsInOrder'
    BY <1>1, <1>2, <1>4, <1>6, <1>7, <2>3, <2>4, StepEnded DEF OpenAccount, Quietly, RunInv
  <2>6. RunOpen'
    BY <1>6, <2>1, <2>3, <2>4 DEF RunOpen, Quietly
  <2>7. NothingElseOpen' /\ Unblocked'
    BY <1>5, <1>6, <2>1, <2>3 DEF NothingOpen, NothingElseOpen, Unblocked, InTools, InRequest, Quietly
  <2>8. RequestsKnown' /\ DeclaredInOrder'
    BY <2>1 DEF RequestsKnown, DeclaredInOrder, Declared, Undeclared, Compacting, InRequest, InTools
  <2>9. GatesKnown' /\ Turn' /\ Decided' /\ Crew'
    <3>1. pc' \in RestingPlaces /\ pc' \notin BetweenSteps
      BY <2>1 DEF RestingPlaces, InTools, Points, BetweenSteps
    <3> QED BY <1>1, <1>4, <2>4, <3>1, RestAccount
  <2>10. ErrorsKnown'
    BY <1>1, <1>4, <1>5, <2>1, <2>4 DEF OpenAccount, ErrorsKnown
  <2>11. Closing' /\ LeftOpen'
    BY <2>1 DEF Closing, LeftOpen
  <2> QED BY <2>5, <2>6, <2>7, <2>8, <2>9, <2>10, <2>11 DEF OpenAccount
<1> QED BY <1>8, <1>9

LEMMA StepClosedAccount ==
  ASSUME LoopInv, LoopInv', OpenInv, Clear', StepClosed
  PROVE  OpenAccount'
<1>1. /\ UNCHANGED <<run, control, stopping, effects, failure>> /\ pc = "stepClosed" /\ pc # "ended" /\ RunInv(run)
      /\ unresolvable' = {} /\ worker' = [i \in Slots |-> Idle]
      /\ run.activeStep = 0 /\ \A i \in Slots : ~Busy(i)
  BY NobodyBusy DEF StepClosed, InTools, LoopInv, RunKept, Placed
<1>2. run.activeTools = {}
  <2>1. ASSUME NEW t \in run.activeTools PROVE FALSE
    <3>1. run.activeStep \in Steps
      BY <2>1, ActiveCall DEF LoopInv
    <3> QED BY <1>1, <3>1, BoundsAssumption DEF Steps
  <2> QED BY <2>1
<1>3. OpenAccount
  <2>1. Clear
    BY <1>1, <1>2 DEF Clear, Unsaved, Stopped
  <2> QED BY <2>1, OpenNow
<1>4. NothingOpen /\ ~caught
  BY <1>1, <1>3, NothingOpenAt, NotCaught DEF InRequest
<1>5. \/ pc' = "finish" /\ goal' = Failed("limit_exceeded") /\ UNCHANGED <<answer, compacted, next, error, caught>>
      \/ pc' = "top" /\ UNCHANGED <<answer, compacted, next, goal, error, caught>>
  BY DEF StepClosed, CloseWith, GotoLoop, Stay
<1>6. NextStep' = NextStep /\ OpenSteps' = OpenSteps /\ run' = run
  BY <1>1, SameSteps DEF OpenSteps
<1>7. StepsInOrder'
  BY <1>1, <1>3, <1>6 DEF OpenAccount, StepsInOrder
<1>8. RunOpen' /\ run.blockedReason = NoReason
  BY <1>1, <1>3 DEF OpenAccount, RunOpen, Unblocked
<1>9. NothingElseOpen' /\ Unblocked'
  BY <1>1, <1>4, <1>5, <1>8 DEF NothingOpen, NothingElseOpen, Unblocked, InTools, InRequest
<1>10. RequestsKnown' /\ DeclaredInOrder'
  BY <1>1, <1>5 DEF RequestsKnown, DeclaredInOrder, Declared, Undeclared, Compacting, InRequest, InTools
<1>11. GatesKnown'
  BY <1>1, <1>3 DEF OpenAccount, GatesKnown
<1>12. Turn' /\ Decided' /\ Crew'
  <2>1. \A i \in Slots : worker'[i].at = "idle"
    BY <1>1 DEF Idle
  <2>2. \A t \in Calls : run'.approvals[t] # "pending"
    BY <1>1, <1>3, NothingPending DEF PendingApproval
  <2> QED BY <1>5, <2>1, <2>2, IdleAccount
<1>13. ErrorsKnown'
  BY <1>1, <1>3, <1>4, <1>5 DEF OpenAccount, ErrorsKnown
<1>14. Closing' /\ LeftOpen'
  BY <1>5 DEF Closing, LeftOpen
<1> QED BY <1>7, <1>8, <1>9, <1>10, <1>11, <1>12, <1>13, <1>14 DEF OpenAccount

LEMMA StarveAccount ==
  ASSUME LoopInv, LoopInv', OpenInv, Clear', Starve
  PROVE  OpenAccount'
<1> DEFINE out == Outcome("failed", "limit_exceeded", "system")
<1>1. /\ \A i \in Slots : ~Busy(i)
      /\ pc = "starve" /\ pc # "ended" /\ RunKept /\ RunInv(run) /\ run.activeStep # 0
      /\ UNCHANGED <<control, stopping, due, unresolvable, effects, worker, failure>>
  BY NobodyBusy DEF Starve, InTools, LoopInv, RunKept, Placed, InStep
<1>2. Stopped' = Stopped /\ run.activeStep \in Steps
  BY <1>1, OpenStepIs DEF Stopped
<1>3. ASSUME UNCHANGED run, CloseWith(Failed("limit_exceeded"))
      PROVE  OpenAccount'
  <2>1. UNCHANGED toolVars
    BY <1>1, <1>3 DEF toolVars
  <2>2. OpenAccount
    BY <2>1, SameClear, OpenNow
  <2>3. NothingOpen /\ ~caught
    BY <1>1, <2>2, NothingOpenAt, NotCaught DEF InRequest
  <2> QED BY <1>1, <1>3, <2>1, <2>2, <2>3, CloseAccount DEF MayClose
<1>4. ASSUME NEW i \in Slots, FirstUndispatched(i),
             IF CanFinishTool(run, CallAt(i), out)
             THEN run' = FinishTool(run, CallAt(i), out) /\ CloseWith(Failed("limit_exceeded"))
             ELSE Throw("tool-order") /\ UNCHANGED run
      PROVE  OpenAccount'
  <2> DEFINE t == CallAt(i)
  <2>1. t \in Calls /\ t[1] = run.activeStep /\ t[2] = i
    BY <1>1, OpenStepIs
  <2>2. out.status = "failed" /\ out.reason = "limit_exceeded" /\ out.origin = "system"
    BY DEF Outcome
  <2>3. IsOpen(run.tools[t]) /\ run.tools[t].status \in {"created", "waiting_for_approval"}
    BY <1>4 DEF FirstUndispatched, IsOpen, OpenCall
  <2>4. CallSettled(run, FinishTool(run, t, out), t, "failed")
    <3> HIDE DEF t, out
    <3>1. CallSettled(run, FinishTool(run, t, out), t, out.status)
      BY <1>1, <2>1, SettledEvent
    <3> QED BY <2>2, <3>1
  <2>5. t \notin run.activeTools
    BY <1>1, <2>1, <2>3 DEF RunInv, ActiveSetsAgree
  <2>6. run'.activeTools = run.activeTools
    BY <1>4, <2>4, <2>5 DEF CallSettled
  <2>7. OpenAccount /\ Clear
    BY <1>1, <2>6, OpenBefore
  <2>8. NothingOpen /\ ~caught
    BY <1>1, <2>7, NothingOpenAt, NotCaught DEF InRequest
  <2>9. run.activeTools = {} /\ \A u \in Calls : run.approvals[u] # "pending"
    BY <1>1, <2>7, NobodyActive, NothingPending DEF PendingApproval
  <2>10. EarlierOpen(run, t) = {}
    <3>1. ASSUME NEW u \in EarlierOpen(run, t) PROVE FALSE
      <4>1. PICK j \in 1..(i - 1) : u = <<run.activeStep, j>>
        BY <2>1 DEF EarlierOpen, EarlierSlots
      <4>2. u = CallAt(j) /\ IsOpen(run.tools[u])
        BY <4>1 DEF CallAt, EarlierOpen
      <4>3. run.tools[u].status = "running"
        BY <1>4, <4>1, <4>2 DEF FirstUndispatched, IsOpen, OpenCall
      <4>4. u \in Calls
        BY <1>2, <4>1, BoundsAssumption DEF Calls, Slots
      <4> QED BY <1>1, <2>9, <4>3, <4>4 DEF RunInv, ActiveSetsAgree
    <3> QED BY <3>1
  <2>11. CanFinishTool(run, t, out)
    <3>1. run.steps[t[1]] = "running"
      BY <1>1, <1>2, <2>1 DEF RunInv, ActiveSetsAgree
    <3>2. NextTool(run, t)
      BY <2>1, <2>3, <2>10, <3>1 DEF NextTool
    <3>3. TerminalSemantics(run, out)
      BY <2>2, ReasonsAssumption DEF TerminalSemantics
    <3>4. run.approvals[t] # "pending" /\ run.tools[t].status # "running"
      BY <2>1, <2>3, <2>9
    <3> HIDE DEF t, out
    <3> QED BY <2>2, <3>2, <3>3, <3>4 DEF CanFinishTool
  <2>12. run' = FinishTool(run, t, out) /\ pc' = "finish" /\ goal' = Failed("limit_exceeded")
         /\ UNCHANGED <<answer, compacted, next, error, caught>>
    BY <1>4, <2>11 DEF CloseWith
  <2>13. CallSettled(run, run', t, "failed") /\ Quietly(run, run')
    <3>1. IsOutcome(out, TerminalCall)
      BY <2>2, ReasonsAssumption DEF IsOutcome, TerminalCall, Reasons
    <3> HIDE DEF t, out
    <3> QED BY <1>1, <2>1, <2>4, <2>12, <3>1, SettledQuietly
  <2> HIDE DEF t, out
  <2>14. /\ run'.activeStep = run.activeStep /\ run'.steps = run.steps /\ run'.cancelRequested = run.cancelRequested
         /\ \A u \in Calls : u # t => run'.tools[u] = run.tools[u] /\ run'.approvals[u] = run.approvals[u]
         /\ run'.tools[t].gated = run.tools[t].gated /\ run'.tools[t].mode = run.tools[t].mode
         /\ run'.tools[t].status = "failed" /\ run'.approvals[t] = run.approvals[t]
    BY <2>1, <2>9, <2>13 DEF CallSettled, OtherCalls
  <2>15. StepsInOrder'
    <3>1. NextStep' = NextStep /\ OpenSteps' = OpenSteps
      BY <2>14, SameSteps DEF OpenSteps
    <3>2. \A j \in Steps : LastRequest(run', j) = LastRequest(run, j)
      BY <2>13 DEF Quietly, LastRequest, LastAttempt
    <3> QED BY <1>1, <2>7, <2>14, <3>1, <3>2 DEF OpenAccount, StepsInOrder
  <2>16. RunOpen'
    BY <1>1, <2>7, <2>12, <2>13, <2>14 DEF OpenAccount, RunOpen, Quietly
  <2>17. NothingElseOpen'
    BY <2>8, <2>13 DEF NothingOpen, NothingElseOpen, Quietly
  <2>18. Unblocked' /\ RequestsKnown' /\ DeclaredInOrder'
    BY <2>12 DEF Unblocked, RequestsKnown, DeclaredInOrder, Declared, Undeclared, Compacting, InRequest, InTools
  <2>19. GatesKnown'
    <3>1. \A u \in Calls : /\ run'.tools[u].gated => run'.tools[u].mode = "exclusive"
                           /\ run'.approvals[u] # "absent" => run'.tools[u].gated
                           /\ run'.tools[u].status = "waiting_for_approval" =>
                                run'.approvals[u] \in {"pending", "denied", "expired"}
                           /\ IsOpen(run'.tools[u]) => run'.approvals[u] # "cancelled"
      BY <2>7, <2>14 DEF OpenAccount, GatesKnown, IsOpen, OpenCall
    <3>2. ASSUME NEW j \in Slots, j \in unresolvable'
          PROVE  /\ run'.tools[CallAt(j)'].status # "absent" /\ run'.tools[CallAt(j)'].mode = "exclusive"
                 /\ run'.approvals[CallAt(j)'] = "absent"
      <4>1. j \in Slots /\ CallAt(j)' = CallAt(j) /\ CallAt(j) \in Calls
        BY <1>1, <2>14, OpenStepIs DEF CallAt
      <4>2. /\ run.tools[CallAt(j)].status # "absent" /\ run.tools[CallAt(j)].mode = "exclusive"
            /\ run.approvals[CallAt(j)] = "absent"
        BY <1>1, <2>7, <3>2 DEF OpenAccount, GatesKnown
      <4> QED BY <2>14, <4>1, <4>2
    <3> QED BY <2>12, <3>1, <3>2 DEF GatesKnown, BetweenSteps
  <2>20. Turn' /\ Decided'
    <3>1. \A j \in Slots : worker'[j].at \in {"idle", "done", "failed"}
      BY <1>1 DEF Busy
    <3>2. \A u \in Calls : run'.approvals[u] # "pending"
      BY <2>1, <2>9, <2>14
    <3> QED BY <3>1, <3>2 DEF Turn, Undispatched, Decided
  <2>21. Crew'
    <3>1. ASSUME NEW j \in Slots, worker'[j].at = "done" PROVE run'.tools[CallAt(j)'].status \in TerminalCall
      <4>1. CallAt(j)' = CallAt(j) /\ CallAt(j) \in Calls
        BY <1>1, <2>14, OpenStepIs DEF CallAt
      <4>2. run.tools[CallAt(j)].status \in TerminalCall
        BY <1>1, <2>7, <3>1 DEF OpenAccount, Crew
      <4> QED BY <2>14, <4>1, <4>2 DEF TerminalCall
    <3> QED BY <2>12, <3>1 DEF Crew, InTools
  <2>22. ErrorsKnown'
    BY <1>1, <2>7, <2>8, <2>12, <2>14 DEF OpenAccount, ErrorsKnown
  <2>23. Closing' /\ LeftOpen'
    BY <2>12 DEF Closing, LeftOpen
  <2> QED BY <2>15, <2>16, <2>17, <2>18, <2>19, <2>20, <2>21, <2>22, <2>23 DEF OpenAccount
<1> QED BY <1>1, <1>3, <1>4 DEF Starve

\* An outcome of the loop's own but limit_exceeded.
LEMMA GoalIs ==
  ASSUME LoopInv, OpenAccount, pc = "close", goal # Failed("limit_exceeded")
  PROVE  /\ goal \in {Completed, Cancelled} \/ (goal.status = "failed" /\ goal.origin = "runner" /\ goal.reason \in FailureReasons)
         /\ IsOutcome(goal, TerminalStatus) /\ TerminalSemantics(run, goal)
         /\ \A t \in Calls : ~IsOpen(run.tools[t])
<1>1. /\ goal.status \in TerminalStatus \ {"interrupted"} /\ (\A t \in Calls : ~IsOpen(run.tools[t]))
      /\ goal.status = "completed" => goal = Completed
      /\ goal.status = "cancelled" => goal = Cancelled /\ run.cancelRequested
      /\ goal.status = "failed" => goal.origin = "runner" /\ goal.reason \in FailureReasons
  BY DEF OpenAccount, Closing, LoopInv, LoopType
<1>2. CASE goal.status = "completed"
  BY <1>1, <1>2, OutcomesAre DEF IsOutcome, TerminalSemantics, Reasons
<1>3. CASE goal.status = "cancelled"
  BY <1>1, <1>3, OutcomesAre DEF IsOutcome, TerminalSemantics, Reasons
<1>4. CASE goal.status = "failed"
  BY <1>1, <1>4 DEF IsOutcome, TerminalSemantics, Reasons, TerminalStatus
<1> QED BY <1>1, <1>2, <1>3, <1>4 DEF TerminalStatus

\* Nothing is open in the run the loop is about to close.
LEMMA ReadyToClose ==
  ASSUME LoopInv, OpenAccount, Clear, pc = "close", goal # Failed("limit_exceeded"),
         goal.status = "completed" => ~run.cancelRequested
  PROVE  /\ run.activeTools = {} /\ ~PendingApproval(run) /\ NothingOpen
         /\ run.activeStep # 0 => CanFinishStep(run, run.activeStep, goal)
<1> DEFINE k == run.activeStep
<1>1. (\A i \in Slots : ~Busy(i)) /\ RunKept /\ RunInv(run)
  BY NobodyBusy DEF InTools, LoopInv, RunKept
<1>2. run.activeTools = {} /\ ~PendingApproval(run) /\ NothingOpen
  BY <1>1, NobodyActive, NothingPending, NothingOpenAt DEF InRequest
<1>3. ASSUME k # 0 PROVE CanFinishStep(run, k, goal)
  <2>1. k \in Steps /\ run.steps[k] = "running"
    BY <1>1, <1>3, OpenStepIs DEF RunInv, ActiveSetsAgree
  <2>2. \A i \in Slots : <<k, i>> \in Calls
    BY <2>1 DEF Calls
  <2>3. goal.status = "cancelled" => run.blockedReason # "cleanup_failed"
    BY DEF OpenAccount, Closing
  <2>4. ASSUME goal.status = "completed"
        PROVE  /\ ~run.cancelRequested /\ run.blockedReason = NoReason
               /\ LastRequest(run, k).status = "succeeded" /\ AllDeclaredCreated(run, k)
    <3>1. /\ run.blockedReason = NoReason
          /\ LastRequest(run, k).status = "succeeded" /\ LastRequest(run, k).calls = 0
      BY <2>4 DEF OpenAccount, Closing
    <3>2. \A i \in Slots : ~(i <= 0)
      BY DEF Slots
    <3> QED BY <2>4, <3>1, <3>2 DEF AllDeclaredCreated
  <2> QED BY <1>2, <2>1, <2>2, <2>3, <2>4, GoalIs DEF CanFinishStep, NothingOpen
<1> QED BY <1>2, <1>3

LEMMA ClosedRunSettled ==
  ASSUME NEW r, RunInv(r), NEW n, n.activeStep = 0, n.activeRequest = NoRequest, n.activeTools = {}, ~n.activeCompaction,
         r.activeRequest = NoRequest, n.requests = r.requests, n.tools = r.tools, n.approvals = r.approvals,
         \A t \in Calls : ~IsOpen(r.tools[t]), ~PendingApproval(r),
         NEW status \in TerminalStatus,
         \/ r.activeStep = 0 /\ n.steps = r.steps
         \/ r.activeStep \in Steps /\ n.steps = [r.steps EXCEPT ![r.activeStep] = status]
  PROVE  Settled(n)
<1>1. \A k \in Steps : n.steps[k] # "running"
  <2>1. \A k \in Steps : r.steps[k] = "running" <=> r.activeStep = k
    BY DEF RunInv, ActiveSetsAgree
  <2>2. 0 \notin Steps
    BY DEF Steps
  <2>3. r \in RunType
    BY DEF RunInv
  <2> QED BY <2>1, <2>2, <2>3 DEF TerminalStatus, RunType
<1>2. \A q \in Requests : r.requests[q].status # "running"
  <2>1. NoRequest \notin Requests
    BY DEF NoRequest, Requests, Attempts
  <2> QED BY <2>1 DEF RunInv, ActiveSetsAgree
<1>3. ~PendingApproval(n)
  BY DEF PendingApproval
<1> QED BY <1>1, <1>2, <1>3 DEF Settled

\* The last step's answer is final.
LEMMA FinalAnswer ==
  ASSUME StepsInOrder, run.activeStep \in Steps, run \in RunType, NEW n,
         n.steps = [run.steps EXCEPT ![run.activeStep] = "completed"], n.requests = run.requests,
         LastRequest(run, run.activeStep).status = "succeeded", LastRequest(run, run.activeStep).calls = 0
  PROVE  HasFinalAnswer(n)
<1> DEFINE k == run.activeStep
<1>1. k \in Nat \ {0} /\ OpenSteps = 1..k
  <2>1. k \in Nat \ {0}
    BY BoundsAssumption DEF Steps
  <2>2. k = NextStep - 1
    BY <2>1 DEF StepsInOrder
  <2> QED BY <2>1, <2>2 DEF StepsInOrder
<1>2. n.steps[k] = "completed"
  BY DEF RunType
<1>3. k < MaxStep => n.steps[k + 1] = "absent"
  <2>1. SUFFICES ASSUME k < MaxStep PROVE n.steps[k + 1] = "absent"
    OBVIOUS
  <2>2. k + 1 \in Steps /\ k + 1 \notin 1..k /\ k + 1 # k
    BY <1>1, <2>1, BoundsAssumption DEF Steps
  <2>3. run.steps[k + 1] = "absent"
    BY <1>1, <2>2 DEF OpenSteps
  <2> QED BY <2>2, <2>3 DEF RunType
<1>4. LastRequest(n, k) = LastRequest(run, k)
  BY DEF LastRequest, LastAttempt
<1> QED BY <1>2, <1>3, <1>4 DEF HasFinalAnswer, IsLastStep

LEMMA MayFinishRun ==
  ASSUME LoopInv, OpenAccount, Clear, pc = "close", goal # Failed("limit_exceeded"),
         goal.status = "completed" => ~run.cancelRequested
  PROVE  CanFinishRun(IF run.activeStep # 0 THEN FinishStep(run, run.activeStep, goal) ELSE run, goal)
<1> DEFINE k == run.activeStep
           n == IF k # 0 THEN FinishStep(run, k, goal) ELSE run
<1>1. /\ RunKept /\ RunInv(run) /\ run.activeTools = {} /\ ~PendingApproval(run) /\ NothingOpen
      /\ run.userMessage
  BY ReadyToClose DEF LoopInv, RunKept, OpenAccount, RunOpen
<1>2. /\ IsOutcome(goal, TerminalStatus) /\ TerminalSemantics(run, goal)
      /\ \A t \in Calls : ~IsOpen(run.tools[t])
  BY GoalIs
<1>3. /\ goal.status = "completed" => /\ run.blockedReason = NoReason /\ k # 0
                                      /\ LastRequest(run, k).status = "succeeded" /\ LastRequest(run, k).calls = 0
      /\ goal.status = "cancelled" => run.blockedReason # "cleanup_failed" /\ goal.reason # "cleanup_failed"
  BY OutcomesAre DEF OpenAccount, Closing
<1>4. CASE k = 0
  <2>1. n = run
    BY <1>4
  <2>2. Settled(run)
    <3>1. goal.status \in TerminalStatus
      BY <1>2 DEF IsOutcome
    <3> QED BY <1>1, <1>2, <1>4, <3>1, ClosedRunSettled DEF NothingOpen
  <2> QED BY <1>2, <1>3, <1>4, <2>1, <2>2 DEF CanFinishRun
<1>5. CASE k # 0
  <2>1. n = FinishStep(run, k, goal) /\ k \in Steps
    BY <1>1, <1>5, OpenStepIs
  <2> HIDE DEF n
  <2>2. /\ n.activeStep = 0 /\ n.activeTools = {} /\ n.tools = run.tools /\ n.approvals = run.approvals
        /\ n.cancelRequested = run.cancelRequested
    BY <1>1, <2>1, StepEvents
  <2>3. /\ Quietly(run, n) /\ (goal.status = "completed" => n.blockedReason = run.blockedReason)
        /\ goal.reason # "cleanup_failed" /\ run.blockedReason # "cleanup_failed" => n.blockedReason # "cleanup_failed"
        /\ n.steps = [run.steps EXCEPT ![k] = goal.status]
    BY <1>1, <1>2, <2>1, StepFinishedQuietly
  <2>4. Settled(n)
    <3>1. goal.status \in TerminalStatus
      BY <1>2 DEF IsOutcome
    <3> QED BY <1>1, <1>2, <2>1, <2>2, <2>3, <3>1, ClosedRunSettled DEF NothingOpen, Quietly
  <2>5. TerminalSemantics(n, goal)
    BY <1>2, <2>2 DEF TerminalSemantics
  <2>6. goal.status = "completed" => HasFinalAnswer(n)
    BY <1>1, <1>3, <2>1, <2>3, FinalAnswer DEF OpenAccount, Quietly, RunInv
  <2> QED BY <1>1, <1>3, <2>2, <2>3, <2>4, <2>5, <2>6 DEF CanFinishRun, Quietly, n
<1> QED BY <1>4, <1>5

LEMMA FinishedRunIs ==
  ASSUME NEW r, RunInv(r), NEW o
  PROVE  LET n == FinishRun(r, o)
         IN /\ n.status = o.status /\ n.steps = r.steps /\ n.activeStep = r.activeStep /\ n.requests = r.requests
            /\ n.tools = r.tools /\ n.approvals = r.approvals /\ n.userMessage = r.userMessage
            /\ n.cancelRequested = r.cancelRequested /\ n.activeRequest = r.activeRequest
            /\ n.activeCompaction = r.activeCompaction
BY DEF FinishRun, RunInv, RunType

LEMMA CloseRunAccount ==
  ASSUME LoopInv, LoopInv', OpenInv, Clear', CloseRun
  PROVE  OpenAccount'
<1> DEFINE k == run.activeStep
           n == IF k # 0 THEN FinishStep(run, k, goal) ELSE run
           may == (k # 0 => CanFinishStep(run, k, goal)) /\ CanFinishRun(n, goal)
<1>1. /\ UNCHANGED <<control, stopping, due, unresolvable, effects, worker, failure>>
      /\ pc = "close" /\ pc # "ended" /\ (\A i \in Slots : ~Busy(i)) /\ RunInv(run) /\ RunKept
  BY NobodyBusy DEF CloseRun, InTools, LoopInv, RunKept
<1>2. Stopped' = Stopped /\ goal.status \in TerminalStatus
  BY <1>1 DEF Stopped, LoopInv, LoopType
<1>3. CASE ~may
  <2>1. UNCHANGED toolVars /\ Throw("unsettled-step")
    BY <1>1, <1>3 DEF CloseRun, toolVars
  <2>2. OpenAccount /\ Clear
    BY <2>1, SameClear, OpenNow
  <2>3. goal # Failed("limit_exceeded") => goal.status = "completed" /\ run.cancelRequested
    BY <1>1, <1>3, <2>2, ReadyToClose, MayFinishRun
  <2>4. ~caught
    BY <1>1, <2>2, <2>3, OutcomesAre DEF OpenAccount, ErrorsKnown, Closing
  <2>5. NothingOpen
    BY <1>1, <2>2, NothingOpenAt DEF InRequest
  <2> QED BY <1>1, <2>1, <2>2, <2>3, <2>4, <2>5, ThrowAccount DEF Known
<1>4. CASE may
  <2>1. run' = FinishRun(n, goal) /\ pc' = "ended" /\ UNCHANGED <<answer, compacted, next, goal, error, caught>>
    BY <1>4 DEF CloseRun, GotoLoop, Stay
  <2>2. Settled(n) /\ TerminalSemantics(n, goal)
    BY <1>4 DEF CanFinishRun
  <2>3. IsOutcome(goal, TerminalStatus)
    BY <1>2, <2>2, AcceptedOutcome DEF IsOutcome, TerminalStatus
  <2>4. /\ RunInv(n) /\ n.activeStep = 0 /\ n.activeTools = run.activeTools /\ n.tools = run.tools /\ n.approvals = run.approvals
        /\ n.cancelRequested = run.cancelRequested /\ n.requests = run.requests /\ n.userMessage = run.userMessage
        /\ n.activeRequest = NoRequest /\ ~n.activeCompaction
        /\ k # 0 => k \in Steps /\ n.steps = [run.steps EXCEPT ![k] = goal.status]
        /\ k = 0 => n.steps = run.steps
    <3>1. CASE k = 0
      BY <1>1, <2>2, <3>1 DEF Settled
    <3>2. CASE k # 0
      <4>1. k \in Steps
        BY <1>1, <3>2, OpenStepIs
      <4>2. n = FinishStep(run, k, goal) /\ CanFinishStep(run, k, goal)
        BY <1>4, <3>2
      <4> HIDE DEF k, n
      <4>3. RunInv(n)
        BY <1>1, <2>3, <4>1, <4>2, FinishStepInv
      <4>4. Quietly(run, n) /\ n.steps = [run.steps EXCEPT ![k] = goal.status]
        BY <1>1, <2>3, <4>1, <4>2, StepFinishedQuietly
      <4> QED BY <1>1, <2>2, <3>2, <4>1, <4>2, <4>3, <4>4, StepEvents DEF Quietly, Settled
    <3> QED BY <3>1, <3>2
  <2>5. run.activeTools = {}
    BY <2>2, <2>4 DEF Settled
  <2>6. OpenAccount
    BY <1>2, <2>5, OpenNow DEF Clear, Unsaved
  <2> HIDE DEF n
  <2>7. /\ run'.status = goal.status /\ run'.steps = n.steps /\ run'.activeStep = 0 /\ run'.requests = run.requests
        /\ run'.tools = run.tools /\ run'.approvals = run.approvals /\ run'.userMessage = run.userMessage
        /\ run'.cancelRequested = run.cancelRequested /\ run'.activeRequest = NoRequest /\ ~run'.activeCompaction
    BY <2>1, <2>4, FinishedRunIs
  <2>8. StepsInOrder'
    <3>1. CASE k = 0
      <4>1. NextStep' = NextStep /\ OpenSteps' = OpenSteps
        BY <2>4, <2>7, <3>1, SameSteps DEF OpenSteps
      <4> QED BY <2>1, <2>6, <2>7, <4>1 DEF OpenAccount, StepsInOrder
    <3>2. CASE k # 0
      <4>1. run.steps[k] = "running" /\ goal.status # "absent" /\ run \in RunType
        BY <1>1, <1>2, <2>4, <3>2 DEF RunInv, ActiveSetsAgree, TerminalStatus
      <4> QED BY <2>1, <2>4, <2>6, <2>7, <3>2, <4>1, StepEnded DEF OpenAccount
    <3> QED BY <3>1, <3>2
  <2>9. RunOpen' /\ NothingElseOpen' /\ Closing' /\ LeftOpen'
    BY <1>1, <1>2, <2>1, <2>6, <2>7 DEF OpenAccount, RunOpen, NothingElseOpen, Closing, LeftOpen
  <2>10. Unblocked' /\ RequestsKnown' /\ DeclaredInOrder'
    BY <2>1 DEF Unblocked, RequestsKnown, DeclaredInOrder, Declared, Undeclared, Compacting, InRequest, InTools
  <2>11. GatesKnown' /\ Turn' /\ Decided' /\ Crew'
    <3>1. pc' \in RestingPlaces /\ pc' \notin BetweenSteps
      BY <2>1 DEF RestingPlaces, InTools, Points, BetweenSteps
    <3> QED BY <1>1, <2>6, <2>7, <3>1, RestAccount
  <2>12. ErrorsKnown'
    BY <1>1, <2>1, <2>6, <2>7 DEF OpenAccount, ErrorsKnown
  <2> QED BY <2>8, <2>9, <2>10, <2>11, <2>12 DEF OpenAccount
<1> QED BY <1>3, <1>4

LEMMA HaltAccount ==
  ASSUME Clear', Halt
  PROVE  FALSE
BY DEF Halt, toolVars, LoopStopped, Clear, Stopped

-----------------------------------------------------------------------------
\* Of a worker: it rests, has its call still to dispatch, or has dispatched it.
LEMMA WhereWorkersAre ==
  ASSUME LoopInv, NEW i \in Slots
  PROVE  \/ worker[i].at \in {"idle", "done", "failed"} /\ ~Busy(i)
         \/ worker[i].at \in Undispatched /\ Busy(i)
         \/ worker[i].at \in Driven /\ Busy(i)
<1>1. worker[i].at \in WorkerPoints
  BY DEF LoopInv, LoopType
<1> QED BY <1>1 DEF WorkerPoints, Undispatched, Driven, Busy

\* The pool: every call before the next one is settled, or runs in parallel.
LEMMA LaunchedCalls ==
  ASSUME LoopInv, OpenAccount, pc = "pool", failure = "none", NEW i \in Slots, i < next
  PROVE  \/ run.tools[CallAt(i)].status \in TerminalCall /\ ~Busy(i)
         \/ run.tools[CallAt(i)].status = "running" /\ Mode(i) = "parallel" /\ Busy(i)
<1>1. RunKept /\ RunInv(run) /\ run.activeStep # 0
  BY DEF LoopInv, RunKept, Placed, InStep, InTools
<1>2. worker[i].at \notin Undispatched \cup {"idle", "failed"}
  BY DEF OpenAccount, Crew, InTools
<1>3. CASE worker[i].at = "done"
  BY <1>1, <1>3 DEF OpenAccount, Crew, Busy
<1>4. CASE worker[i].at \in Driven
  <2>1. CallAt(i) \in run.activeTools
    BY <1>4 DEF LoopInv, Owned
  <2>2. run.tools[CallAt(i)].status = "running"
    BY <1>1, <2>1, ActiveCall
  <2>3. Busy(i)
    BY <1>4 DEF Busy, Driven
  <2> QED BY <2>2, <2>3 DEF OpenAccount, Crew
<1> QED BY <1>2, <1>3, <1>4, WhereWorkersAre

LEMMA MayLaunch ==
  ASSUME LoopInv, OpenAccount, Clear, pc = "pool", failure = "none", next \in Slots,
         Mode(next) # "parallel" => BusySlots = {}
  PROVE  MayStartTool(run, CallAt(next))
<1> DEFINE t == CallAt(next)
<1>1. RunKept /\ RunInv(run) /\ run.activeStep \in Steps /\ t \in Calls /\ t[1] = run.activeStep /\ t[2] = next
  BY OpenStepIs DEF LoopInv, RunKept, Placed, InStep, InTools
<1>2. ASSUME NEW u \in EarlierOpen(run, t)
      PROVE  u \in Calls /\ run.tools[u].status = "running" /\ run.tools[u].mode = "parallel" /\ BusySlots # {}
  <2>1. PICK j \in 1..(next - 1) : u = CallAt(j)
    BY <1>1, <1>2 DEF EarlierOpen, EarlierSlots, CallAt
  <2>2. j \in Slots /\ j < next
    BY <2>1, BoundsAssumption DEF Slots
  <2>3. IsOpen(run.tools[u])
    BY <1>2 DEF EarlierOpen
  <2>4. run.tools[u].status = "running" /\ Mode(j) = "parallel" /\ Busy(j)
    BY <2>1, <2>2, <2>3, LaunchedCalls DEF IsOpen, OpenCall, TerminalCall
  <2> QED BY <1>1, <2>1, <2>2, <2>4, OpenStepIs, BoundsAssumption DEF Mode, BusySlots, Steps
<1>3. ASSUME NEW u \in run.activeTools
      PROVE  run.tools[u].mode = "parallel" /\ BusySlots # {}
  <2>1. u[2] \in Slots /\ u = CallAt(u[2])
    BY <1>1, ActiveCall
  <2>2. worker[u[2]].at \in Driven
    BY DEF LoopInv, Owned
  <2>3. Busy(u[2])
    BY <2>2 DEF Busy, Driven
  <2> QED BY <2>1, <2>3 DEF OpenAccount, Crew, Mode, BusySlots
<1>4. CASE run.tools[t].mode = "exclusive"
  BY <1>2, <1>3, <1>4 DEF MayStartTool, Mode
<1>5. CASE run.tools[t].mode # "exclusive"
  BY <1>2, <1>3, <1>5 DEF MayStartTool
<1> QED BY <1>4, <1>5

LEMMA PoolAccount ==
  ASSUME LoopInv, LoopInv', OpenInv, Clear', Pool
  PROVE  OpenAccount'
<1>1. pc = "pool" /\ pc # "ended" /\ RunKept /\ RunInv(run) /\ run.activeStep # 0
  BY DEF Pool, LoopInv, RunKept, Placed, InStep, InTools
<1>2. /\ answer.calls \in Nat /\ answer.calls <= MaxCall /\ next \in Nat \ {0} /\ MaxCall \in Nat
      /\ \A i \in Slots : i \in Nat
  BY BoundsAssumption DEF LoopInv, LoopType, Slots
<1>3. CASE next <= answer.calls /\ failure = "none"
  <2>1. PICK p \in {"waitStart", "await"} :
          LaunchWorker(next, p) /\ (IF Mode(next) = "parallel" THEN p = "waitStart" ELSE BusySlots = {} /\ p = "await")
    BY <1>3 DEF Pool
  <2>2. /\ Goto(next, "advance") /\ pc' = p /\ next' = next + 1 /\ UNCHANGED <<answer, compacted, goal, error, caught>>
        /\ UNCHANGED <<run, control, stopping, due, unresolvable, effects, failure>>
    BY <2>1 DEF LaunchWorker
  <2>3. next \in Slots
    BY <1>2, <1>3 DEF Slots
  <2>4. /\ worker'[next].at = "advance" /\ \A j \in Slots : j # next => worker'[j] = worker[j]
    BY <2>2, <2>3, GotoMoves DEF LoopInv, Moves, WorkerPoints
  <2>5. OpenAccount /\ Clear
    <3>1. worker[next].at = "idle"
      BY <1>1, <1>2, <2>3 DEF LoopInv, Launched, InTools
    <3>2. ASSUME NEW t \in run.activeTools, worker[t[2]].at = "failed" PROVE worker'[t[2]].at = "failed"
      <4>1. t[2] \in Slots /\ t[2] # next
        BY <1>1, <3>1, <3>2, ActiveCall
      <4> QED BY <2>4, <3>2, <4>1
    <3>3. Clear
      BY <2>2, <3>2 DEF Clear, Unsaved, Stopped
    <3> QED BY <3>3, OpenNow
  <2>6. NothingOpen /\ ~caught
    BY <1>1, <2>5, NothingOpenAt, NotCaught DEF InRequest
  <2>7. /\ run.blockedReason \in {NoReason, "cleanup_failed"}
        /\ LastRequest(run, run.activeStep).status = "succeeded" /\ LastRequest(run, run.activeStep).calls = answer.calls
        /\ answer.calls > 0
        /\ \A i \in Slots : /\ i <= answer.calls => run.tools[CallAt(i)].status # "absent"
                            /\ i >= next => run.tools[CallAt(i)].status \in {"absent", "created"}
    BY <1>1, <2>5 DEF OpenAccount, Unblocked, RequestsKnown, DeclaredInOrder, InTools, Declared
  <2>8. run' = run /\ (\A i : CallAt(i)' = CallAt(i)) /\ next' - 1 = next /\ next' <= answer.calls + 1
    BY <1>2, <1>3, <2>2 DEF CallAt
  <2>9. DeclaredInOrder'
    <3>1. \A i \in Slots : i >= next + 1 => i >= next
      BY <1>2
    <3>2. \A i \in Slots : i >= next' => run.tools[CallAt(i)].status \in {"absent", "created"}
      BY <2>2, <2>7, <3>1
    <3> QED BY <2>2, <2>7, <2>8, <3>2 DEF DeclaredInOrder, InTools, Declared, Undeclared, Compacting, InRequest
  <2>10. Turn'
    <3>1. ASSUME NEW j \in Slots, worker'[j].at \in Undispatched PROVE j = next
      BY <1>1, <2>4, <2>5, <3>1 DEF OpenAccount, Crew
    <3>2. run.tools[CallAt(next)].status = "created"
      BY <1>2, <1>3, <2>3, <2>7
    <3>3. MayStartTool(run, CallAt(next))
      BY <1>1, <1>3, <2>1, <2>3, <2>5, MayLaunch
    <3> QED BY <2>8, <3>1, <3>2, <3>3 DEF Turn, IsOpen, OpenCall
  <2>11. Decided'
    <3>1. \A t \in Calls : t[2] \in Slots
      BY DEF Calls
    <3> QED BY <2>2, <2>4, <2>5, <2>8, <3>1 DEF OpenAccount, Decided
  <2>12. Crew'
    <3>1. run.activeStep # 0 => \A i \in Slots : worker'[i].at = "done" => run.tools[CallAt(i)].status \in TerminalCall
      BY <2>4, <2>5 DEF OpenAccount, Crew
    <3>2. \A i \in Slots : /\ worker'[i].at = "failed" => failure # "none"
                           /\ i < next + 1 => worker'[i].at # "idle"
      <4>1. \A i \in Slots : i < next + 1 => i = next \/ i < next
        BY <1>2
      <4> QED BY <1>1, <2>4, <2>5, <4>1 DEF OpenAccount, Crew, InTools
    <3>3. pc' = "waitStart" => \A i \in Slots : Busy(i)' => Mode(i) = "parallel"
      BY <1>1, <2>1, <2>2, <2>4, <2>5 DEF OpenAccount, Crew, Busy
    <3>4. \A i \in Slots : worker'[i].at \in Undispatched => i = next' - 1
      BY <1>1, <2>4, <2>5, <2>8 DEF OpenAccount, Crew
    <3> QED BY <2>2, <2>8, <3>1, <3>2, <3>3, <3>4 DEF Crew, Mode
  <2> QED BY <1>1, <2>2, <2>5, <2>6, <2>7, <2>9, <2>10, <2>11, <2>12, ToolsMoveAccount DEF InTools
<1>4. CASE ~(next <= answer.calls /\ failure = "none")
  <2>1. UNCHANGED toolVars /\ BusySlots = {} /\ OpenAccount /\ Clear
        /\ (IF failure = "none" THEN GotoLoop("tooled") ELSE ThrowInTools(failure))
    BY <1>4, SameClear, OpenNow DEF Pool
  <2>2. (\A i \in Slots : ~Busy(i)) /\ NothingOpen /\ ~caught
    BY <1>1, <2>1, NothingOpenAt, NotCaught DEF InRequest, BusySlots
  <2>3. CASE failure # "none"
    <3>1. Known(failure)
      BY <2>1, <2>3 DEF OpenAccount, ErrorsKnown, Known
    <3> QED BY <1>1, <2>1, <2>2, <2>3, <3>1, ThrowInToolsAccount
  <2>4. CASE failure = "none"
    <3>1. pc' = "tooled" /\ UNCHANGED <<answer, next, goal, error, caught, compacted>> /\ run' = run
      BY <2>1, <2>4 DEF GotoLoop, Stay, toolVars
    <3>2. /\ run.blockedReason \in {NoReason, "cleanup_failed"}
          /\ LastRequest(run, run.activeStep).status = "succeeded" /\ LastRequest(run, run.activeStep).calls = answer.calls
          /\ answer.calls > 0
          /\ \A i \in Slots : i <= answer.calls => run.tools[CallAt(i)].status # "absent"
      BY <1>1, <2>1 DEF OpenAccount, Unblocked, RequestsKnown, DeclaredInOrder, InTools, Declared
    <3>3. ASSUME NEW i \in Slots PROVE ~IsOpen(run.tools[CallAt(i)])
      <4>1. CASE i < next
        BY <1>1, <2>1, <2>2, <2>4, <4>1, LaunchedCalls DEF IsOpen, OpenCall, TerminalCall
      <4>2. CASE ~(i < next)
        <5>1. ~(i <= answer.calls)
          BY <1>2, <1>4, <2>4, <4>2
        <5>2. run.activeStep \in Steps
          BY <1>1, OpenStepIs
        <5>3. run.tools[CallAt(i)].status = "absent"
          BY <1>1, <3>2, <5>1, <5>2 DEF RunInv, RetryIsRecovery, CallAt
        <5> QED BY <5>3 DEF IsOpen, OpenCall
      <4> QED BY <4>1, <4>2
    <3>4. NothingElseOpen' /\ Unblocked'
      BY <2>2, <3>1, <3>2 DEF NothingOpen, NothingElseOpen, Unblocked, InTools, InRequest
    <3>5. RequestsKnown'
      BY <3>1, <3>2 DEF RequestsKnown, Compacting
    <3>6. DeclaredInOrder'
      BY <3>1, <3>2, <3>3 DEF DeclaredInOrder, Undeclared, Compacting, InRequest, InTools, CallAt
    <3>7. pc' \in RestingPlaces \ Ends /\ pc' \notin {"top", "openStep"} \cup BetweenSteps
      BY <3>1 DEF RestingPlaces, Ends, InTools, Points, BetweenSteps
    <3>8. UNCHANGED <<run, worker, unresolvable, failure>> /\ (control' = "cancel_requested" => run.cancelRequested)
      BY <2>1 DEF OpenAccount, RunOpen, toolVars
    <3> QED BY <1>1, <2>1, <2>2, <3>1, <3>4, <3>5, <3>6, <3>7, <3>8, MoveAccount
  <2> QED BY <2>3, <2>4
<1> QED BY <1>3, <1>4

\* The loop goes back to the pool.
LEMMA BackAccount ==
  ASSUME LoopInv, OpenInv, Clear', UNCHANGED toolVars, GotoLoop("pool"), pc \in {"waitStart", "await"},
         OpenAccount /\ Clear => \A i \in Slots : worker[i].at \notin Undispatched /\ (Busy(i) => Mode(i) = "parallel")
  PROVE  OpenAccount'
<1>1. OpenAccount /\ Clear /\ pc # "ended"
  BY SameClear, OpenNow
<1>2. NothingOpen /\ ~caught
  BY <1>1, NothingOpenAt, NotCaught DEF InRequest
<1>3. /\ pc' = "pool" /\ UNCHANGED <<answer, next, goal, error, caught, compacted>> /\ run' = run
      /\ (\A i : CallAt(i)' = CallAt(i))
      /\ UNCHANGED <<run, control, unresolvable, failure, worker>>
  BY DEF GotoLoop, Stay, toolVars, CallAt
<1>4. /\ run.blockedReason \in {NoReason, "cleanup_failed"}
      /\ LastRequest(run, run.activeStep).status = "succeeded" /\ LastRequest(run, run.activeStep).calls = answer.calls
      /\ answer.calls > 0
  BY <1>1 DEF OpenAccount, Unblocked, RequestsKnown, InTools, Declared
<1>5. DeclaredInOrder'
  BY <1>1, <1>3 DEF OpenAccount, DeclaredInOrder, InTools, Declared, Undeclared, Compacting, InRequest
<1>6. Turn' /\ Decided'
  BY <1>1, <1>3 DEF OpenAccount, Turn, Decided
<1>7. Crew'
  BY <1>1, <1>3 DEF OpenAccount, Crew, InTools, Mode, Busy
<1> QED BY <1>1, <1>2, <1>3, <1>4, <1>5, <1>6, <1>7, ToolsMoveAccount DEF InTools

LEMMA WaitStartAccount ==
  ASSUME LoopInv, LoopInv', OpenInv, Clear', WaitStart
  PROVE  OpenAccount'
<1>1. ASSUME OpenAccount, NEW i \in Slots
      PROVE  worker[i].at \notin Undispatched /\ (Busy(i) => Mode(i) = "parallel")
  <2>1. ASSUME worker[i].at \in Undispatched PROVE FALSE
    <3>1. i = next - 1 /\ IsOpen(run.tools[CallAt(i)]) /\ run.tools[CallAt(i)].status # "running"
      BY <1>1, <2>1 DEF OpenAccount, Crew, Turn, WaitStart
    <3>2. Busy(i) /\ run.tools[CallAt(i)].status \in {"created", "waiting_for_approval"}
      BY <2>1, <3>1 DEF Busy, Undispatched, IsOpen, OpenCall
    <3>3. run.tools[CallAt(i)].started
      BY <3>1, <3>2 DEF WaitStart
    <3>4. CallAt(i) \in Calls
      BY OpenStepIs DEF WaitStart, LoopInv, Placed, InStep, InTools
    <3> QED BY <3>1, <3>3, <3>4 DEF LoopInv, CallsKnown
  <2> QED BY <1>1, <2>1 DEF OpenAccount, Crew, WaitStart
<1> QED BY <1>1, BackAccount DEF WaitStart

LEMMA AwaitExclusiveAccount ==
  ASSUME LoopInv, LoopInv', OpenInv, Clear', AwaitExclusive
  PROVE  OpenAccount'
<1>1. \A i \in Slots : ~Busy(i)
  BY DEF AwaitExclusive, LoopInv, Launched
<1>2. \A i \in Slots : worker[i].at \notin Undispatched
  BY <1>1 DEF Busy, Undispatched
<1> QED BY <1>1, <1>2, BackAccount DEF AwaitExclusive

-----------------------------------------------------------------------------
(***************************************************************************)
(* The workers.                                                            *)
(***************************************************************************)
\* A worker's step leaves a result that could not be saved where it is.
LEMMA WorkerClear ==
  ASSUME LoopInv, OpenInv, Clear', NEW i \in Slots, Busy(i), NEW at, NEW out, Moves(i, at, out), Around,
         run.activeTools \ {CallAt(i)} \subseteq run'.activeTools
  PROVE  OpenAccount /\ Clear
<1>1. Stopped' = Stopped
  BY DEF Around, Stopped
<1>2. ASSUME NEW t \in run.activeTools, worker[t[2]].at = "failed"
      PROVE  t \in run'.activeTools /\ worker'[t[2]].at = "failed"
  <2>1. t[2] \in Slots /\ t = CallAt(t[2])
    BY ActiveCall DEF LoopInv
  <2>2. t[2] # i
    BY <1>2 DEF Busy
  <2>3. t # CallAt(i)
    BY <2>1, <2>2 DEF CallAt
  <2> QED BY <1>2, <2>1, <2>2, <2>3 DEF Moves
<1> QED BY <1>1, <1>2, OpenNow DEF Clear, Unsaved

\* Where the loop is while a worker is busy, and what its call is.
LEMMA WorkerPlace ==
  ASSUME LoopInv, OpenAccount, Clear, NEW i \in Slots, Busy(i)
  PROVE  /\ pc \in InTools \cup {"sweeping"} /\ (pc = "sweeping" => i = next - 1 /\ run.cancelRequested)
         /\ run.activeStep \in Steps /\ CallAt(i) \in Calls /\ CallAt(i)[1] = run.activeStep /\ CallAt(i)[2] = i
         /\ run.steps[run.activeStep] = "running" /\ IsOpen(run.tools[CallAt(i)])
         /\ RunKept /\ RunInv(run) /\ NothingOpen
<1>1. pc \in InTools \cup {"sweeping"} /\ run.activeStep # 0 /\ RunKept /\ RunInv(run)
  BY DEF LoopInv, BusyWhere, Clear, Stopped, RunKept
<1>2. run.activeStep \in Steps /\ CallAt(i) \in Calls /\ CallAt(i)[1] = run.activeStep /\ CallAt(i)[2] = i
  BY <1>1, OpenStepIs
<1>3. run.steps[run.activeStep] = "running"
  BY <1>1, <1>2 DEF RunInv, ActiveSetsAgree
<1>4. IsOpen(run.tools[CallAt(i)])
  <2>1. CASE worker[i].at \in Undispatched
    BY <2>1 DEF OpenAccount, Turn
  <2>2. CASE worker[i].at \in Driven
    <3>1. CallAt(i) \in run.activeTools
      BY <2>2 DEF LoopInv, Owned
    <3> QED BY <1>1, <3>1, ActiveCall
  <2> QED BY <2>1, <2>2, WhereWorkersAre
<1>5. NothingOpen
  BY <1>1, NothingOpenAt DEF InTools, InRequest
<1>6. pc = "sweeping" => i = next - 1 /\ run.cancelRequested
  BY DEF LoopInv, Launched, Placed
<1> QED BY <1>1, <1>2, <1>3, <1>4, <1>5, <1>6

\* At most one worker has its call still to dispatch: of two, the later one's turn had not come.
LEMMA OneUndispatched ==
  ASSUME LoopInv, OpenAccount, Clear, NEW i \in Slots, NEW j \in Slots,
         worker[i].at \in Undispatched, worker[j].at \in Undispatched
  PROVE  i = j
<1>1. ASSUME NEW k \in Slots, NEW l \in Slots, k < l, worker[k].at \in Undispatched, worker[l].at \in Undispatched
      PROVE  FALSE
  <2>1. /\ IsOpen(run.tools[CallAt(k)]) /\ run.tools[CallAt(k)].status # "running"
        /\ MayStartTool(run, CallAt(l))
    BY <1>1 DEF OpenAccount, Turn
  <2>2. CallAt(k) \in EarlierSlots(CallAt(l))
    <3>1. k \in 1..(l - 1)
      BY <1>1, BoundsAssumption DEF Slots
    <3> QED BY <3>1 DEF EarlierSlots, CallAt
  <2>3. CallAt(k) \in EarlierOpen(run, CallAt(l))
    BY <2>1, <2>2 DEF EarlierOpen
  <2> QED BY <2>1, <2>3 DEF MayStartTool
<1>2. i \in Int /\ j \in Int
  BY DEF Slots
<1> QED BY <1>1, <1>2

\* So an approval that waits is the call's of the worker that has it still to dispatch.
LEMMA PendingIsOwn ==
  ASSUME LoopInv, OpenAccount, Clear, NEW i \in Slots, worker[i].at \in Undispatched, PendingApproval(run)
  PROVE  run.approvals[CallAt(i)] = "pending"
<1>1. PICK t \in Calls : run.approvals[t] = "pending"
  BY DEF PendingApproval
<1>2. t[2] \in Slots /\ worker[t[2]].at \in Undispatched
  BY <1>1 DEF OpenAccount, Decided, Calls, Undispatched
<1>3. t[2] = i
  BY <1>2, OneUndispatched
<1>4. run.tools[t].status = "waiting_for_approval"
  BY <1>1 DEF LoopInv, RunKept, RunInv, ActiveSetsAgree
<1>5. t[1] = run.activeStep
  BY <1>4 DEF LoopInv, RunKept, RunInv, ActiveSetsAgree, IsOpen, OpenCall
<1>6. t = CallAt(i)
  BY <1>3, <1>5 DEF Calls, CallAt
<1> QED BY <1>1, <1>6

\* What a worker may fail with.
Refusal(code) ==
  \/ code \in {"workspace_blocked", "session_capacity"}
  \/ run.cancelRequested /\ code \in {"cancelled-dispatch", "tool-order"}

(***************************************************************************)
(* A worker's step: it moves its own call, in ways the account allows.     *)
(***************************************************************************)
LEMMA WorkerAccount ==
  ASSUME LoopInv, OpenAccount, Clear, NEW i \in Slots, Busy(i), NEW at, NEW out, Moves(i, at, out), Around,
         UNCHANGED unresolvable, OtherCalls(run, run', CallAt(i)), Quietly(run, run'),
         run'.blockedReason \in {run.blockedReason, "cleanup_failed"},
         run'.tools[CallAt(i)].status # "absent",
         run'.approvals[CallAt(i)] # "absent" => run.tools[CallAt(i)].gated,
         run'.tools[CallAt(i)].status = "waiting_for_approval" =>
           run'.approvals[CallAt(i)] \in {"pending", "denied", "expired"},
         IsOpen(run'.tools[CallAt(i)]) => run'.approvals[CallAt(i)] # "cancelled",
         Turn',
         at = "refuse" => run'.approvals[CallAt(i)] \in {"denied", "expired"},
         at = "reject" => i \in unresolvable,
         i \in unresolvable => run'.approvals[CallAt(i)] = "absent",
         at = "ask" => run.tools[CallAt(i)].gated /\ run'.approvals[CallAt(i)] = "absent" /\ i \notin unresolvable,
         at = "start" => /\ run'.approvals[CallAt(i)] \notin {"denied", "expired", "pending"}
                         /\ run.tools[CallAt(i)].gated => run'.approvals[CallAt(i)] = "allowed",
         run'.approvals[CallAt(i)] = "pending" => at \in {"advance", "waiting", "expire", "cancel"},
         at = "finish" => EarlierOpen(run, CallAt(i)) = {},
         at \in {"commit", "finish"} /\ out.status = "cancelled" => run.cancelRequested,
         at # "idle", at \in Undispatched => worker[i].at \in Undispatched,
         at = "done" => run'.tools[CallAt(i)].status \in TerminalCall,
         at = "failed" => failure' # "none",
         failure' = failure \/ (failure' # "none" /\ Refusal(failure')),
         pc = "sweeping" => at \in {"advance", "cancel", "done"}
  PROVE  OpenAccount'
<1> DEFINE t == CallAt(i)
<1>1. /\ pc \in InTools \cup {"sweeping"} /\ (pc = "sweeping" => i = next - 1)
      /\ t \in Calls /\ t[1] = run.activeStep /\ t[2] = i /\ IsOpen(run.tools[t]) /\ RunKept /\ NothingOpen
  BY WorkerPlace
<1>2. /\ UNCHANGED <<control, stopping, pc, answer, compacted, next, goal, error, caught>>
      /\ run'.activeStep = run.activeStep /\ run'.steps = run.steps /\ run'.cancelRequested = run.cancelRequested
      /\ \A j : CallAt(j)' = CallAt(j)
      /\ \A u \in Calls : run'.tools[u].gated = run.tools[u].gated /\ run'.tools[u].mode = run.tools[u].mode
      /\ \A u \in Calls : u # t => run'.tools[u] = run.tools[u] /\ run'.approvals[u] = run.approvals[u]
  BY DEF Around, loopVars, OtherCalls, CallAt
<1>3. worker'[i].at = at /\ worker'[i].out = out /\ \A j \in Slots : j # i => worker'[j] = worker[j]
  BY DEF Moves
<1>4. \A j \in Slots : CallAt(j) \in Calls /\ (j # i => CallAt(j) # t)
  <2>1. run.activeStep # 0
    BY <1>1 DEF LoopInv, BusyWhere
  <2> QED BY <1>1, <2>1, OpenStepIs
<1> HIDE DEF t
<1>5. pc' \notin BetweenSteps \cup InRequest \cup Compacting \cup {"request", "recorded", "prepare", "create", "tooled", "closeStep",
         "stepClosed", "catch", "cancel", "sweep", "finish", "close", "ended"}
  BY <1>1, <1>2 DEF InTools, BetweenSteps, InRequest, Compacting
<1>6. StepsInOrder'
  <2>1. NextStep' = NextStep /\ OpenSteps' = OpenSteps
    BY <1>2, SameSteps DEF OpenSteps
  <2>2. \A k \in Steps : LastRequest(run', k) = LastRequest(run, k)
    BY DEF Quietly, LastRequest, LastAttempt
  <2> QED BY <1>2, <2>1, <2>2 DEF OpenAccount, StepsInOrder
<1>7. RunOpen'
  BY <1>2, <1>5 DEF OpenAccount, RunOpen, Quietly, BetweenSteps
<1>8. NothingElseOpen'
  BY <1>1 DEF NothingElseOpen, NothingOpen, Quietly
<1>9. Unblocked'
  BY <1>2, <1>5 DEF OpenAccount, Unblocked, BetweenSteps
<1>10. RequestsKnown'
  <2>1. LastRequest(run', run'.activeStep) = LastRequest(run, run.activeStep)
    BY <1>2 DEF Quietly, LastRequest, LastAttempt
  <2>2. pc \in Declared => /\ LastRequest(run, run.activeStep).status = "succeeded"
                          /\ LastRequest(run, run.activeStep).calls = answer.calls
                          /\ answer.calls > 0
    BY DEF OpenAccount, RequestsKnown
  <2>3. pc' \notin Compacting \cup {"summarizing", "compactionAnswered", "afterCompact", "request", "answered", "record",
                                   "recorded", "prepare", "create"}
    BY <1>5 DEF Compacting, BetweenSteps, InRequest
  <2>4. pc' \in Declared => /\ LastRequest(run', run'.activeStep).status = "succeeded"
                           /\ LastRequest(run', run'.activeStep).calls = answer'.calls
                           /\ answer'.calls > 0
    BY <1>2, <2>1, <2>2
  <2> QED BY <2>3, <2>4 DEF RequestsKnown
<1>11. DeclaredInOrder'
  <2>1. pc \in InTools => i < next
    <3>1. ~(i >= next) \/ pc \notin InTools
      BY DEF LoopInv, Launched, Busy
    <3>2. i \in Int /\ next \in Int
      BY DEF Slots, LoopInv, LoopType
    <3> QED BY <3>1, <3>2
  <2>2. ASSUME pc \in InTools, NEW j \in Slots, j >= next
        PROVE  run'.tools[CallAt(j)].status \in {"absent", "created"}
    <3>1. j # i
      <4>1. i \in Int /\ next \in Int /\ j \in Int
        BY DEF Slots, LoopInv, LoopType
      <4> QED BY <2>1, <2>2, <4>1
    <3>2. run.tools[CallAt(j)].status \in {"absent", "created"}
      BY <2>2 DEF OpenAccount, DeclaredInOrder
    <3> QED BY <1>2, <1>4, <3>1, <3>2
  <2>3. ASSUME pc \in InTools, NEW j \in Slots, j <= answer.calls
        PROVE  run'.tools[CallAt(j)].status # "absent"
    <3>1. run.tools[CallAt(j)].status # "absent"
      BY <2>3 DEF OpenAccount, DeclaredInOrder, Declared
    <3> QED BY <1>2, <1>4, <3>1 DEF t
  <2>4. pc \in InTools => next <= answer.calls + 1
    BY DEF OpenAccount, DeclaredInOrder
  <2> QED BY <1>1, <1>2, <1>5, <2>2, <2>3, <2>4 DEF DeclaredInOrder, Undeclared, Declared
<1>12. GatesKnown'
  <2>1. \A u \in Calls : /\ run'.tools[u].gated => run'.tools[u].mode = "exclusive"
                         /\ run'.approvals[u] # "absent" => run'.tools[u].gated
                         /\ run'.tools[u].status = "waiting_for_approval" =>
                              run'.approvals[u] \in {"pending", "denied", "expired"}
                         /\ IsOpen(run'.tools[u]) => run'.approvals[u] # "cancelled"
    <3>1. SUFFICES ASSUME NEW u \in Calls
                   PROVE  /\ run'.tools[u].gated => run'.tools[u].mode = "exclusive"
                          /\ run'.approvals[u] # "absent" => run'.tools[u].gated
                          /\ run'.tools[u].status = "waiting_for_approval" =>
                               run'.approvals[u] \in {"pending", "denied", "expired"}
                          /\ IsOpen(run'.tools[u]) => run'.approvals[u] # "cancelled"
      OBVIOUS
    <3>2. CASE u = t
      BY <1>2, <3>2 DEF OpenAccount, GatesKnown, t
    <3>3. CASE u # t
      BY <1>2, <3>3 DEF OpenAccount, GatesKnown
    <3> QED BY <3>2, <3>3
  <2>2. ASSUME run.activeStep # 0, NEW j \in Slots, j \in unresolvable
        PROVE  /\ run'.tools[CallAt(j)].status # "absent" /\ run'.tools[CallAt(j)].mode = "exclusive"
               /\ run'.approvals[CallAt(j)] = "absent"
    <3>1. /\ run.tools[CallAt(j)].status # "absent" /\ run.tools[CallAt(j)].mode = "exclusive"
          /\ run.approvals[CallAt(j)] = "absent"
      BY <2>2 DEF OpenAccount, GatesKnown
    <3>2. CASE j = i
      BY <1>2, <1>4, <2>2, <3>1, <3>2 DEF t
    <3>3. CASE j # i
      BY <1>2, <1>4, <3>1, <3>3
    <3> QED BY <3>2, <3>3
  <2> QED BY <1>2, <1>5, <2>1, <2>2 DEF GatesKnown
<1>13. \A u \in Calls : EarlierOpen(run', u) \subseteq EarlierOpen(run, u)
  <2>1. SUFFICES ASSUME NEW u \in Calls, NEW e \in EarlierOpen(run', u) PROVE e \in EarlierOpen(run, u)
    OBVIOUS
  <2>2. e \in EarlierSlots(u) /\ IsOpen(run'.tools[e])
    BY DEF EarlierOpen
  <2>3. e \in Calls
    <3>1. PICK j \in 1..(u[2] - 1) : e = <<u[1], j>>
      BY <2>2 DEF EarlierSlots
    <3>2. u[2] \in Slots /\ u[1] \in Steps
      BY DEF Calls
    <3>3. j \in Slots
      BY <3>1, <3>2, BoundsAssumption DEF Slots
    <3> QED BY <3>1, <3>2, <3>3 DEF Calls
  <2>4. IsOpen(run.tools[e])
    BY <1>1, <1>2, <2>2, <2>3
  <2> QED BY <2>2, <2>4 DEF EarlierOpen
<1>14. Decided'
  <2>1. ASSUME NEW j \in Slots
        PROVE  /\ worker'[j].at = "refuse" => run'.approvals[CallAt(j)] \in {"denied", "expired"}
               /\ worker'[j].at = "reject" => j \in unresolvable
               /\ worker'[j].at = "ask" => /\ run'.tools[CallAt(j)].gated /\ run'.approvals[CallAt(j)] = "absent"
                                           /\ j \notin unresolvable
               /\ worker'[j].at = "start" => /\ run'.approvals[CallAt(j)] \notin {"denied", "expired", "pending"}
                                             /\ run'.tools[CallAt(j)].gated => run'.approvals[CallAt(j)] = "allowed"
               /\ worker'[j].at = "finish" => EarlierOpen(run', CallAt(j)) = {}
               /\ worker'[j].at \in {"commit", "finish"} /\ worker'[j].out.status = "cancelled" => run.cancelRequested
    <3>1. CASE j = i
      BY <1>2, <1>3, <1>4, <1>13, <3>1 DEF t
    <3>2. CASE j # i
      <4>1. worker'[j] = worker[j] /\ CallAt(j) \in Calls /\ CallAt(j) # t
        BY <1>3, <1>4, <3>2
      <4> QED BY <1>2, <1>13, <4>1 DEF OpenAccount, Decided
    <3> QED BY <3>1, <3>2
  <2>2. ASSUME NEW u \in Calls, run'.approvals[u] = "pending"
        PROVE  worker'[u[2]].at \in {"advance", "waiting", "expire", "cancel"}
    <3>1. CASE u = t
      BY <1>1, <1>3, <2>2, <3>1 DEF t
    <3>2. CASE u # t
      <4>1. run.approvals[u] = "pending"
        BY <1>2, <2>2, <3>2
      <4>2. run.tools[u].status = "waiting_for_approval"
        BY <1>1, <4>1 DEF RunKept, RunInv, ActiveSetsAgree
      <4>3. u[1] = run.activeStep /\ u[2] \in Slots /\ u = <<u[1], u[2]>>
        BY <1>1, <4>2 DEF RunKept, RunInv, ActiveSetsAgree, IsOpen, OpenCall, Calls
      <4>4. u[2] # i
        BY <3>2, <4>3 DEF t, CallAt
      <4> QED BY <1>3, <4>1, <4>3, <4>4 DEF OpenAccount, Decided
    <3> QED BY <3>1, <3>2
  <2> QED BY <1>2, <2>1, <2>2 DEF Decided
<1>15. Crew'
  <2>1. ASSUME NEW j \in Slots, worker'[j].at = "done" PROVE run'.tools[CallAt(j)].status \in TerminalCall
    <3>1. CASE j = i
      BY <1>3, <2>1, <3>1
    <3>2. CASE j # i
      <4>1. run.tools[CallAt(j)].status \in TerminalCall
        <5>1. run.activeStep # 0
          BY <1>1 DEF LoopInv, BusyWhere
        <5> QED BY <1>3, <2>1, <3>2, <5>1 DEF OpenAccount, Crew
      <4> QED BY <1>2, <1>4, <3>2, <4>1
    <3> QED BY <3>1, <3>2
  <2>2. ASSUME pc \in InTools, NEW j \in Slots
        PROVE  /\ worker'[j].at = "failed" => failure' # "none"
               /\ j < next => worker'[j].at # "idle"
    BY <1>3, <2>2 DEF OpenAccount, Crew
  <2>3. ASSUME pc \in {"pool", "waitStart"}, NEW j \in Slots, Busy(j)'
        PROVE  run'.tools[CallAt(j)].mode = "parallel"
    <3>1. Busy(j)
      BY <1>3, <2>3 DEF Busy
    <3> QED BY <1>2, <1>4, <2>3, <3>1 DEF OpenAccount, Crew, Mode
  <2>4. ASSUME NEW j \in Slots, worker'[j].at \in Undispatched
        PROVE  pc # "pool" /\ (pc = "waitStart" => j = next - 1)
    <3>1. worker[j].at \in Undispatched
      BY <1>3, <2>4
    <3> QED BY <3>1 DEF OpenAccount, Crew
  <2>5. pc = "sweeping" => /\ worker'[next - 1].at \in {"advance", "cancel", "done"}
                           /\ worker'[next - 1].at # "done" => EarlierOpen(run', CallAt(next - 1)) = {}
    <3>1. SUFFICES ASSUME pc = "sweeping"
                   PROVE  /\ at \in {"advance", "cancel", "done"}
                          /\ EarlierOpen(run', CallAt(i)) = {}
      BY <1>1, <1>3
    <3>2. EarlierOpen(run, CallAt(i)) = {}
      BY <1>1, <3>1 DEF OpenAccount, Crew, Busy
    <3> QED BY <1>4, <1>13, <3>1, <3>2
  <2> QED BY <1>2, <2>1, <2>2, <2>3, <2>4, <2>5 DEF Crew, Mode
<1>16. ErrorsKnown'
  BY <1>1, <1>2, <1>5 DEF OpenAccount, ErrorsKnown, Refusal
<1>17. Closing' /\ LeftOpen'
  BY <1>5 DEF Closing, LeftOpen
<1> QED BY <1>6, <1>7, <1>8, <1>9, <1>10, <1>11, <1>12, <1>14, <1>15, <1>16, <1>17 DEF OpenAccount

\* A look at the run, or a refusal: the run stays.
LEMMA LookAccount ==
  ASSUME LoopInv, OpenAccount, Clear, NEW i \in Slots, Busy(i), NEW at, NEW out, Moves(i, at, out), Around,
         UNCHANGED <<run, unresolvable>>,
         at = "refuse" => run.approvals[CallAt(i)] \in {"denied", "expired"},
         at = "reject" => i \in unresolvable,
         at = "ask" => run.tools[CallAt(i)].gated /\ run.approvals[CallAt(i)] = "absent" /\ i \notin unresolvable,
         at = "start" => /\ run.approvals[CallAt(i)] \notin {"denied", "expired", "pending"}
                         /\ run.tools[CallAt(i)].gated => run.approvals[CallAt(i)] = "allowed",
         run.approvals[CallAt(i)] = "pending" => at \in {"advance", "waiting", "expire", "cancel"},
         at = "finish" => EarlierOpen(run, CallAt(i)) = {},
         at \in {"commit", "finish"} /\ out.status = "cancelled" => run.cancelRequested,
         at \notin {"idle", "done"}, at \in Undispatched => worker[i].at \in Undispatched,
         at = "failed" => failure' # "none",
         failure' = failure \/ (failure' # "none" /\ Refusal(failure')),
         pc = "sweeping" => at \in {"advance", "cancel"}
  PROVE  OpenAccount'
<1>1. /\ CallAt(i) \in Calls /\ IsOpen(run.tools[CallAt(i)]) /\ pc \in InTools \cup {"sweeping"}
  BY WorkerPlace
<1>2. OtherCalls(run, run', CallAt(i))
  BY DEF OtherCalls
<1>3. Quietly(run, run')
  BY <1>1 DEF OpenAccount, RunOpen, Quietly, InTools
<1>4. /\ run'.tools[CallAt(i)].status # "absent"
      /\ run'.approvals[CallAt(i)] # "absent" => run.tools[CallAt(i)].gated
      /\ run'.tools[CallAt(i)].status = "waiting_for_approval" => run'.approvals[CallAt(i)] \in {"pending", "denied", "expired"}
      /\ IsOpen(run'.tools[CallAt(i)]) => run'.approvals[CallAt(i)] # "cancelled"
      /\ i \in unresolvable => run'.approvals[CallAt(i)] = "absent"
  BY <1>1 DEF OpenAccount, GatesKnown, IsOpen, OpenCall, LoopInv, BusyWhere
<1>5. Turn'
  <2>1. \A j \in Slots : worker'[j].at \in Undispatched => worker[j].at \in Undispatched
    BY DEF Moves
  <2>2. \A j : CallAt(j)' = CallAt(j)
    BY DEF CallAt
  <2> QED BY <2>1, <2>2 DEF OpenAccount, Turn
<1>6. run'.blockedReason \in {run.blockedReason, "cleanup_failed"}
  OBVIOUS
<1>7. pc = "sweeping" => at \in {"advance", "cancel", "done"}
  OBVIOUS
<1>8. run' = run
  OBVIOUS
<1> QED BY <1>2, <1>3, <1>4, <1>5, <1>6, <1>7, <1>8, WorkerAccount

\* A worker whose call is dispatched drives it on.
LEMMA DriveAccount ==
  ASSUME LoopInv, OpenAccount, Clear, NEW i \in Slots, worker[i].at \in Driven, NEW at \in Driven, NEW out, Moves(i, at, out),
         Around, UNCHANGED <<run, unresolvable, failure>>,
         at = "finish" => EarlierOpen(run, CallAt(i)) = {},
         at \in {"commit", "finish"} /\ out.status = "cancelled" => run.cancelRequested
  PROVE  OpenAccount'
<1>1. Busy(i)
  BY DEF Busy, Driven
<1>2. CallAt(i) \in run.activeTools /\ CallAt(i) \in Calls /\ RunInv(run)
  BY <1>1, WorkerPlace DEF LoopInv, Owned
<1>3. run.approvals[CallAt(i)] # "pending"
  BY <1>2 DEF RunInv, OneKindOpen, PendingApproval
<1>4. pc # "sweeping"
  <2>1. pc = "sweeping" => i = next - 1
    BY <1>1, WorkerPlace
  <2> QED BY <2>1 DEF OpenAccount, Crew, Driven
<1>5. at \notin Undispatched \cup {"idle", "done", "failed", "refuse", "reject", "ask", "start"}
  BY DEF Driven, Undispatched
<1> QED BY <1>1, <1>3, <1>4, <1>5, LookAccount

\* A worker fails with a refusal the loop knows.
LEMMA RefusedAccount ==
  ASSUME LoopInv, OpenAccount, Clear, NEW i \in Slots, Busy(i), NEW code, code # "none", Refusal(code), Fail(i, code), Around,
         UNCHANGED <<run, unresolvable>>, run.approvals[CallAt(i)] # "pending", pc # "sweeping"
  PROVE  OpenAccount'
<1>1. Moves(i, "failed", worker[i].out)
  BY GotoMoves DEF Fail, LoopInv, WorkerPoints
<1>2. failure' # "none" /\ (failure' = failure \/ Refusal(failure'))
  BY DEF Fail
<1>3. "failed" \notin Undispatched
  BY DEF Undispatched
<1> QED BY <1>1, <1>2, <1>3, LookAccount

\* The store refuses a dispatch the worker may ask for.
LEMMA RefusedVerdict ==
  ASSUME NEW accepted, ~run.cancelRequested /\ run.blockedReason # "cleanup_failed" => accepted,
         NEW v \in Verdicts(accepted), v # "accepted"
  PROVE  v # "none" /\ Refusal(v)
<1>1. CASE RunBlockers(run) # {}
  BY <1>1 DEF Verdicts, Refusal
<1>2. CASE RunBlockers(run) = {}
  <2>1. run.blockedReason # "cleanup_failed"
    BY <1>2 DEF RunBlockers
  <2>2. CASE accepted
    BY <1>2, <2>2 DEF Verdicts, Refusal
  <2>3. CASE ~accepted
    <3>1. run.cancelRequested
      BY <2>1, <2>3
    <3>2. DispatchError = "cancelled-dispatch"
      BY <3>1 DEF DispatchError
    <3> QED BY <1>2, <2>3, <3>1, <3>2 DEF Verdicts, Refusal
  <2> QED BY <2>2, <2>3
<1> QED BY <1>1, <1>2

-----------------------------------------------------------------------------
\* What a worker's step is, whatever it does.
LEMMA WorkerBasics ==
  ASSUME LoopInv, NEW i \in Slots, UNCHANGED loopVars,
         \/ Advance(i) \/ Wake(i) \/ BeforeEffect(i) \/ Effect(i) \/ BodyEnds(i) \/ CommitTurn(i)
  PROVE  /\ Busy(i) /\ Around /\ UNCHANGED <<run, unresolvable>>
         /\ \E at, out : Moves(i, at, out)
<1>1. Busy(i) /\ Around /\ UNCHANGED <<run, unresolvable>>
  BY DEF Advance, Wake, BeforeEffect, Effect, BodyEnds, CommitTurn, Busy, Around
<1>2. \/ \E at \in WorkerPoints : Goto(i, at)
      \/ \E out \in BodyFailures \cup {Cancelled, Outcome("succeeded", "completed", "runner")} : Hold(i, "commit", out)
  <2>1. CASE Advance(i)
    <3>1. Decision(i, CallAt(i)) \in WorkerPoints /\ "failed" \in WorkerPoints
      BY DEF Decision, WorkerPoints
    <3> QED BY <2>1, <3>1 DEF Advance, Fail
  <2>2. CASE Wake(i)
    BY <2>2 DEF Wake, WorkerPoints
  <2>3. CASE BeforeEffect(i)
    BY <2>3 DEF BeforeEffect, Fail, WorkerPoints
  <2>4. CASE Effect(i)
    BY <2>4 DEF Effect, WorkerPoints
  <2>5. CASE BodyEnds(i)
    BY <2>5 DEF BodyEnds, Fail, WorkerPoints
  <2>6. CASE CommitTurn(i)
    BY <2>6 DEF CommitTurn, Fail, WorkerPoints
  <2> QED BY <2>1, <2>2, <2>3, <2>4, <2>5, <2>6
<1>3. \E at, out : Moves(i, at, out)
  <2>1. ASSUME NEW at \in WorkerPoints, Goto(i, at) PROVE Moves(i, at, worker[i].out)
    BY <2>1, GotoMoves DEF LoopInv
  <2>2. ASSUME NEW out \in BodyFailures \cup {Cancelled, Outcome("succeeded", "completed", "runner")}, Hold(i, "commit", out)
        PROVE  Moves(i, "commit", out)
    BY <2>2, BodyOutcomes, HoldMoves DEF LoopInv, WorkerPoints
  <2> QED BY <1>2, <2>1, <2>2
<1> QED BY <1>1, <1>3

LEMMA LookBefore ==
  ASSUME LoopInv, OpenInv, Clear', NEW i \in Slots, UNCHANGED loopVars,
         \/ Advance(i) \/ Wake(i) \/ BeforeEffect(i) \/ Effect(i) \/ BodyEnds(i) \/ CommitTurn(i)
  PROVE  OpenAccount /\ Clear /\ ~Stopped
<1>1. Busy(i) /\ Around /\ UNCHANGED <<run, unresolvable>>
  BY WorkerBasics
<1>2. PICK at, out : Moves(i, at, out)
  BY WorkerBasics
<1>3. OpenAccount /\ Clear
  BY <1>1, <1>2, WorkerClear
<1> QED BY <1>3 DEF Clear

LEMMA AdvanceAccount ==
  ASSUME LoopInv, OpenInv, Clear', NEW i \in Slots, Advance(i), UNCHANGED loopVars
  PROVE  OpenAccount'
<1> DEFINE t == CallAt(i)
<1>1. OpenAccount /\ Clear /\ ~Stopped /\ Busy(i) /\ Around /\ UNCHANGED <<run, unresolvable>>
  BY LookBefore, WorkerBasics
<1>2. worker[i].at = "advance" /\ worker[i].at \in Undispatched
  BY DEF Advance, Undispatched
<1>3. IsOpen(run.tools[t]) /\ run.tools[t].status # "running" /\ MayAdvance(t)
  BY <1>1, <1>2 DEF OpenAccount, Turn, MayAdvance
<1>4. Goto(i, Decision(i, t)) /\ failure' = failure
  BY <1>1, <1>3 DEF Advance
<1>5. PICK at : at = Decision(i, t)
  OBVIOUS
<1>6. at \in WorkerPoints /\ at \in {"cancel", "refuse", "reject", "ask", "expire", "waiting", "start"}
  BY <1>3, <1>5 DEF Decision, WorkerPoints
<1>7. Moves(i, at, worker[i].out)
  BY <1>4, <1>5, <1>6, GotoMoves DEF LoopInv
<1>8. /\ at = "refuse" => run.approvals[t] \in {"denied", "expired"}
      /\ at = "reject" => i \in unresolvable
      /\ at = "ask" => run.tools[t].gated /\ run.approvals[t] = "absent" /\ i \notin unresolvable
      /\ at = "start" => /\ run.approvals[t] \notin {"denied", "expired", "pending"}
                         /\ run.tools[t].gated => run.approvals[t] # "absent"
      /\ run.cancelRequested => at = "cancel"
  BY <1>3, <1>5 DEF Decision
<1>9. CallAt(i) \in Calls /\ (pc = "sweeping" => run.cancelRequested) /\ RunInv(run)
  BY <1>1, WorkerPlace
<1>10. at = "start" /\ run.tools[t].gated => run.approvals[t] = "allowed"
  <2>1. run.approvals[t] \in {"absent", "pending", "allowed", "denied", "expired", "cancelled"}
    BY <1>9 DEF RunInv, RunType
  <2>2. run.approvals[t] # "cancelled"
    BY <1>1, <1>3, <1>9 DEF OpenAccount, GatesKnown
  <2> QED BY <1>8, <2>1, <2>2
<1>11. run.approvals[t] = "pending" => at \in {"advance", "waiting", "expire", "cancel"}
  <2>1. run.approvals[t] = "pending" => run.tools[t].gated
    BY <1>1, <1>9 DEF OpenAccount, GatesKnown
  <2>2. run.approvals[t] = "pending" => i \notin unresolvable
    <3>1. run.activeStep # 0
      BY <1>1 DEF LoopInv, BusyWhere
    <3> QED BY <1>1, <2>1, <3>1 DEF OpenAccount, GatesKnown
  <2> QED BY <1>3, <1>5, <2>2 DEF Decision
<1>12. /\ at \notin {"idle", "done", "failed", "finish", "commit"} /\ (pc = "sweeping" => at \in {"advance", "cancel"})
       /\ (at \in Undispatched => worker[i].at \in Undispatched)
  BY <1>2, <1>6, <1>8, <1>9
<1> HIDE DEF t
<1> QED BY <1>1, <1>4, <1>7, <1>8, <1>10, <1>11, <1>12, LookAccount DEF t

LEMMA WakeAccount ==
  ASSUME LoopInv, OpenInv, Clear', NEW i \in Slots, Wake(i), UNCHANGED loopVars
  PROVE  OpenAccount'
<1>1. OpenAccount /\ Clear /\ Busy(i) /\ Around /\ UNCHANGED <<run, unresolvable>>
  BY LookBefore, WorkerBasics
<1>2. Moves(i, "advance", worker[i].out) /\ failure' = failure
  BY GotoMoves DEF Wake, LoopInv, WorkerPoints
<1>3. worker[i].at \in Undispatched
  BY DEF Wake, Undispatched
<1> QED BY <1>1, <1>2, <1>3, LookAccount

LEMMA BeforeEffectAccount ==
  ASSUME LoopInv, OpenInv, Clear', NEW i \in Slots, BeforeEffect(i), UNCHANGED loopVars
  PROVE  OpenAccount'
<1>1. OpenAccount /\ Clear /\ ~Stopped /\ Around /\ UNCHANGED <<run, unresolvable>> /\ worker[i].at \in Driven
  BY LookBefore, WorkerBasics DEF BeforeEffect, Driven
<1>2. CASE Goto(i, "effect") /\ UNCHANGED failure
  <2>1. Moves(i, "effect", worker[i].out)
    BY <1>2, GotoMoves DEF LoopInv, WorkerPoints
  <2> QED BY <1>1, <1>2, <2>1, DriveAccount DEF Driven
<1>3. ASSUME NEW out \in BodyFailures \cup {Cancelled}, Hold(i, "commit", out), UNCHANGED failure,
             out = Cancelled => run.cancelRequested
      PROVE  OpenAccount'
  <2>1. Moves(i, "commit", out)
    BY <1>3, BodyOutcomes, HoldMoves DEF LoopInv, WorkerPoints
  <2>2. out.status = "cancelled" => out = Cancelled
    BY DEF BodyFailures, Outcome
  <2> QED BY <1>1, <1>3, <2>1, <2>2, DriveAccount DEF Driven
<1>4. CASE run.cancelRequested /\ Hold(i, "commit", Cancelled) /\ UNCHANGED failure
  BY <1>3, <1>4
<1>5. CASE \E out \in BodyFailures : Hold(i, "commit", out) /\ UNCHANGED failure
  <2>1. Cancelled \notin BodyFailures
    BY DEF BodyFailures, Cancelled, Outcome
  <2> QED BY <1>3, <1>5, <2>1
<1> QED BY <1>1, <1>2, <1>4, <1>5 DEF BeforeEffect

LEMMA EffectAccount ==
  ASSUME LoopInv, OpenInv, Clear', NEW i \in Slots, Effect(i), UNCHANGED loopVars
  PROVE  OpenAccount'
<1>1. OpenAccount /\ Clear /\ Around /\ UNCHANGED <<run, unresolvable>> /\ worker[i].at \in Driven
  BY LookBefore, WorkerBasics DEF Effect, Driven
<1>2. Moves(i, "body", worker[i].out) /\ failure' = failure
  BY GotoMoves DEF Effect, LoopInv, WorkerPoints
<1> QED BY <1>1, <1>2, DriveAccount DEF Driven

LEMMA BodyEndsAccount ==
  ASSUME LoopInv, OpenInv, Clear', NEW i \in Slots, BodyEnds(i), UNCHANGED loopVars
  PROVE  OpenAccount'
<1>1. OpenAccount /\ Clear /\ ~Stopped /\ Around /\ UNCHANGED <<run, unresolvable>> /\ worker[i].at \in Driven
  BY LookBefore, WorkerBasics DEF BodyEnds, Driven
<1>2. ASSUME NEW out \in BodyFailures \cup {Cancelled, Outcome("succeeded", "completed", "runner")},
             Hold(i, "commit", out), UNCHANGED failure, out = Cancelled => run.cancelRequested
      PROVE  OpenAccount'
  <2>1. Moves(i, "commit", out)
    BY <1>2, BodyOutcomes, HoldMoves DEF LoopInv, WorkerPoints
  <2>2. out.status = "cancelled" => out = Cancelled
    BY DEF BodyFailures, Outcome
  <2> QED BY <1>1, <1>2, <2>1, <2>2, DriveAccount DEF Driven
<1>3. Cancelled \notin BodyFailures \cup {Outcome("succeeded", "completed", "runner")}
  BY DEF BodyFailures, Cancelled, Outcome
<1>4. CASE run.cancelRequested /\ Hold(i, "commit", Cancelled) /\ UNCHANGED failure
  BY <1>2, <1>4
<1>5. CASE \E out \in BodyFailures \cup {Outcome("succeeded", "completed", "runner")} :
             Hold(i, "commit", out) /\ UNCHANGED failure
  BY <1>2, <1>3, <1>5
<1> QED BY <1>1, <1>4, <1>5 DEF BodyEnds

LEMMA CommitTurnAccount ==
  ASSUME LoopInv, OpenInv, Clear', NEW i \in Slots, CommitTurn(i), UNCHANGED loopVars
  PROVE  OpenAccount'
<1>1. /\ OpenAccount /\ Clear /\ ~Stopped /\ Around /\ UNCHANGED <<run, unresolvable>>
      /\ worker[i].at = "commit" /\ worker[i].at \in Driven
  BY LookBefore, WorkerBasics DEF CommitTurn, Driven
<1>2. EarlierOpen(run, CallAt(i)) = {} /\ Goto(i, "finish") /\ failure' = failure
  BY <1>1 DEF CommitTurn
<1>3. Moves(i, "finish", worker[i].out)
  BY <1>2, GotoMoves DEF LoopInv, WorkerPoints
<1>4. worker[i].out.status = "cancelled" => run.cancelRequested
  BY <1>1 DEF OpenAccount, Decided
<1> QED BY <1>1, <1>2, <1>3, <1>4, DriveAccount DEF Driven

-----------------------------------------------------------------------------
\* A settled call takes nobody's turn.
LEMMA StillMayStart ==
  ASSUME RunInv(run), NEW t \in Calls, NEW status \in TerminalCall, CallSettled(run, run', t, status),
         NEW u \in Calls, u # t, MayStartTool(run, u)
  PROVE  MayStartTool(run', u)
<1>1. /\ run'.activeTools \subseteq run.activeTools
      /\ \A e \in Calls : run'.tools[e].mode = run.tools[e].mode
      /\ \A e \in Calls : e # t => run'.tools[e] = run.tools[e]
      /\ run'.tools[t].status = status
  BY DEF CallSettled, OtherCalls
<1>2. run.activeTools \subseteq Calls
  BY DEF RunInv, RunType
<1>3. EarlierSlots(u) \subseteq Calls
  BY EarlierIs
<1>4. ASSUME NEW e \in EarlierOpen(run', u)
      PROVE  e \in EarlierOpen(run, u) /\ run'.tools[e] = run.tools[e]
  <2>1. e \in EarlierSlots(u) /\ IsOpen(run'.tools[e]) /\ e \in Calls
    BY <1>3 DEF EarlierOpen
  <2>2. e # t
    BY <1>1, <2>1 DEF IsOpen, OpenCall, TerminalCall
  <2> QED BY <1>1, <2>1, <2>2 DEF EarlierOpen
<1>5. CASE run.tools[u].mode = "exclusive"
  <2>1. EarlierOpen(run', u) = {}
    BY <1>4, <1>5 DEF MayStartTool
  <2> QED BY <1>1, <1>5, <2>1 DEF MayStartTool
<1>6. CASE run.tools[u].mode # "exclusive"
  <2>1. \A e \in run'.activeTools : run'.tools[e].mode = "parallel"
    BY <1>1, <1>2, <1>6 DEF MayStartTool
  <2>2. \A e \in EarlierOpen(run', u) : run'.tools[e].mode = "parallel" /\ run'.tools[e].status = "running"
    BY <1>4, <1>6 DEF MayStartTool
  <2> QED BY <1>1, <1>6, <2>1, <2>2 DEF MayStartTool
<1> QED BY <1>5, <1>6

\* What a settlement does to the rest of the record.
LEMMA SettledBatch ==
  ASSUME RunKept, NEW t \in Calls, NEW before,
         \/ before = run
         \/ \E d \in {"cancelled", "expired"} :
              CanResolveApproval(run, t, d, "system") /\ before = ResolveApproval(run, t, d),
         NEW o, o.status \in TerminalCall, CanFinishTool(before, t, o), run' = FinishTool(before, t, o)
  PROVE  Quietly(run, run') /\ run'.blockedReason \in {run.blockedReason, "cleanup_failed"}
<1>1. IsOutcome(o, TerminalCall)
  BY AcceptedCall
<1>2. CASE before = run
  BY <1>1, <1>2, SettledQuietly DEF RunKept
<1>3. ASSUME NEW d \in {"cancelled", "expired"}, CanResolveApproval(run, t, d, "system"), before = ResolveApproval(run, t, d)
      PROVE  Quietly(run, run') /\ run'.blockedReason \in {run.blockedReason, "cleanup_failed"}
  <2>1. RunInv(before)
    BY <1>3, ResolveApprovalInv DEF RunKept
  <2>2. Quietly(run, before) /\ before.blockedReason = run.blockedReason
    BY <1>3, DecidedQuietly DEF RunKept
  <2>3. Quietly(before, run') /\ run'.blockedReason \in {before.blockedReason, "cleanup_failed"}
    BY <1>1, <2>1, SettledQuietly
  <2> QED BY <2>2, <2>3 DEF Quietly
<1> QED BY <1>2, <1>3

\* A settlement the store accepts.
LEMMA SettledAccount ==
  ASSUME LoopInv, OpenInv, Clear', NEW i \in Slots, Busy(i), Around, UNCHANGED unresolvable,
         NEW before,
         \/ before = run
         \/ \E d \in {"cancelled", "expired"} :
              CanResolveApproval(run, CallAt(i), d, "system") /\ before = ResolveApproval(run, CallAt(i), d),
         NEW o, o.status \in TerminalCall, CanFinishTool(before, CallAt(i), o),
         run' = FinishTool(before, CallAt(i), o), Goto(i, "done"), UNCHANGED failure
  PROVE  OpenAccount'
<1> DEFINE t == CallAt(i)
<1>1. RunKept /\ RunInv(run) /\ t \in Calls /\ run.activeStep # 0
  BY OpenStepIs DEF LoopInv, RunKept, BusyWhere
<1>2. Moves(i, "done", worker[i].out)
  BY GotoMoves DEF LoopInv, WorkerPoints
<1>3. /\ RunKept' /\ CallSettled(run, run', t, o.status)
      /\ IsOpen(run.tools[t]) /\ EarlierOpen(run, t) = {}
  <2> HIDE DEF t
  <2> QED BY <1>1, SettledRun DEF t
<1>4. Quietly(run, run') /\ run'.blockedReason \in {run.blockedReason, "cleanup_failed"}
  <2> HIDE DEF t
  <2> QED BY <1>1, SettledBatch DEF t
<1>5. OtherCalls(run, run', t) /\ run'.activeTools = run.activeTools \ {t} /\ run'.tools[t].status = o.status
      /\ \/ run'.approvals[t] = run.approvals[t]
         \/ run.approvals[t] = "pending"
  BY <1>3 DEF CallSettled
<1>6. OpenAccount /\ Clear
  BY <1>2, <1>5, WorkerClear
<1>7. Turn'
  <2>1. SUFFICES ASSUME NEW j \in Slots, worker'[j].at \in Undispatched
                 PROVE  /\ IsOpen(run'.tools[CallAt(j)']) /\ run'.tools[CallAt(j)'].status # "running"
                        /\ MayStartTool(run', CallAt(j)')
    BY DEF Turn
  <2>2. j # i /\ worker[j] = worker[j]'
    BY <1>2, <2>1 DEF Moves, Undispatched
  <2>3. CallAt(j)' = CallAt(j) /\ CallAt(j) \in Calls /\ CallAt(j) # t
    BY <1>1, <1>5, <2>2, OpenStepIs DEF OtherCalls, CallAt
  <2>4. /\ IsOpen(run.tools[CallAt(j)]) /\ run.tools[CallAt(j)].status # "running"
        /\ MayStartTool(run, CallAt(j))
    BY <1>6, <2>1, <2>2 DEF OpenAccount, Turn
  <2>5. MayStartTool(run', CallAt(j))
    <3> HIDE DEF t
    <3> QED BY <1>1, <1>3, <2>3, <2>4, StillMayStart
  <2> QED BY <1>5, <2>3, <2>4, <2>5 DEF OtherCalls
<1>8. ~IsOpen(run'.tools[t]) /\ run'.tools[t].status \notin {"absent", "waiting_for_approval"}
  BY <1>5 DEF IsOpen, OpenCall, TerminalCall
<1>9. run'.approvals[t] # "pending"
  BY <1>1, <1>3, <1>8 DEF RunKept, RunInv, ActiveSetsAgree
<1>10. run'.approvals[t] # "absent" => run.tools[t].gated
  BY <1>1, <1>5, <1>6 DEF OpenAccount, GatesKnown
<1>11. "done" \notin Undispatched
  BY DEF Undispatched
<1>12. i \in unresolvable => run'.approvals[t] = "absent"
  BY <1>1, <1>5, <1>6 DEF OpenAccount, GatesKnown, LoopInv, BusyWhere
<1> QED BY <1>2, <1>4, <1>5, <1>6, <1>7, <1>8, <1>9, <1>10, <1>11, <1>12, WorkerAccount

\* A gated call, or one the registry refuses, is exclusive, so its turn is behind every earlier call.
LEMMA ExclusiveTurn ==
  ASSUME LoopInv, OpenAccount, Clear, NEW i \in Slots, worker[i].at \in Undispatched,
         run.tools[CallAt(i)].gated \/ run.approvals[CallAt(i)] # "absent" \/ i \in unresolvable
  PROVE  /\ NextTool(run, CallAt(i)) /\ run.activeTools = {} /\ run.tools[CallAt(i)].status # "running"
         /\ EarlierOpen(run, CallAt(i)) = {}
<1>1. Busy(i)
  BY DEF Busy, Undispatched
<1>2. /\ run.activeStep # 0 /\ CallAt(i) \in Calls /\ CallAt(i)[1] = run.activeStep
      /\ run.steps[run.activeStep] = "running" /\ IsOpen(run.tools[CallAt(i)])
  BY <1>1, WorkerPlace DEF LoopInv, BusyWhere
<1>3. run.tools[CallAt(i)].mode = "exclusive"
  BY <1>2 DEF OpenAccount, GatesKnown
<1>4. MayStartTool(run, CallAt(i)) /\ run.tools[CallAt(i)].status # "running"
  BY DEF OpenAccount, Turn
<1> QED BY <1>2, <1>3, <1>4 DEF MayStartTool, NextTool

\* Before a settlement of a call still to dispatch, nothing was left unsaved either.
LEMMA SettleBefore ==
  ASSUME LoopInv, OpenInv, Clear', NEW i \in Slots, Busy(i), Around,
         NEW before,
         \/ before = run
         \/ \E d \in {"cancelled", "expired"} :
              CanResolveApproval(run, CallAt(i), d, "system") /\ before = ResolveApproval(run, CallAt(i), d),
         NEW o, o.status \in TerminalCall, Settle(i, before, o)
  PROVE  OpenAccount /\ Clear
<1> DEFINE t == CallAt(i)
<1>1. RunKept /\ t \in Calls
  BY OpenStepIs DEF LoopInv, BusyWhere
<1>2. CASE CanFinishTool(before, t, o)
  <2>1. run' = FinishTool(before, t, o) /\ Goto(i, "done")
    BY <1>2 DEF Settle
  <2>2. CallSettled(run, run', t, o.status)
    <3> HIDE DEF t
    <3> QED BY <1>1, <1>2, <2>1, SettledRun DEF t
  <2>3. Moves(i, "done", worker[i].out)
    BY <2>1, GotoMoves DEF LoopInv, WorkerPoints
  <2> QED BY <2>2, <2>3, WorkerClear DEF CallSettled
<1>3. CASE ~CanFinishTool(before, t, o)
  <2>1. Goto(i, "failed") /\ UNCHANGED run
    BY <1>3 DEF Settle, Fail
  <2>2. Moves(i, "failed", worker[i].out)
    BY <2>1, GotoMoves DEF LoopInv, WorkerPoints
  <2> QED BY <2>1, <2>2, WorkerClear
<1> QED BY <1>2, <1>3

-----------------------------------------------------------------------------
\* A call not dispatched may always be cancelled, refused or rejected, unless an earlier sibling still runs.
LEMMA CancelSettleAccount ==
  ASSUME LoopInv, OpenInv, Clear', NEW i \in Slots, Busy(i), Around, UNCHANGED unresolvable,
         worker[i].at = "cancel", Settle(i, Resolved(CallAt(i), "cancelled"), Cancelled)
  PROVE  OpenAccount'
<1> DEFINE t == CallAt(i)
           before == Resolved(t, "cancelled")
<1>1. run.cancelRequested /\ RunKept /\ RunInv(run) /\ run.activeStep # 0 /\ t \in Calls
  BY OpenStepIs DEF LoopInv, Owned, RunKept, BusyWhere
<1>2. /\ before = run \/ (CanResolveApproval(run, t, "cancelled", "system") /\ before = ResolveApproval(run, t, "cancelled"))
      /\ run.approvals[t] # "pending" => before = run
      /\ run.approvals[t] = "pending" => before = ResolveApproval(run, t, "cancelled")
  <2>1. CASE run.approvals[t] = "pending"
    <3>1. IsOpen(run.tools[t])
      BY <1>1, <2>1 DEF RunInv, ActiveSetsAgree, IsOpen, OpenCall
    <3> QED BY <1>1, <2>1, <3>1 DEF CanResolveApproval, Resolved
  <2>2. CASE run.approvals[t] # "pending"
    BY <2>2 DEF Resolved
  <2> QED BY <2>1, <2>2
<1>3. Cancelled.status = "cancelled" /\ Cancelled.reason = "cancel_requested" /\ Cancelled.origin = "runner"
      /\ Cancelled.status \in TerminalCall
  BY OutcomesAre DEF TerminalCall
<1> HIDE DEF t, before
<1>4. OpenAccount /\ Clear
  BY <1>2, <1>3, SettleBefore DEF t, before
<1>5. worker[i].at \in Undispatched
  BY DEF Undispatched
<1>6. /\ IsOpen(run.tools[t]) /\ run.tools[t].status # "running" /\ run.steps[t[1]] = "running" /\ run.activeStep = t[1]
  BY <1>4, <1>5, WorkerPlace DEF OpenAccount, Turn, t
<1>7. \/ before = run /\ run.approvals[t] # "pending"
      \/ CallDecided(run, before, t, "cancelled") /\ EarlierOpen(run, t) = {}
  <2>1. CASE run.approvals[t] # "pending"
    BY <1>2, <2>1
  <2>2. CASE run.approvals[t] = "pending"
    <3>1. CallDecided(run, before, t, "cancelled")
      BY <1>1, <1>2, <2>2, DecidedEvent
    <3>2. EarlierOpen(run, t) = {}
      BY <1>4, <1>5, <2>2, ExclusiveTurn DEF t
    <3> QED BY <3>1, <3>2
  <2> QED BY <2>1, <2>2
<1>8. /\ before.approvals[t] # "pending" /\ before.tools[t].status # "running" /\ IsOpen(before.tools[t])
      /\ before.steps[t[1]] = "running" /\ before.activeStep = t[1] /\ before.cancelRequested
      /\ EarlierOpen(before, t) = EarlierOpen(run, t)
  <2>1. CASE before = run /\ run.approvals[t] # "pending"
    BY <1>1, <1>6, <2>1
  <2>2. CASE CallDecided(run, before, t, "cancelled")
    <3>1. \A u \in EarlierSlots(t) : u \in Calls /\ u # t
      BY <1>1, EarlierIs DEF Calls, Slots
    <3>2. \A u \in EarlierSlots(t) : before.tools[u] = run.tools[u]
      BY <2>2, <3>1 DEF CallDecided, OtherCalls
    <3>3. EarlierOpen(before, t) = EarlierOpen(run, t)
      BY <3>2 DEF EarlierOpen
    <3> QED BY <1>1, <1>6, <2>2, <3>3 DEF CallDecided, OtherCalls, IsOpen
  <2> QED BY <1>7, <2>1, <2>2
<1>9. TerminalSemantics(before, Cancelled)
  BY <1>3, <1>8 DEF TerminalSemantics
<1>10. CASE EarlierOpen(run, t) = {}
  <2>1. CanFinishTool(before, t, Cancelled)
    BY <1>3, <1>8, <1>9, <1>10 DEF CanFinishTool, NextTool
  <2>2. run' = FinishTool(before, CallAt(i), Cancelled) /\ Goto(i, "done") /\ UNCHANGED failure
    BY <2>1 DEF Settle, t, before
  <2>3. \/ before = run
        \/ \E d \in {"cancelled", "expired"} :
             CanResolveApproval(run, CallAt(i), d, "system") /\ before = ResolveApproval(run, CallAt(i), d)
    BY <1>2 DEF t
  <2> QED BY <1>3, <2>1, <2>2, <2>3, SettledAccount DEF t
<1>11. CASE EarlierOpen(run, t) # {}
  <2>1. ~NextTool(before, t)
    BY <1>8, <1>11 DEF NextTool
  <2>2. Fail(i, "tool-order") /\ UNCHANGED run
    BY <2>1 DEF Settle, CanFinishTool, t, before
  <2>3. run.approvals[t] # "pending"
    BY <1>7, <1>11
  <2>4. pc # "sweeping"
    <3>1. pc = "sweeping" => i = next - 1
      BY <1>4, WorkerPlace
    <3> QED BY <1>4, <1>11, <3>1 DEF OpenAccount, Crew, t
  <2>5. Refusal("tool-order")
    BY <1>1 DEF Refusal
  <2> QED BY <1>4, <2>2, <2>3, <2>4, <2>5, RefusedAccount DEF t
<1> QED BY <1>10, <1>11

LEMMA SettleUndispatchedAccount ==
  ASSUME LoopInv, OpenInv, Clear', NEW i \in Slots, SettleUndispatched(i), UNCHANGED loopVars
  PROVE  OpenAccount'
<1> DEFINE t == CallAt(i)
           denied == Outcome("denied", run.approvals[t], "runner")
           failed == Outcome("failed", "validation_failed", "runner")
<1>1. Busy(i) /\ worker[i].at \in Undispatched /\ Around /\ UNCHANGED unresolvable
  BY DEF SettleUndispatched, Busy, Undispatched, Around, loopVars
<1>2. /\ denied.status = "denied" /\ denied.reason = run.approvals[t] /\ denied.origin = "runner"
      /\ failed.status = "failed" /\ failed.reason = "validation_failed" /\ failed.origin = "runner"
      /\ denied.status \in TerminalCall /\ failed.status \in TerminalCall
  BY DEF Outcome, TerminalCall
<1> HIDE DEF denied, failed, t
<1>3. CASE worker[i].at = "cancel" /\ Settle(i, Resolved(t, "cancelled"), Cancelled)
  BY <1>1, <1>3, CancelSettleAccount DEF t
<1>4. CASE worker[i].at = "refuse" /\ Settle(i, run, denied)
  <2>1. OpenAccount /\ Clear
    BY <1>1, <1>2, <1>4, SettleBefore
  <2>2. run.approvals[t] \in {"denied", "expired"}
    BY <1>4, <2>1 DEF OpenAccount, Decided, t
  <2>3. NextTool(run, t) /\ run.tools[t].status # "running"
    BY <1>1, <2>1, <2>2, ExclusiveTurn DEF t
  <2>4. CanFinishTool(run, t, denied)
    BY <1>2, <2>2, <2>3 DEF CanFinishTool, TerminalSemantics
  <2>5. run' = FinishTool(run, t, denied) /\ Goto(i, "done") /\ UNCHANGED failure
    BY <1>4, <2>4 DEF Settle, t
  <2> QED BY <1>1, <1>2, <2>4, <2>5, SettledAccount DEF t
<1>5. CASE worker[i].at = "reject" /\ Settle(i, run, failed)
  <2>1. OpenAccount /\ Clear
    BY <1>1, <1>2, <1>5, SettleBefore
  <2>2. i \in unresolvable
    BY <1>5, <2>1 DEF OpenAccount, Decided
  <2>3. NextTool(run, t) /\ run.tools[t].status # "running"
    BY <1>1, <2>1, <2>2, ExclusiveTurn DEF t
  <2>4. run.approvals[t] # "pending"
    <3>1. t \in Calls /\ run.activeStep # 0
      BY <1>1, <2>1, WorkerPlace DEF LoopInv, BusyWhere, t
    <3> QED BY <2>1, <2>2, <3>1 DEF OpenAccount, GatesKnown, t
  <2>5. CanFinishTool(run, t, failed)
    BY <1>2, <2>3, <2>4, ReasonsAssumption DEF CanFinishTool, TerminalSemantics
  <2>6. run' = FinishTool(run, t, failed) /\ Goto(i, "done") /\ UNCHANGED failure
    BY <1>5, <2>5 DEF Settle, t
  <2> QED BY <1>1, <1>2, <2>5, <2>6, SettledAccount DEF t
<1> QED BY <1>3, <1>4, <1>5 DEF SettleUndispatched, t, denied, failed

LEMMA ExpireAccount ==
  ASSUME LoopInv, OpenInv, Clear', NEW i \in Slots, Expire(i), UNCHANGED loopVars
  PROVE  OpenAccount'
<1> DEFINE t == CallAt(i)
           before == ResolveApproval(run, t, "expired")
           denied == Outcome("denied", "expired", "runner")
<1>1. Busy(i) /\ worker[i].at = "expire" /\ worker[i].at \in Undispatched /\ Around /\ UNCHANGED unresolvable
  BY DEF Expire, Busy, Undispatched, Around, loopVars
<1>2. denied.status = "denied" /\ denied.reason = "expired" /\ denied.origin = "runner" /\ denied.status \in TerminalCall
  BY DEF Outcome, TerminalCall
<1>3. RunKept /\ RunInv(run) /\ run.activeStep # 0 /\ t \in Calls
  BY <1>1, OpenStepIs DEF LoopInv, RunKept, BusyWhere
<1>4. \/ CanResolveApproval(run, t, "expired", "system") /\ Settle(i, before, denied)
      \/ Goto(i, "advance") /\ UNCHANGED <<run, failure>>
  BY DEF Expire
<1> HIDE DEF denied, t, before
<1>5. CASE CanResolveApproval(run, t, "expired", "system") /\ Settle(i, before, denied)
  <2>1. \E d \in {"cancelled", "expired"} :
          CanResolveApproval(run, CallAt(i), d, "system") /\ before = ResolveApproval(run, CallAt(i), d)
    BY <1>5 DEF t, before
  <2>2. OpenAccount /\ Clear
    BY <1>1, <1>2, <1>5, <2>1, SettleBefore
  <2>3. run.approvals[t] = "pending"
    BY <1>5 DEF CanResolveApproval
  <2>4. NextTool(run, t) /\ EarlierOpen(run, t) = {} /\ run.tools[t].status # "running"
    BY <1>1, <2>2, <2>3, ExclusiveTurn DEF t
  <2>5. CallDecided(run, before, t, "expired")
    BY <1>3, DecidedEvent DEF before
  <2>6. EarlierOpen(before, t) = {}
    <3>1. \A u \in EarlierSlots(t) : u \in Calls /\ u # t
      BY <1>3, EarlierIs DEF Calls, Slots
    <3>2. \A u \in EarlierSlots(t) : before.tools[u] = run.tools[u]
      BY <2>5, <3>1 DEF CallDecided, OtherCalls
    <3> QED BY <2>4, <3>2 DEF EarlierOpen
  <2>7. CanFinishTool(before, t, denied)
    BY <1>2, <2>4, <2>5, <2>6 DEF CanFinishTool, NextTool, TerminalSemantics, CallDecided, OtherCalls, IsOpen
  <2>8. run' = FinishTool(before, CallAt(i), denied) /\ Goto(i, "done") /\ UNCHANGED failure
    BY <1>5, <2>7 DEF Settle, t
  <2> QED BY <1>1, <1>2, <2>1, <2>7, <2>8, SettledAccount DEF t
<1>6. CASE Goto(i, "advance") /\ UNCHANGED <<run, failure>>
  <2>1. Moves(i, "advance", worker[i].out)
    BY <1>6, GotoMoves DEF LoopInv, WorkerPoints
  <2>2. OpenAccount /\ Clear
    BY <1>1, <1>6, <2>1, WorkerClear
  <2> QED BY <1>1, <1>6, <2>1, <2>2, LookAccount
<1> QED BY <1>4, <1>5, <1>6

LEMMA FinishCallAccount ==
  ASSUME LoopInv, OpenInv, Clear', NEW i \in Slots, Finish(i), UNCHANGED loopVars
  PROVE  OpenAccount'
<1> DEFINE t == CallAt(i)
           o == worker[i].out
<1>1. Busy(i) /\ worker[i].at = "finish" /\ Around /\ UNCHANGED unresolvable
  BY DEF Finish, Busy, Around, loopVars
<1>2. o \in WorkerOutcomes /\ o # NoOutcome
  BY <1>1 DEF LoopInv, LoopType, Owned
<1>3. /\ o.status \in {"succeeded", "failed", "cancelled"} /\ o.origin = "runner"
      /\ o.status = "succeeded" => o.reason = "completed"
      /\ o.status = "cancelled" => o.reason = "cancel_requested"
      /\ o.status = "failed" => o.reason \in {"failed", "cleanup_failed"}
  BY <1>2 DEF WorkerOutcomes, Cancelled, Outcome
<1>4. o.status \in TerminalCall
  BY <1>3 DEF TerminalCall
<1>5. t \in run.activeTools /\ t[2] = i
  BY <1>1, OpenStepIs DEF LoopInv, Owned, Driven, BusyWhere
<1> HIDE DEF t, o
<1>6. CASE Settle(i, run, o)
  <2>1. OpenAccount /\ Clear
    BY <1>1, <1>4, <1>6, SettleBefore
  <2>2. EarlierOpen(run, t) = {} /\ (o.status = "cancelled" => run.cancelRequested)
    BY <1>1, <2>1 DEF OpenAccount, Decided, t, o
  <2>3. /\ run.tools[t].status = "running" /\ IsOpen(run.tools[t]) /\ t \in Calls
        /\ run.steps[t[1]] = "running" /\ run.activeStep = t[1]
    <3>1. run.tools[t].status = "running"
      BY <1>5, ActiveCall DEF LoopInv
    <3> QED BY <1>1, <2>1, <3>1, WorkerPlace DEF t
  <2>4. run.approvals[t] # "pending"
    BY <1>5, <2>3 DEF LoopInv, RunKept, RunInv, OneKindOpen, PendingApproval
  <2>5. TerminalSemantics(run, o)
    BY <1>3, <2>2, ReasonsAssumption, FailedAssumption DEF TerminalSemantics
  <2>6. o.status # "denied" /\ o.reason # "validation_failed"
    BY <1>3
  <2>7. CanFinishTool(run, t, o)
    BY <1>5, <2>2, <2>3, <2>4, <2>5, <2>6 DEF CanFinishTool, NextTool
  <2>8. run' = FinishTool(run, t, o) /\ Goto(i, "done") /\ UNCHANGED failure
    BY <1>6, <2>7 DEF Settle, t
  <2> QED BY <1>1, <1>4, <2>7, <2>8, SettledAccount DEF t
<1>7. CASE Fail(i, "write_refused") /\ UNCHANGED run
  <2>1. Moves(i, "failed", worker[i].out)
    BY <1>7, GotoMoves DEF Fail, LoopInv, WorkerPoints
  <2>2. Unsaved'
    BY <1>5, <1>7, <2>1 DEF Unsaved, Moves
  <2> QED BY <2>2 DEF Clear
<1> QED BY <1>6, <1>7 DEF Finish, o

-----------------------------------------------------------------------------
\* The dispatches.  A worker about to ask or to start does so in a run nothing but a cancellation or a failed cleanup stops.
LEMMA DispatchPlace ==
  ASSUME LoopInv, OpenAccount, Clear, NEW i \in Slots, worker[i].at \in {"ask", "start"}
  PROVE  /\ pc \in InTools /\ pc # "sweeping"
         /\ ~run.cancelRequested /\ run.blockedReason # "cleanup_failed" => Dispatchable(run)
         /\ run.approvals[CallAt(i)] # "pending" /\ ~PendingApproval(run) /\ run.activeRequest = NoRequest
         /\ run.tools[CallAt(i)].status = "created" /\ MayStartTool(run, CallAt(i))
<1>1. Busy(i) /\ worker[i].at \in Undispatched
  BY DEF Busy, Undispatched
<1>2. /\ pc \in InTools \cup {"sweeping"} /\ (pc = "sweeping" => i = next - 1)
      /\ CallAt(i) \in Calls /\ NothingOpen
  BY <1>1, WorkerPlace
<1>3. pc \in InTools /\ pc # "sweeping"
  BY <1>2 DEF OpenAccount, Crew, InTools
<1>4. run.blockedReason \in {NoReason, "cleanup_failed"} /\ pc # "ended"
  BY <1>3 DEF OpenAccount, Unblocked, InTools
<1>5. run.approvals[CallAt(i)] \notin {"denied", "expired", "pending"}
  BY DEF OpenAccount, Decided
<1>6. ~PendingApproval(run)
  BY <1>1, <1>5, PendingIsOwn
<1>7. /\ IsOpen(run.tools[CallAt(i)]) /\ run.tools[CallAt(i)].status # "running" /\ MayStartTool(run, CallAt(i))
  BY <1>1 DEF OpenAccount, Turn
<1>8. run.tools[CallAt(i)].status # "waiting_for_approval"
  BY <1>2, <1>5 DEF OpenAccount, GatesKnown
<1>9. run.tools[CallAt(i)].status = "created"
  BY <1>7, <1>8 DEF IsOpen, OpenCall
<1> QED BY <1>2, <1>3, <1>4, <1>5, <1>6, <1>7, <1>9, MayDispatch DEF NothingOpen

\* Once the undispatched worker has moved, no other is undispatched.
LEMMA OthersDispatched ==
  ASSUME LoopInv, OpenAccount, Clear, NEW i \in Slots, worker[i].at \in Undispatched, NEW at, NEW out, Moves(i, at, out),
         NEW j \in Slots, worker'[j].at \in Undispatched
  PROVE  j = i
BY OneUndispatched DEF Moves

LEMMA AskAccount ==
  ASSUME LoopInv, OpenInv, Clear', NEW i \in Slots, Ask(i), UNCHANGED loopVars
  PROVE  OpenAccount'
<1> DEFINE t == CallAt(i)
<1>1. Busy(i) /\ worker[i].at = "ask" /\ worker[i].at \in Undispatched /\ Around /\ UNCHANGED unresolvable
  BY DEF Ask, Busy, Undispatched, Around, loopVars
<1>2. RunKept /\ RunInv(run) /\ run.activeStep # 0 /\ t \in Calls
  BY <1>1, OpenStepIs DEF LoopInv, RunKept, BusyWhere
<1>3. PICK v \in Verdicts(CanRequestApproval(run, t)) :
          IF v = "accepted"
          THEN run' = RequestApproval(run, t) /\ due' = FALSE /\ Goto(i, "waiting") /\ UNCHANGED failure
          ELSE Fail(i, v) /\ UNCHANGED <<run, due>>
  BY DEF Ask
<1>4. CASE v # "accepted"
  <2>1. Moves(i, "failed", worker[i].out) /\ UNCHANGED run /\ Fail(i, v)
    BY <1>3, <1>4, GotoMoves DEF Fail, LoopInv, WorkerPoints
  <2>2. OpenAccount /\ Clear
    BY <1>1, <2>1, WorkerClear
  <2>3. run.tools[t].gated /\ run.approvals[t] = "absent"
    BY <1>1, <2>2 DEF OpenAccount, Decided
  <2>4. /\ pc # "sweeping" /\ ~PendingApproval(run) /\ run.tools[t].status = "created"
        /\ ~run.cancelRequested /\ run.blockedReason # "cleanup_failed" => Dispatchable(run)
    BY <1>1, <2>2, DispatchPlace
  <2>5. NextTool(run, t) /\ run.activeTools = {}
    BY <1>1, <2>2, <2>3, ExclusiveTurn
  <2>6. ~run.cancelRequested /\ run.blockedReason # "cleanup_failed" => CanRequestApproval(run, t)
    BY <2>3, <2>4, <2>5 DEF CanRequestApproval
  <2>7. v # "none" /\ Refusal(v)
    <3> HIDE DEF t
    <3> QED BY <1>4, <2>6, RefusedVerdict
  <2> QED BY <1>1, <2>1, <2>2, <2>3, <2>4, <2>7, RefusedAccount
<1>5. CASE v = "accepted"
  <2>1. CanRequestApproval(run, t) /\ run' = RequestApproval(run, t) /\ Goto(i, "waiting") /\ failure' = failure
    BY <1>3, <1>5, VerdictAccepted
  <2>2. CallAsked(run, run', t) /\ Quietly(run, run') /\ run'.blockedReason = run.blockedReason
    <3> HIDE DEF t
    <3> QED BY <1>2, <2>1, AskedEvent, AskedQuietly
  <2>3. Moves(i, "waiting", worker[i].out)
    BY <2>1, GotoMoves DEF LoopInv, WorkerPoints
  <2>4. OtherCalls(run, run', t) /\ run'.activeTools = run.activeTools
        /\ run'.tools[t].status = "waiting_for_approval" /\ run'.approvals[t] = "pending"
    BY <2>2 DEF CallAsked
  <2>5. OpenAccount /\ Clear
    BY <1>1, <2>3, <2>4, WorkerClear
  <2>6. run.tools[t].gated /\ run.tools[t].mode = "exclusive" /\ i \notin unresolvable
    BY <1>1, <1>2, <2>5 DEF OpenAccount, Decided, GatesKnown
  <2>7. EarlierOpen(run, t) = {} /\ run.activeTools = {}
    BY <1>1, <2>5, <2>6, ExclusiveTurn
  <2>8. Turn'
    <3>1. CallAt(i)' = t
      BY <2>4 DEF OtherCalls, CallAt
    <3>2. EarlierOpen(run', t) = {}
      <4>1. \A u \in EarlierSlots(t) : u \in Calls /\ u # t
        BY <1>2, EarlierIs DEF Calls, Slots
      <4>2. \A u \in EarlierSlots(t) : run'.tools[u] = run.tools[u]
        BY <2>4, <4>1 DEF OtherCalls
      <4> QED BY <2>7, <4>2 DEF EarlierOpen
    <3>3. MayStartTool(run', t)
      BY <2>4, <2>6, <2>7, <3>2 DEF MayStartTool, OtherCalls
    <3>4. \A j \in Slots : worker'[j].at \in Undispatched => j = i
      BY <1>1, <2>3, <2>5, OthersDispatched
    <3> QED BY <2>4, <3>1, <3>3, <3>4 DEF Turn, IsOpen, OpenCall
  <2>9. pc # "sweeping"
    BY <1>1, <2>5, DispatchPlace
  <2>10. "waiting" \notin {"refuse", "reject", "ask", "start", "finish", "commit", "idle", "done", "failed"}
    OBVIOUS
  <2> HIDE DEF t
  <2>11. /\ run'.tools[t].status # "absent"
         /\ run'.tools[t].status = "waiting_for_approval" => run'.approvals[t] \in {"pending", "denied", "expired"}
         /\ run'.approvals[t] # "cancelled" /\ run'.approvals[t] = "pending"
    BY <2>4
  <2> QED BY <1>1, <2>1, <2>2, <2>3, <2>4, <2>5, <2>6, <2>8, <2>9, <2>10, <2>11, WorkerAccount DEF t
<1> QED BY <1>4, <1>5

LEMMA StartCallAccount ==
  ASSUME LoopInv, OpenInv, Clear', NEW i \in Slots, Start(i), UNCHANGED loopVars
  PROVE  OpenAccount'
<1> DEFINE t == CallAt(i)
<1>1. Busy(i) /\ worker[i].at = "start" /\ worker[i].at \in Undispatched /\ Around /\ UNCHANGED unresolvable
  BY DEF Start, Busy, Undispatched, Around, loopVars
<1>2. RunKept /\ RunInv(run) /\ run.activeStep # 0 /\ t \in Calls
  BY <1>1, OpenStepIs DEF LoopInv, RunKept, BusyWhere
<1>3. PICK v \in Verdicts(CanStartTool(run, t)) :
          IF v = "accepted"
          THEN run' = StartTool(run, t) /\ Goto(i, "before") /\ UNCHANGED failure
          ELSE Fail(i, v) /\ UNCHANGED run
  BY DEF Start
<1>4. CASE v # "accepted"
  <2>1. Moves(i, "failed", worker[i].out) /\ UNCHANGED run /\ Fail(i, v)
    BY <1>3, <1>4, GotoMoves DEF Fail, LoopInv, WorkerPoints
  <2>2. OpenAccount /\ Clear
    BY <1>1, <2>1, WorkerClear
  <2>3. run.tools[t].gated => run.approvals[t] = "allowed"
    BY <1>1, <2>2 DEF OpenAccount, Decided
  <2>4. /\ pc # "sweeping" /\ ~PendingApproval(run) /\ run.tools[t].status = "created" /\ run.approvals[t] # "pending"
        /\ ~run.cancelRequested /\ run.blockedReason # "cleanup_failed" => Dispatchable(run)
        /\ run.activeRequest = NoRequest /\ MayStartTool(run, t)
    BY <1>1, <2>2, DispatchPlace
  <2>5. ~run.cancelRequested /\ run.blockedReason # "cleanup_failed" => CanStartTool(run, t)
    BY <2>3, <2>4 DEF CanStartTool
  <2>6. v # "none" /\ Refusal(v)
    <3> HIDE DEF t
    <3> QED BY <1>4, <2>5, RefusedVerdict
  <2> QED BY <1>1, <2>1, <2>2, <2>4, <2>6, RefusedAccount
<1>5. CASE v = "accepted"
  <2>1. CanStartTool(run, t) /\ run' = StartTool(run, t) /\ Goto(i, "before") /\ failure' = failure
    BY <1>3, <1>5, VerdictAccepted
  <2>2. CallStarted(run, run', t) /\ Quietly(run, run') /\ run'.blockedReason = run.blockedReason
    <3> HIDE DEF t
    <3> QED BY <1>2, <2>1, StartedEvent, StartedQuietly
  <2>3. Moves(i, "before", worker[i].out)
    BY <2>1, GotoMoves DEF LoopInv, WorkerPoints
  <2>4. /\ OtherCalls(run, run', t) /\ run'.activeTools = run.activeTools \cup {t}
        /\ run'.tools[t].status = "running" /\ run'.approvals[t] = run.approvals[t]
    BY <2>2 DEF CallStarted
  <2>5. OpenAccount /\ Clear
    BY <1>1, <2>3, <2>4, WorkerClear
  <2>6. Turn'
    <3>1. \A j \in Slots : worker'[j].at \notin Undispatched
      <4>1. \A j \in Slots : worker'[j].at \in Undispatched => j = i
        BY <1>1, <2>3, <2>5, OthersDispatched
      <4> QED BY <2>3, <4>1 DEF Moves, Undispatched
    <3> QED BY <3>1 DEF Turn
  <2>7. pc # "sweeping" /\ run'.approvals[t] # "pending"
    BY <1>1, <2>4, <2>5, DispatchPlace
  <2>8. "before" \notin Undispatched \cup {"refuse", "reject", "ask", "start", "finish", "commit", "idle", "done", "failed"}
    BY DEF Undispatched
  <2>9. /\ run'.approvals[t] # "absent" => run.tools[t].gated
        /\ IsOpen(run.tools[t]) => run.approvals[t] # "cancelled"
        /\ i \in unresolvable => run'.approvals[t] = "absent"
    BY <1>2, <2>4, <2>5 DEF OpenAccount, GatesKnown
  <2>10. IsOpen(run.tools[t])
    BY <2>1 DEF CanStartTool, IsOpen, OpenCall
  <2> HIDE DEF t
  <2>11. /\ run'.tools[t].status # "absent" /\ run'.tools[t].status # "waiting_for_approval"
         /\ run'.approvals[t] # "cancelled"
    BY <2>4, <2>9, <2>10
  <2> QED BY <1>1, <2>1, <2>2, <2>3, <2>4, <2>5, <2>6, <2>7, <2>8, <2>9, <2>11, WorkerAccount DEF t
<1> QED BY <1>4, <1>5

-----------------------------------------------------------------------------
\* Everybody else.  The run stays, or only its cancellation is recorded.
LEMMA AsideAccount ==
  ASSUME LoopInv, OpenAccount, UNCHANGED <<worker, unresolvable, failure, loopVars>>, Stopped' = Stopped,
         SameCalls(run, run'), control' = "cancel_requested" => run'.cancelRequested,
         run'.blockedReason = run.blockedReason, run'.requests = run.requests, run'.userMessage = run.userMessage,
         run'.activeRequest = run.activeRequest, run'.activeCompaction = run.activeCompaction, run'.compaction = run.compaction,
         pc # "ended" => run'.status = Activity(run'),
         run'.status \notin TerminalStatus => run.status \notin TerminalStatus
  PROVE  OpenAccount'
<1>1. /\ run'.activeStep = run.activeStep /\ run'.steps = run.steps /\ run'.activeTools = run.activeTools
      /\ run'.tools = run.tools /\ run'.approvals = run.approvals /\ (run.cancelRequested => run'.cancelRequested)
      /\ UNCHANGED <<pc, answer, compacted, next, goal, error, caught>> /\ (\A i : CallAt(i)' = CallAt(i))
      /\ NextStep' = NextStep /\ OpenSteps' = OpenSteps
  BY SameSteps DEF SameCalls, loopVars, CallAt, OpenSteps
<1>2. \A k : LastRequest(run', k) = LastRequest(run, k)
  BY DEF LastRequest, LastAttempt
<1>3. \A t : EarlierOpen(run', t) = EarlierOpen(run, t) /\ (MayStartTool(run, t) => MayStartTool(run', t))
  BY <1>1 DEF EarlierOpen, MayStartTool
<1>4. StepsInOrder'
  BY <1>1, <1>2 DEF OpenAccount, StepsInOrder
<1>5. RunOpen' /\ NothingElseOpen'
  BY <1>1 DEF OpenAccount, RunOpen, NothingElseOpen
<1>6. Unblocked'
  <2>1. LastAttempt(run', run'.activeStep) = LastAttempt(run, run.activeStep)
    BY <1>1 DEF LastAttempt
  <2> QED BY <1>1, <2>1 DEF OpenAccount, Unblocked
<1>7. RequestsKnown'
  <2>1. Overflowed => Overflowed'
    BY <1>1 DEF Overflowed
  <2>2. Trigger' = Trigger
    BY <1>1 DEF Trigger
  <2>3. NextAttempt' = NextAttempt
    BY <1>1 DEF NextAttempt
  <2>4. Answers(answer) => Answers(answer)'
    BY <1>1 DEF Answers
  <2>5. ValidAttempt(run, run.activeStep, NextAttempt) => ValidAttempt(run', run'.activeStep, NextAttempt')
    BY <1>1, <2>3 DEF ValidAttempt
  <2>6. LastRequest(run', run'.activeStep) = LastRequest(run, run.activeStep)
    BY <1>1, <1>2
  <2> QED BY <1>1, <2>1, <2>2, <2>4, <2>5, <2>6 DEF OpenAccount, RequestsKnown
<1>8. DeclaredInOrder' /\ GatesKnown'
  BY <1>1 DEF OpenAccount, DeclaredInOrder, GatesKnown
<1>9. Turn'
  BY <1>1, <1>3 DEF OpenAccount, Turn
<1>10. Decided'
  BY <1>1, <1>3 DEF OpenAccount, Decided
<1>11. Crew'
  BY <1>1, <1>3 DEF OpenAccount, Crew, Busy, Mode
<1>12. ErrorsKnown'
  BY <1>1 DEF OpenAccount, ErrorsKnown
<1>13. Closing'
  BY <1>1, <1>2 DEF OpenAccount, Closing
<1>14. LeftOpen'
  <2>1. Unsaved => Unsaved'
    BY <1>1 DEF Unsaved
  <2> QED BY <1>1, <2>1 DEF OpenAccount, LeftOpen
<1> QED BY <1>4, <1>5, <1>6, <1>7, <1>8, <1>9, <1>10, <1>11, <1>12, <1>13, <1>14 DEF OpenAccount

\* The monitor aborts a cancelled run, the clock goes on, or nothing happens.
LEMMA StandAccount ==
  ASSUME LoopInv, OpenInv, Clear', UNCHANGED <<run, stopping, worker, unresolvable, failure, loopVars>>,
         \/ control' = control
         \/ control = "none" /\ control' = "cancel_requested" /\ run.cancelRequested
  PROVE  OpenAccount'
<1>1. Stopped' = Stopped
  BY DEF Stopped
<1>2. Unsaved' = Unsaved
  BY DEF Unsaved
<1>3. OpenAccount
  BY <1>1, <1>2, OpenNow DEF Clear
<1>4. SameCalls(run, run') /\ (control' = "cancel_requested" => run'.cancelRequested)
      /\ (pc # "ended" => run'.status = Activity(run'))
  BY <1>3 DEF SameCalls, OpenAccount, RunOpen
<1> QED BY <1>1, <1>3, <1>4, AsideAccount

LEMMA UserCancelsAccount ==
  ASSUME LoopInv, OpenInv, Clear', UserCancels
  PROVE  OpenAccount'
<1>1. /\ run' = RequestCancel(run) /\ RunInv(run) /\ run.status \in LiveStatus
      /\ UNCHANGED <<control, stopping, worker, unresolvable, failure, loopVars>>
  BY DEF UserCancels, LoopInv, RunKept
<1>2. /\ SameCalls(run, run') /\ Quietly(run, run') /\ run'.blockedReason = run.blockedReason
      /\ run'.cancelRequested
  BY <1>1, QuietEvents, CancelQuietly
<1>3. Stopped' = Stopped
  BY <1>1 DEF Stopped
<1>4. Unsaved' = Unsaved
  BY <1>1, <1>2 DEF Unsaved, SameCalls
<1>5. OpenAccount
  BY <1>3, <1>4, OpenNow DEF Clear
<1>6. run.status \notin TerminalStatus
  BY <1>1 DEF LiveStatus, TerminalStatus
<1> QED BY <1>1, <1>2, <1>3, <1>5, <1>6, AsideAccount DEF Quietly

\* A decision changes the call of the worker that waits for it.
LEMMA UserDecidesAccount ==
  ASSUME LoopInv, OpenInv, Clear', NEW t \in Calls, NEW d \in {"allowed", "denied"}, UserDecides(t, d)
  PROVE  OpenAccount'
<1>1. /\ CanResolveApproval(run, t, d, "user") /\ run' = ResolveApproval(run, t, d) /\ RunKept /\ RunInv(run)
      /\ ~run.cancelRequested
      /\ UNCHANGED <<control, stopping, worker, unresolvable, failure, loopVars>>
  BY DEF UserDecides, LoopInv, RunKept
<1>2. CallDecided(run, run', t, d) /\ Quietly(run, run') /\ run'.blockedReason = run.blockedReason
  BY <1>1, DecidedEvent, DecidedQuietly
<1>3. /\ OtherCalls(run, run', t) /\ run'.activeTools = run.activeTools /\ run'.approvals[t] = d
      /\ run'.tools[t].status = (IF d = "allowed" THEN "created" ELSE run.tools[t].status)
  BY <1>2 DEF CallDecided
<1>4. OpenAccount /\ Clear
  <2>1. Stopped' = Stopped /\ Unsaved' = Unsaved
    BY <1>1, <1>3 DEF Stopped, Unsaved
  <2> QED BY <2>1, OpenNow DEF Clear
<1>5. run.approvals[t] = "pending" /\ run.tools[t].status = "waiting_for_approval"
  BY <1>1 DEF CanResolveApproval, RunInv, ActiveSetsAgree
<1>6. PICK i \in Slots : t = CallAt(i) /\ i = t[2]
  <2>1. t[1] = run.activeStep
    BY <1>1, <1>5 DEF RunInv, ActiveSetsAgree, IsOpen, OpenCall
  <2> QED BY <2>1 DEF Calls, CallAt
<1>7. worker[i].at \in {"advance", "waiting", "expire", "cancel"}
  BY <1>4, <1>5, <1>6 DEF OpenAccount, Decided
<1>8. Busy(i) /\ worker[i].at \in Undispatched
  BY <1>7 DEF Busy, Undispatched
<1>9. Moves(i, worker[i].at, worker[i].out) /\ Around
  BY <1>1 DEF LoopInv, LoopType, Moves, Around
<1>10. run.tools[t].gated /\ run.tools[t].mode = "exclusive"
  BY <1>4, <1>5 DEF OpenAccount, GatesKnown
<1>11. EarlierOpen(run, t) = {} /\ run.activeTools = {}
  BY <1>4, <1>6, <1>8, <1>10, ExclusiveTurn
<1>12. pc # "sweeping"
  BY <1>1, <1>4, <1>8, WorkerPlace
<1>13. Turn'
  <2>1. CallAt(i)' = t
    BY <1>3, <1>6 DEF OtherCalls, CallAt
  <2>2. EarlierOpen(run', t) = {}
    <3>1. \A u \in EarlierSlots(t) : u \in Calls /\ u # t
      BY EarlierIs DEF Calls, Slots
    <3>2. \A u \in EarlierSlots(t) : run'.tools[u] = run.tools[u]
      BY <1>3, <3>1 DEF OtherCalls
    <3> QED BY <1>11, <3>2 DEF EarlierOpen
  <2>3. MayStartTool(run', t)
    BY <1>3, <1>10, <1>11, <2>2 DEF MayStartTool, OtherCalls
  <2>4. \A j \in Slots : worker'[j].at \in Undispatched => j = i
    BY <1>4, <1>8, <1>9, OthersDispatched
  <2> QED BY <1>3, <1>5, <2>1, <2>3, <2>4 DEF Turn, IsOpen, OpenCall
<1>14. /\ run'.tools[CallAt(i)].status # "absent"
       /\ run'.approvals[CallAt(i)] # "absent" => run.tools[CallAt(i)].gated
       /\ run'.tools[CallAt(i)].status = "waiting_for_approval" => run'.approvals[CallAt(i)] \in {"pending", "denied", "expired"}
       /\ run'.approvals[CallAt(i)] # "cancelled" /\ run'.approvals[CallAt(i)] # "pending"
       /\ i \notin unresolvable
  BY <1>3, <1>4, <1>5, <1>6, <1>8, <1>10 DEF OpenAccount, GatesKnown, LoopInv, BusyWhere
<1>15. worker[i].at \notin {"refuse", "reject", "ask", "start", "finish", "commit", "idle", "done", "failed"}
  BY <1>7
<1> QED BY <1>1, <1>2, <1>3, <1>4, <1>6, <1>8, <1>9, <1>12, <1>13, <1>14, <1>15, WorkerAccount

\* Nothing of a run that was just accepted is open.
LEMMA OpenInitially ==
  ASSUME Init
  PROVE  OpenAccount
<1>1. PICK c \in Commands : run = AdmitMessage(StartedRun(c))
  BY DEF Init
<1>2. StartedRun(c) \in RunType
  BY StartedRunInv DEF RunInv
<1>3. AbsentRun \in RunType
  BY AbsentInv DEF RunInv
<1>4. /\ run.userMessage /\ run.activeStep = 0 /\ run.activeRequest = NoRequest /\ run.activeTools = {}
      /\ ~run.activeCompaction /\ run.blockedReason = NoReason /\ ~run.cancelRequested
      /\ run.steps = [k \in Steps |-> "absent"]
      /\ \A t \in Calls : run.tools[t].status = "absent" /\ ~run.tools[t].gated /\ run.approvals[t] = "absent"
  <2>1. /\ AbsentRun.activeStep = 0 /\ AbsentRun.activeRequest = NoRequest /\ AbsentRun.activeTools = {}
        /\ ~AbsentRun.activeCompaction /\ AbsentRun.blockedReason = NoReason /\ ~AbsentRun.cancelRequested
        /\ AbsentRun.steps = [k \in Steps |-> "absent"]
        /\ \A t \in Calls : AbsentRun.tools[t].status = "absent" /\ ~AbsentRun.tools[t].gated /\ AbsentRun.approvals[t] = "absent"
    BY DEF AbsentRun
  <2>2. LET n == StartedRun(c)
        IN /\ n.activeStep = AbsentRun.activeStep /\ n.activeRequest = AbsentRun.activeRequest
           /\ n.activeTools = AbsentRun.activeTools /\ n.activeCompaction = AbsentRun.activeCompaction
           /\ n.blockedReason = AbsentRun.blockedReason /\ n.cancelRequested = AbsentRun.cancelRequested
           /\ n.steps = AbsentRun.steps /\ n.tools = AbsentRun.tools /\ n.approvals = AbsentRun.approvals
    BY <1>3 DEF StartedRun, RunType
  <2>3. LET n == StartedRun(c)
        IN /\ run.userMessage /\ run.activeStep = n.activeStep /\ run.activeRequest = n.activeRequest
           /\ run.activeTools = n.activeTools /\ run.activeCompaction = n.activeCompaction
           /\ run.blockedReason = n.blockedReason /\ run.cancelRequested = n.cancelRequested
           /\ run.steps = n.steps /\ run.tools = n.tools /\ run.approvals = n.approvals
    BY <1>1, <1>2 DEF AdmitMessage, Refresh, RunType
  <2> QED BY <2>1, <2>2, <2>3
<1>5. run.status = Activity(run)
  <2>1. [StartedRun(c) EXCEPT !.userMessage = TRUE] \in RunType
    BY <1>2 DEF RunType
  <2> QED BY <1>1, <2>1, RefreshedEvent DEF AdmitMessage
<1>6. /\ pc = "top" /\ control = "none" /\ unresolvable = {} /\ failure = "none" /\ ~caught
      /\ \A i \in Slots : worker[i].at = "idle"
  BY DEF Init, Idle
<1>7. StepsInOrder
  <2>1. OpenSteps = {}
    BY <1>4 DEF OpenSteps
  <2>2. NextStep = 1
    BY <2>1, FS_EmptySet DEF NextStep
  <2> QED BY <1>4, <2>1, <2>2 DEF StepsInOrder
<1>8. RunOpen /\ NothingElseOpen /\ Unblocked
  BY <1>4, <1>5, <1>6 DEF RunOpen, NothingElseOpen, Unblocked, InTools, InRequest
<1>9. RequestsKnown /\ DeclaredInOrder
  BY <1>4, <1>6 DEF RequestsKnown, DeclaredInOrder, Compacting, Declared, Undeclared, InTools, InRequest
<1>10. GatesKnown
  BY <1>4, <1>6 DEF GatesKnown, IsOpen, OpenCall
<1>11. Turn /\ Decided /\ Crew
  BY <1>4, <1>6 DEF Turn, Decided, Crew, Undispatched, InTools
<1>12. ErrorsKnown /\ Closing /\ LeftOpen
  BY <1>6 DEF ErrorsKnown, Closing, LeftOpen
<1> QED BY <1>7, <1>8, <1>9, <1>10, <1>11, <1>12 DEF OpenAccount

-----------------------------------------------------------------------------
LEMMA LoopStepAccount ==
  ASSUME LoopInv, LoopInv', OpenInv, Clear', LoopStep
  PROVE  OpenAccount'
<1>1. ~Halt
  BY HaltAccount
<1>2. CASE Top \/ OpenStep
  BY <1>2, TopAccount, OpenStepAccount
<1>3. CASE Compact \/ Summarize \/ SettleCompaction \/ AfterCompact
  BY <1>3, CompactAccount, SummarizeAccount, SettleCompactionAccount, AfterCompactAccount
<1>4. CASE TooLarge \/ StartModelRequest \/ Launch \/ Reading
  BY <1>4, TooLargeAccount, StartModelRequestAccount, LaunchAccount, ReadingAccount
<1>5. CASE AppendDelta \/ CheckAnswer \/ RecordAnswer \/ Recorded
  BY <1>5, AppendDeltaAccount, CheckAnswerAccount, RecordAnswerAccount, RecordedAccount
<1>6. CASE Prepare \/ CreateDeclared \/ Pool
  BY <1>6, PrepareAccount, CreateDeclaredAccount, PoolAccount
<1>7. CASE WaitStart \/ AwaitExclusive \/ Starve \/ Tooled
  BY <1>7, WaitStartAccount, AwaitExclusiveAccount, StarveAccount, TooledAccount
<1>8. CASE CloseStep \/ StepClosed
  BY <1>8, CloseStepAccount, StepClosedAccount
<1>9. CASE Cancel \/ Sweep \/ Sweeping
  BY <1>9, CancelStepAccount, SweepStepAccount, SweepingAccount
<1>10. CASE FinishLoad \/ CloseRun \/ Catch
  BY <1>10, FinishLoadAccount, CloseRunAccount, CatchAccount
<1> QED BY <1>1, <1>2, <1>3, <1>4, <1>5, <1>6, <1>7, <1>8, <1>9, <1>10 DEF LoopStep

LEMMA WorkerStepAccount ==
  ASSUME LoopInv, OpenInv, Clear', NEW i \in Slots, WorkerStep(i), UNCHANGED loopVars
  PROVE  OpenAccount'
<1>1. CASE Advance(i) \/ Wake(i)
  BY <1>1, AdvanceAccount, WakeAccount
<1>2. CASE SettleUndispatched(i) \/ Expire(i) \/ Finish(i)
  BY <1>2, SettleUndispatchedAccount, ExpireAccount, FinishCallAccount
<1>3. CASE Ask(i) \/ Start(i)
  BY <1>3, AskAccount, StartCallAccount
<1>4. CASE BeforeEffect(i) \/ Effect(i) \/ BodyEnds(i) \/ CommitTurn(i)
  BY <1>4, BeforeEffectAccount, EffectAccount, BodyEndsAccount, CommitTurnAccount
<1> QED BY <1>1, <1>2, <1>3, <1>4 DEF WorkerStep

LEMMA EveryAccount ==
  ASSUME LoopInv, LoopInv', OpenInv, Clear', [Next]_vars
  PROVE  OpenAccount'
<1>1. CASE LoopStep
  BY <1>1, LoopStepAccount
<1>2. ASSUME NEW i \in Slots, WorkerStep(i), UNCHANGED loopVars
      PROVE  OpenAccount'
  BY <1>2, WorkerStepAccount
<1>3. CASE Monitor
  BY <1>3, StandAccount DEF Monitor
<1>4. CASE MonitorFails \/ ServiceCloses
  <2>1. Stopped'
    BY <1>4 DEF MonitorFails, ServiceCloses, Stopped
  <2> QED BY <2>1 DEF Clear
<1>5. CASE UserCancels
  BY <1>5, UserCancelsAccount
<1>6. CASE \E t \in Calls, d \in {"allowed", "denied"} : UserDecides(t, d)
  BY <1>6, UserDecidesAccount
<1>7. CASE Deadline
  BY <1>7, StandAccount DEF Deadline
<1>8. CASE UNCHANGED vars
  BY <1>8, StandAccount DEF vars, toolVars
<1> QED BY <1>1, <1>2, <1>3, <1>4, <1>5, <1>6, <1>7, <1>8 DEF Next

\* drive of agent-loop.ts ends with its run still open only when it was stopped, when the store or the provider failed it,
\* when a cancellation met a call behind a running sibling, when capacity ran out before several open calls, or when the
\* store refused to save a dispatched call's result.
THEOREM LeftOpenCorrect == Spec => []LeftOpen
<1>1. LoopInv /\ LoopInv' /\ OpenInv /\ [Next]_vars => OpenInv'
  BY EveryAccount DEF OpenInv
<1>2. Init => OpenInv
  BY OpenInitially DEF OpenInv
<1>3. OpenInv => LeftOpen
  <2>1. CASE Clear
    BY <2>1 DEF OpenInv, OpenAccount
  <2>2. CASE ~Clear
    BY <2>2 DEF Clear, LeftOpen
  <2> QED BY <2>1, <2>2
<1> QED BY <1>1, <1>2, <1>3, LoopInvariant, PTL DEF Spec
-----------------------------------------------------------------------------
(***************************************************************************)
(* The checkpoint a retry rests on.                                        *)
(***************************************************************************)
\* A request once recorded stays recorded.
SameTried(r, n) == \A q \in Requests : n.requests[q].status = "absent" <=> r.requests[q].status = "absent"

\* An event that is about neither the open step, nor a new request, nor a compaction.
Aside(r, n) == n.activeStep = r.activeStep /\ n.compaction = r.compaction /\ SameTried(r, n)

OverflowOf(k) == [status |-> "succeeded", trigger |-> "context_overflow", step |-> k]

\* Where the loop is between a context_limit answer and the retry tells how far the checkpoint is.
CheckpointInv ==
  LET k == run.activeStep
  IN /\ pc \in {"top", "openStep", "stepClosed"} => k = 0
     /\ k # 0 =>
          /\ run.requests[<<k, 2>>].status # "absent" => run.compaction = OverflowOf(k)
          /\ pc \in {"compact", "summarizing", "compactionAnswered", "afterCompact"} =>
               run.requests[<<k, 2>>].status = "absent"
          /\ pc \in {"summarizing", "compactionAnswered"} =>
               run.compaction.trigger = "context_overflow" /\ run.compaction.step = k
          /\ pc = "afterCompact" /\ compacted => run.compaction = OverflowOf(k)
          /\ pc = "request" => run.requests[<<k, 1>>].status = "absent" \/ run.compaction = OverflowOf(k)

\* The places at which the invariant says more of the open step than that a retry has its checkpoint.
Watched == {"top", "openStep", "stepClosed", "compact", "summarizing", "compactionAnswered", "afterCompact", "request"}

LEMMA OpenRequests ==
  ASSUME LoopInv, run.activeStep # 0
  PROVE  run.activeStep \in Steps /\ <<run.activeStep, 1>> \in Requests /\ <<run.activeStep, 2>> \in Requests
BY OpenStepIs DEF LoopInv, Requests, Attempts

\* The loop is elsewhere, or where it was.
LEMMA AsideKept ==
  ASSUME LoopInv, CheckpointInv, Aside(run, run') \/ run'.activeStep = 0,
         pc' \notin Watched \/ UNCHANGED <<pc, compacted>>
  PROVE  CheckpointInv'
<1>1. CASE run'.activeStep = 0
  BY <1>1 DEF CheckpointInv
<1>2. CASE run'.activeStep # 0
  <2>1. /\ run'.activeStep = run.activeStep /\ run'.compaction = run.compaction
        /\ \A a \in {1, 2} : run'.requests[<<run.activeStep, a>>].status = "absent"
                               <=> run.requests[<<run.activeStep, a>>].status = "absent"
    BY <1>2, OpenRequests DEF Aside, SameTried
  <2>2. OverflowOf(run.activeStep)' = OverflowOf(run.activeStep)
    BY <2>1 DEF OverflowOf
  <2>3. CASE pc' \notin Watched
    BY <1>2, <2>1, <2>2, <2>3 DEF CheckpointInv, Watched
  <2>4. CASE UNCHANGED <<pc, compacted>>
    BY <1>2, <2>1, <2>2, <2>4 DEF CheckpointInv
  <2> QED BY <2>3, <2>4
<1> QED BY <1>1, <1>2

LEMMA SameAside ==
  ASSUME run' = run
  PROVE  Aside(run, run')
BY DEF Aside, SameTried

\* The events about calls, approvals and cancellations.
LEMMA CallsAside ==
  ASSUME NEW r \in RunType, NEW t \in Calls
  PROVE  /\ \A gated, mode : Aside(r, CreateCall(r, t, gated, mode))
         /\ Aside(r, RequestApproval(r, t)) /\ Aside(r, StartTool(r, t))
         /\ \A d : Aside(r, ResolveApproval(r, t, d))
         /\ \A o : Aside(r, FinishTool(r, t, o))
         /\ \A d, o : Aside(r, FinishTool(ResolveApproval(r, t, d), t, o))
<1>1. \A gated, mode : Aside(r, CreateCall(r, t, gated, mode))
  BY DEF Aside, SameTried, CreateCall, Refresh, RunType
<1>2. Aside(r, RequestApproval(r, t)) /\ Aside(r, StartTool(r, t))
  BY DEF Aside, SameTried, RequestApproval, StartTool, Refresh, RunType
<1>3. \A d : Aside(r, ResolveApproval(r, t, d))
  BY DEF Aside, SameTried, ResolveApproval, Refresh, RunType
<1>4. \A o : Aside(r, FinishTool(r, t, o))
  BY DEF Aside, SameTried, FinishTool, Refresh, RunType
<1>5. \A d, o : Aside(r, FinishTool(ResolveApproval(r, t, d), t, o))
  BY DEF Aside, SameTried, FinishTool, ResolveApproval, Refresh, RunType
<1> QED BY <1>1, <1>2, <1>3, <1>4, <1>5

LEMMA CancelAside ==
  ASSUME NEW r \in RunType
  PROVE  Aside(r, RequestCancel(r))
BY DEF Aside, SameTried, RequestCancel, Refresh, RunType

LEMMA SettleAside ==
  ASSUME LoopInv, NEW i \in Slots, run.activeStep # 0, NEW before, NEW out, Settle(i, before, out),
         before = run \/ \E d : before = ResolveApproval(run, CallAt(i), d)
  PROVE  Aside(run, run')
<1> DEFINE t == CallAt(i)
<1>1. t \in Calls /\ run \in RunType
  BY OpenStepIs DEF LoopInv, RunKept, RunInv
<1>2. run' = run \/ run' = FinishTool(before, t, out)
  BY DEF Settle
<1> HIDE DEF t
<1>3. CASE run' = run
  BY <1>3, SameAside
<1>4. CASE run' = FinishTool(before, t, out)
  BY <1>1, <1>4, CallsAside DEF t
<1> QED BY <1>2, <1>3, <1>4

LEMMA WorkerAside ==
  ASSUME LoopInv, NEW i \in Slots, WorkerStep(i)
  PROVE  Aside(run, run')
<1>1. worker[i].at \notin {"idle", "done", "failed"} => run.activeStep # 0
  BY DEF LoopInv, BusyWhere, Busy
<1>2. run.activeStep # 0 => CallAt(i) \in Calls
  BY OpenStepIs DEF LoopInv
<1>3. run \in RunType
  BY DEF LoopInv, RunKept, RunInv
<1>4. CASE UNCHANGED run
  BY <1>4, SameAside
<1>5. CASE Advance(i) \/ Wake(i) \/ BeforeEffect(i) \/ Effect(i) \/ BodyEnds(i) \/ CommitTurn(i)
  BY <1>4, <1>5 DEF Advance, Wake, BeforeEffect, Effect, BodyEnds, CommitTurn
<1>6. CASE SettleUndispatched(i)
  <2>1. run.activeStep # 0
    BY <1>1, <1>6 DEF SettleUndispatched
  <2>2. Resolved(CallAt(i), "cancelled") = run
          \/ Resolved(CallAt(i), "cancelled") = ResolveApproval(run, CallAt(i), "cancelled")
    BY DEF Resolved
  <2> QED BY <1>6, <2>1, <2>2, SettleAside DEF SettleUndispatched
<1>7. CASE Expire(i)
  <2>1. run.activeStep # 0
    BY <1>1, <1>7 DEF Expire
  <2> QED BY <1>4, <1>7, <2>1, SettleAside DEF Expire
<1>8. CASE Finish(i)
  <2>1. run.activeStep # 0
    BY <1>1, <1>8 DEF Finish
  <2> QED BY <1>4, <1>8, <2>1, SettleAside DEF Finish
<1>9. CASE Ask(i)
  <2>1. run.activeStep # 0
    BY <1>1, <1>9 DEF Ask
  <2>2. run' = run \/ run' = RequestApproval(run, CallAt(i))
    BY <1>9 DEF Ask
  <2> QED BY <1>2, <1>3, <1>4, <2>1, <2>2, CallsAside
<1>10. CASE Start(i)
  <2>1. run.activeStep # 0
    BY <1>1, <1>10 DEF Start
  <2>2. run' = run \/ run' = StartTool(run, CallAt(i))
    BY <1>10 DEF Start
  <2> QED BY <1>2, <1>3, <1>4, <2>1, <2>2, CallsAside
<1> QED BY <1>5, <1>6, <1>7, <1>8, <1>9, <1>10 DEF WorkerStep

\* Everybody but the loop.
LEMMA OthersAside ==
  ASSUME LoopInv,
         \/ Monitor \/ MonitorFails \/ UserCancels \/ Deadline \/ ServiceCloses \/ UNCHANGED vars
         \/ \E t \in Calls, d \in {"allowed", "denied"} : UserDecides(t, d)
  PROVE  Aside(run, run') /\ UNCHANGED <<pc, compacted>>
<1>1. run \in RunType
  BY DEF LoopInv, RunKept, RunInv
<1>2. CASE Monitor \/ MonitorFails \/ Deadline \/ ServiceCloses \/ UNCHANGED vars
  BY <1>2, SameAside DEF Monitor, MonitorFails, Deadline, ServiceCloses, vars, toolVars, loopVars
<1>3. CASE UserCancels
  BY <1>1, <1>3, CancelAside DEF UserCancels, loopVars
<1>4. CASE \E t \in Calls, d \in {"allowed", "denied"} : UserDecides(t, d)
  BY <1>1, <1>4, CallsAside DEF UserDecides, loopVars
<1> QED BY <1>2, <1>3, <1>4

\* The loop's steps that leave the requests and the compaction alone.
LEMMA LoopAside ==
  ASSUME LoopInv, CheckpointInv,
         \/ Halt \/ TooLarge \/ Launch \/ Reading \/ CheckAnswer
         \/ Prepare \/ CreateDeclared \/ Pool \/ WaitStart \/ AwaitExclusive \/ Starve \/ Tooled
         \/ Sweep \/ Sweeping \/ FinishLoad \/ Catch
  PROVE  CheckpointInv'
<1>1. run \in RunType
  BY DEF LoopInv, RunKept, RunInv
<1>2. CASE CreateDeclared
  <2>1. run' = run \/ \E gated, mode : run' = CreateCall(run, CallAt(next), gated, mode)
    BY <1>2 DEF CreateDeclared
  <2>2. next \in Slots /\ run.activeStep # 0
    BY <1>2, BoundsAssumption DEF CreateDeclared, LoopInv, Placed, InStep, LoopType, Slots
  <2>3. Aside(run, run')
    BY <1>1, <2>1, <2>2, OpenStepIs, CallsAside, SameAside DEF LoopInv
  <2>4. pc' \in {"prepare", "starve", "catch", "ended"}
    BY <1>2 DEF CreateDeclared, ThrowInTools, Throw, GotoLoop
  <2> QED BY <2>3, <2>4, AsideKept DEF Watched
<1>3. CASE Starve
  <2>1. run' = run \/ \E i \in Slots : \E o : run' = FinishTool(run, CallAt(i), o)
    BY <1>3 DEF Starve
  <2>2. run.activeStep # 0
    BY <1>3 DEF Starve, LoopInv, Placed, InStep
  <2>3. Aside(run, run')
    BY <1>1, <2>1, <2>2, OpenStepIs, CallsAside, SameAside DEF LoopInv
  <2>4. pc' \in {"finish", "catch", "ended"}
    BY <1>3 DEF Starve, CloseWith, Throw
  <2> QED BY <2>3, <2>4, AsideKept DEF Watched
<1>4. CASE Halt \/ TooLarge \/ Launch \/ Reading \/ CheckAnswer
  <2>1. run' = run /\ pc' \notin Watched
    BY <1>4 DEF Halt, TooLarge, Launch, Reading, CheckAnswer, Answered, CloseWith, Throw, GotoLoop, toolVars, Watched
  <2> QED BY <2>1, SameAside, AsideKept
<1>5. CASE Prepare \/ Pool \/ WaitStart \/ AwaitExclusive \/ Tooled
  <2>1. run' = run /\ pc' \notin Watched
    BY <1>5 DEF Prepare, Pool, WaitStart, AwaitExclusive, Tooled, LaunchWorker, ThrowInTools, CloseWith, Throw,
                GotoLoop, toolVars, Watched
  <2> QED BY <2>1, SameAside, AsideKept
<1>6. CASE Sweep \/ Sweeping \/ FinishLoad \/ Catch
  <2>1. run' = run /\ pc' \notin Watched
    BY <1>6 DEF Sweep, Sweeping, FinishLoad, Catch, CloseWith, Throw, GotoLoop, toolVars, Watched
  <2> QED BY <2>1, SameAside, AsideKept
<1> QED BY <1>2, <1>3, <1>4, <1>5, <1>6

\* A request that is settled stays recorded, a fragment records nothing new.
LEMMA RequestsAside ==
  ASSUME LoopInv, CheckpointInv, AppendDelta \/ RecordAnswer \/ Cancel
  PROVE  CheckpointInv'
<1>1. run \in RunType /\ (run.activeRequest # NoRequest => run.activeRequest \in Requests)
  BY DEF LoopInv, RunKept, RunInv, RunType
<1>2. run.activeRequest # NoRequest => run.requests[run.activeRequest].status = "running"
  BY <1>1 DEF LoopInv, RunKept, RunInv, ActiveSetsAgree
<1>3. ASSUME NEW q \in Requests, run.requests[q].status = "running", NEW o, o.status # "absent", NEW n,
             run' = FinishRequest(run, q, o, n)
      PROVE  Aside(run, run')
  <2> DEFINE request == [run.requests[q] EXCEPT !.status = o.status, !.reason = o.reason, !.calls = n]
  <2>1. run.requests[q] \in RequestType
    BY <1>1 DEF RunType
  <2>2. request.status = o.status
    BY <2>1 DEF RequestType
  <2>3. /\ run'.activeStep = run.activeStep /\ run'.compaction = run.compaction
        /\ run'.requests = [run.requests EXCEPT ![q] = request]
    BY <1>1, <1>3 DEF FinishRequest, Refresh, RunType
  <2> HIDE DEF request
  <2> QED BY <1>1, <1>3, <2>2, <2>3 DEF Aside, SameTried, RunType
<1>4. CASE AppendDelta
  <2>1. pc = "reading" /\ pc' \notin Watched
    BY <1>4 DEF AppendDelta, GotoLoop, Answered, Watched
  <2>2. run' = run \/ run' = RecordDelta(run, run.activeRequest)
    BY <1>4 DEF AppendDelta
  <2>3. run.activeRequest \in Requests
    BY <1>1, <2>1 DEF LoopInv, Placed, InRequest
  <2>4. ASSUME run' = RecordDelta(run, run.activeRequest) PROVE Aside(run, run')
    <3> DEFINE q == run.activeRequest
               request == [run.requests[q] EXCEPT !.deltas = run.requests[q].deltas + 1]
    <3>1. request.status = run.requests[q].status
      BY <1>1, <2>3 DEF RunType, RequestType
    <3>2. /\ run'.activeStep = run.activeStep /\ run'.compaction = run.compaction
          /\ run'.requests = [run.requests EXCEPT ![q] = request]
      BY <1>1, <2>4 DEF RecordDelta, Refresh, RunType
    <3> HIDE DEF request
    <3> QED BY <1>1, <2>3, <3>1, <3>2 DEF Aside, SameTried, RunType
  <2> QED BY <2>1, <2>2, <2>4, SameAside, AsideKept
<1>5. CASE RecordAnswer
  <2>1. pc = "record" /\ pc' \notin Watched
    BY <1>5 DEF RecordAnswer, GotoLoop, Throw, Watched
  <2>2. run' = run \/ run' = FinishRequest(run, run.activeRequest, answer, answer.calls)
    BY <1>5 DEF RecordAnswer
  <2>3. run.activeRequest # NoRequest /\ answer.status # "absent"
    BY <2>1 DEF LoopInv, Placed, InRequest, LoopType
  <2> QED BY <1>1, <1>2, <1>3, <2>1, <2>2, <2>3, SameAside, AsideKept
<1>6. CASE Cancel
  <2>1. pc' \notin Watched /\ Cancelled.status # "absent"
    BY <1>6 DEF Cancel, GotoLoop, Watched, Cancelled, Outcome
  <2>2. \/ run' = run
        \/ run.activeRequest # NoRequest /\ run' = FinishRequest(run, run.activeRequest, Cancelled, 0)
    BY <1>6 DEF Cancel
  <2> QED BY <1>1, <1>2, <1>3, <2>1, <2>2, SameAside, AsideKept
<1> QED BY <1>4, <1>5, <1>6

\* The end of a step or of the run leaves no step open.
LEMMA EndAside ==
  ASSUME LoopInv, CheckpointInv, CloseStep \/ StepClosed \/ CloseRun
  PROVE  CheckpointInv'
<1>1. RunInv(run) /\ run \in RunType
  BY DEF LoopInv, RunKept, RunInv
<1>2. run.activeStep # 0 => run.activeStep \in Steps
  BY OpenRequests
<1>3. CASE CloseStep
  <2>1. run.activeStep # 0
    BY <1>3 DEF CloseStep, LoopInv, Placed, InStep
  <2>2. \/ run'.activeStep = 0
        \/ run' = run /\ pc' \notin Watched
    BY <1>1, <1>2, <1>3, <2>1, StepEvents DEF CloseStep, Throw, Watched
  <2> QED BY <2>2, SameAside, AsideKept DEF CheckpointInv
<1>4. CASE StepClosed
  <2>1. run' = run /\ run.activeStep = 0
    BY <1>4 DEF StepClosed, LoopInv, Placed
  <2> QED BY <2>1 DEF CheckpointInv
<1>5. CASE CloseRun
  <2>1. pc' \notin Watched
    BY <1>5 DEF CloseRun, GotoLoop, Throw, Watched
  <2>2. \/ run' = run
        \/ run.activeStep # 0 /\ run' = FinishRun(FinishStep(run, run.activeStep, goal), goal)
        \/ run.activeStep = 0 /\ run' = FinishRun(run, goal)
    BY <1>5 DEF CloseRun
  <2>3. run' = run \/ run'.activeStep = 0
    BY <1>1, <2>2 DEF FinishRun, FinishStep, Refresh, RunType
  <2> QED BY <2>1, <2>3, SameAside, AsideKept
<1> QED BY <1>3, <1>4, <1>5

\* A new step has no request yet.
LEMMA OpenedCheckpoint ==
  ASSUME LoopInv, CheckpointInv, OpenStep
  PROVE  CheckpointInv'
<1> DEFINE k == NextStep
<1>1. RunInv(run) /\ run \in RunType /\ pc = "openStep" /\ run.activeStep = 0
  BY DEF OpenStep, CheckpointInv, LoopInv, RunKept, RunInv
<1>2. k \in Steps
  BY <1>1, NextStepIs DEF LoopInv, Placed, BetweenSteps
<1>3. \/ run' = run /\ pc' \notin Watched
      \/ CanStartStep(run, k) /\ run' = StartStep(run, k) /\ pc' = "request"
  BY VerdictAccepted DEF OpenStep, Throw, GotoLoop, Watched
<1>4. CASE run' = run /\ pc' \notin Watched
  BY <1>4, SameAside, AsideKept
<1>5. CASE CanStartStep(run, k) /\ run' = StartStep(run, k) /\ pc' = "request"
  <2>1. run.steps[k] = "absent"
    BY <1>5 DEF CanStartStep
  <2>2. <<k, 1>> \in Requests /\ <<k, 2>> \in Requests
    BY <1>2 DEF Requests, Attempts
  <2>3. run.requests[<<k, 1>>].status = "absent" /\ run.requests[<<k, 2>>].status = "absent"
    BY <1>1, <1>2, <2>1, <2>2 DEF RunInv, RequestHasStep
  <2>4. run'.activeStep = k /\ run'.requests = run.requests
    BY <1>1, <1>5 DEF StartStep, Refresh, RunType
  <2> HIDE DEF k
  <2> QED BY <1>5, <2>3, <2>4 DEF CheckpointInv
<1> QED BY <1>3, <1>4, <1>5

\* The retry is admitted where the checkpoint of the open step stands.
LEMMA RequestedCheckpoint ==
  ASSUME LoopInv, CheckpointInv, StartModelRequest
  PROVE  CheckpointInv'
<1> DEFINE k == run.activeStep
           a == NextAttempt
<1>1. run \in RunType /\ pc = "request" /\ k # 0
  BY DEF StartModelRequest, LoopInv, RunKept, RunInv, Placed, InStep
<1>2. <<k, 1>> \in Requests /\ <<k, 2>> \in Requests /\ k \in Steps
  BY <1>1, OpenRequests
<1>3. \/ run' = run /\ pc' \notin Watched
      \/ CanStartRequest(run, k, a) /\ run' = StartRequest(run, k, a) /\ pc' = "launch"
  BY VerdictAccepted DEF StartModelRequest, CloseWith, Throw, GotoLoop, Watched
<1>4. CASE run' = run /\ pc' \notin Watched
  BY <1>4, SameAside, AsideKept
<1>5. CASE CanStartRequest(run, k, a) /\ run' = StartRequest(run, k, a) /\ pc' = "launch"
  <2> DEFINE request == [status |-> "running", reason |-> NoReason, calls |-> 0, deltas |-> 0]
  <2>1. /\ run'.activeStep = k /\ run'.compaction = run.compaction
        /\ run'.requests = [run.requests EXCEPT ![<<k, a>>] = request]
    BY <1>1, <1>5 DEF StartRequest, Refresh, RunType
  <2>2. run.requests[<<k, 2>>].status = "absent"
    BY <1>5 DEF CanStartRequest
  <2> HIDE DEF request
  <2>3. CASE run.requests[<<k, 1>>].status = "absent"
    <3>1. a = 1
      BY <2>3 DEF NextAttempt
    <3>2. run'.requests[<<k, 2>>] = run.requests[<<k, 2>>]
      BY <1>1, <1>2, <2>1, <3>1 DEF RunType
    <3> QED BY <1>5, <2>1, <2>2, <3>2 DEF CheckpointInv
  <2>4. CASE run.requests[<<k, 1>>].status # "absent"
    <3>1. run.compaction = OverflowOf(k)
      BY <1>1, <2>4 DEF CheckpointInv
    <3> QED BY <1>5, <2>1, <3>1 DEF CheckpointInv, OverflowOf
  <2> QED BY <2>3, <2>4
<1> QED BY <1>3, <1>4, <1>5

\* From a context_limit answer to the checkpoint: it belongs to the open step.
LEMMA CompactedCheckpoint ==
  ASSUME LoopInv, CheckpointInv, Top \/ Recorded \/ Compact \/ Summarize \/ SettleCompaction \/ AfterCompact
  PROVE  CheckpointInv'
<1>1. run \in RunType /\ run.compaction \in CompactionType
  BY DEF LoopInv, RunKept, RunInv, RunType
<1>2. CASE Top
  <2>1. run' = run /\ run.activeStep = 0
    BY <1>2 DEF Top, toolVars, CheckpointInv
  <2> QED BY <2>1 DEF CheckpointInv
<1>3. CASE Recorded
  <2>1. run' = run /\ pc = "recorded" /\ run.activeStep # 0
    BY <1>3 DEF Recorded, toolVars, LoopInv, Placed, InStep
  <2>2. pc' \notin Watched \/ (pc' = "compact" /\ LastAttempt(run, run.activeStep) = 1)
    BY <1>3 DEF Recorded, GotoLoop, CloseWith, Watched
  <2>3. LastAttempt(run, run.activeStep) = 1 => run.requests[<<run.activeStep, 2>>].status = "absent"
    BY DEF LastAttempt
  <2>4. CASE pc' \notin Watched
    BY <2>1, <2>4, SameAside, AsideKept
  <2>5. CASE pc' = "compact" /\ LastAttempt(run, run.activeStep) = 1
    BY <2>1, <2>3, <2>5 DEF CheckpointInv
  <2> QED BY <2>2, <2>4, <2>5
<1>4. CASE Compact
  <2>1. pc = "compact"
    BY <1>4 DEF Compact
  <2>2. CASE Compacted(FALSE) /\ run' = run
    BY <2>1, <2>2 DEF Compacted, CheckpointInv
  <2>3. CASE run' = StartCompaction(run, Trigger) /\ GotoLoop("summarizing")
    <3>1. /\ run'.activeStep = run.activeStep /\ run'.requests = run.requests
          /\ run'.compaction = [status |-> "running", trigger |-> Trigger, step |-> run.activeStep]
      BY <1>1, <2>3 DEF StartCompaction, Refresh, RunType
    <3>2. run.activeStep # 0 => Trigger = "context_overflow"
      BY DEF Trigger
    <3> QED BY <2>1, <2>3, <3>1, <3>2 DEF CheckpointInv, GotoLoop
  <2>4. CASE Throw(DispatchError) /\ run' = run
    <3>1. pc' \notin Watched
      BY <2>4 DEF Throw, Watched
    <3> QED BY <2>4, <3>1, SameAside, AsideKept
  <2> QED BY <1>4, <2>2, <2>3, <2>4 DEF Compact
<1>5. CASE Summarize
  <2>1. run' = run /\ pc = "summarizing" /\ (pc' \notin Watched \/ pc' = "compactionAnswered")
    BY <1>5 DEF Summarize, Throw, toolVars, Watched
  <2>2. CASE pc' \notin Watched
    BY <2>1, <2>2, SameAside, AsideKept
  <2>3. CASE pc' = "compactionAnswered"
    BY <2>1, <2>3 DEF CheckpointInv
  <2> QED BY <2>1, <2>2, <2>3
<1>6. CASE SettleCompaction
  <2>1. /\ pc = "compactionAnswered" /\ pc' = "afterCompact" /\ compacted' = compacted
        /\ run' = (IF compacted THEN SucceedCompaction(run) ELSE FailCompaction(run))
    BY <1>6 DEF SettleCompaction, GotoLoop, Stay
  <2>2. run'.activeStep = run.activeStep /\ run'.requests = run.requests
    BY <1>1, <2>1 DEF SucceedCompaction, FailCompaction, Refresh, RunType
  <2>3. compacted => run'.compaction = [run.compaction EXCEPT !.status = "succeeded"]
    BY <1>1, <2>1 DEF SucceedCompaction, Refresh, RunType
  <2>4. compacted /\ run.activeStep # 0 => run'.compaction = OverflowOf(run.activeStep)
    BY <1>1, <2>1, <2>3 DEF CheckpointInv, CompactionType, OverflowOf
  <2> QED BY <2>1, <2>2, <2>4 DEF CheckpointInv, OverflowOf
<1>7. CASE AfterCompact
  <2>1. run' = run /\ pc = "afterCompact"
    BY <1>7 DEF AfterCompact, toolVars
  <2>2. \/ pc' \notin Watched
        \/ pc' = "openStep" /\ run.activeStep = 0
        \/ pc' = "request" /\ run.activeStep # 0 /\ compacted
    BY <1>7 DEF AfterCompact, GotoLoop, CloseWith, Watched
  <2>3. CASE pc' \notin Watched
    BY <2>1, <2>3, SameAside, AsideKept
  <2>4. CASE pc' = "openStep" /\ run.activeStep = 0
    BY <2>1, <2>4 DEF CheckpointInv
  <2>5. CASE pc' = "request" /\ run.activeStep # 0 /\ compacted
    BY <2>1, <2>5 DEF CheckpointInv
  <2> QED BY <2>2, <2>3, <2>4, <2>5
<1> QED BY <1>2, <1>3, <1>4, <1>5, <1>6, <1>7

LEMMA CheckpointKept ==
  ASSUME LoopInv, CheckpointInv, [Next]_vars
  PROVE  CheckpointInv'
<1>1. CASE LoopStep
  BY <1>1, LoopAside, RequestsAside, EndAside, OpenedCheckpoint, RequestedCheckpoint, CompactedCheckpoint DEF LoopStep
<1>2. ASSUME NEW i \in Slots, WorkerStep(i), UNCHANGED loopVars
      PROVE  CheckpointInv'
  BY <1>2, WorkerAside, AsideKept DEF loopVars
<1>3. CASE \/ Monitor \/ MonitorFails \/ UserCancels \/ Deadline \/ ServiceCloses \/ UNCHANGED vars
           \/ \E t \in Calls, d \in {"allowed", "denied"} : UserDecides(t, d)
  BY <1>3, OthersAside, AsideKept
<1> QED BY <1>1, <1>2, <1>3 DEF Next

\* The second request agent-loop.ts makes in a step rests on a checkpoint saved for that step, although the reducer
\* only reads the run's last compaction (reducer.ts:203).
THEOREM RetryHasCheckpointCorrect == Spec => []RetryHasCheckpoint
<1>1. Init => CheckpointInv
  <2> SUFFICES ASSUME Init PROVE CheckpointInv
    OBVIOUS
  <2>1. PICK c \in Commands : run = AdmitMessage(StartedRun(c))
    BY DEF Init
  <2>2. run.activeStep = 0
    BY <2>1 DEF AdmitMessage, StartedRun, AbsentRun, Refresh
  <2> QED BY <2>2 DEF CheckpointInv
<1>2. LoopInv /\ CheckpointInv /\ [Next]_vars => CheckpointInv'
  BY CheckpointKept
<1>3. CheckpointInv => RetryHasCheckpoint
  BY DEF CheckpointInv, RetryHasCheckpoint, OverflowOf
<1> QED BY <1>1, <1>2, <1>3, LoopInvariant, PTL DEF Spec
=============================================================================
