# Verification of fosil

Fosil is a local coding agent.  A browser submits a task to a loopback HTTP service; an agent loop asks a model,
runs the tools the model declares, and records every fact in an append-only SQLite ledger, from which all state is
derived by replay.  These modules model the parts of it whose correctness depends on order: what the ledger may
accept and the store commit, how an interrupted run is closed after a crash, how the loop, its tool workers, the user,
the clock and the shutdown of the service race for one run, what the operations the loop awaits may report, and what
the model and a browser tab are shown of the history.

Line references are to the repository's files; `packages/` is left out of paths where it is clear.

## 1. The system

### 1.1 Components

| Component | State it keeps | Operations | Module |
| --- | --- | --- | --- |
| Reducer (`core/src/reducer.ts`, `state.ts`) | `ExecutionState`: the session, its runs, and each run's steps, requests, calls, approvals and compactions | `applyEvent`: one branch per event type, all guards | `RunReducer`, `Session` |
| Recovery planner (`core/src/recovery.ts`) | none: a pure function of a state | `planRecovery`, `workspaceBlockers` | `Recovery`, `RunReducer` |
| Event store database (`server/src/storage/storage-database.ts`) | SQLite tables, caches of states, summaries and payload bytes | `appendBatch`, `execute` (commands with receipts), `read*`, recovery on open, deletion | `StoreDatabase`, `StoreWorker`, `CommandLedger` |
| Store client and worker (`storage/store.ts`, `storage-worker.ts`) | pending requests, byte budget, closed flag | `call`, `close`, the worker's message handler, failure of the worker | `EventStore`, `StoreWorker` |
| Agent loop (`execution/agent-loop.ts`) | one `AbortController` per live run, the promise that owns it | `run`, `drive`, `monitor`, `compact`, `dispatchToolCalls`, `finishCancellation`, `finish`, `close` | `AgentLoop`; `run` and `close` in `EventStore` |
| Tool service (`execution/tool-service.ts`, `tool-registry.ts`) | operations in flight | `prepare`, `advance`, commit turn, dispatch to a tool | `ToolService`, `Operations` |
| Model provider boundary (`providers/model-provider.ts`) | one stream: buffered deltas, deadline, abort | `executeModelRequest` | `ModelStream` |
| DeepSeek adapter (`providers/deepseek-responses.ts`) | one HTTP stream | `stream` | its event protocol in `ModelStream` |
| File tools (`tools/file-tools.ts`) | open handles, one temporary file | `createFile`, `executeFileTool` (writing, editing; reading, listing, searching) | `FileTool`; the readers are not modelled |
| Shell tool (`tools/shell-tools.ts`) | one process session, its pipes, deadlines | `executeShellTool` | `ShellTool` |
| Compaction and request preparation (`execution/context-*.ts`, `request-context.ts`) | none | selection of what a checkpoint summarises, projection, measurement | `Compaction`; its place in the loop in `AgentLoop` |
| Model history projection (`core/src/history.ts`, `model-context.ts`) | none | records to model messages | `ModelHistory`, `Compaction` |
| HTTP service and event stream (`http/execution-http.ts`, `sse.ts`) | phase, live commands, live streams | admission, start, failure and shutdown; stream cursor and frames | `EventStore`, `SessionFeed` |
| Web client (`web/src`) | loaded history, stream position, selection | history load, reconnect, deduplication, catalogue | `SessionFeed` |
| Content policy, contracts, launcher, acceptance drivers | | masking, schemas, start-up | not modelled (section 8) |

### 1.2 How they interact

- The HTTP host admits a command through the store client; the storage worker handles messages one at a time, so
  every append or command is one transaction: gate on other sessions' blockers, the reducer's guards, the payload
  budget, the write.
- After `run.submit` the host asks the loop to own the run.  The loop never holds a lock on it: it loads the stored
  state, decides, and appends.  Between load and append the user may cancel or decide an approval, a sibling worker
  may append, the approval deadline may pass and the service may close.  The reducer's guards are the only arbiter.
- Cancellation reaches the loop in two ways: it reads `cancelRequested` in a state it loads, or its monitor, which
  polls the store, aborts the run's `AbortController`.  Shutdown aborts the same controller with an error.
- Parallel calls of one response are driven by concurrent workers, each through `ToolService.advance`; their results
  are committed in declaration order by polling for the commit turn.
- After a crash the store opens, plans recovery facts for every unfinished run, and appends them in one transaction
  for all sessions: one refused fact keeps the whole store closed.
- Event streams and the web client follow the ledger by polling positions.

### 1.3 What is hard, and what correctness means

- *Reducer.*  The same fact is stored several times (a call's status, the set of active calls, the open step, the
  approval) and each guard reads a different copy.  Correct: the copies agree, one kind of operation is open at a
  time, gates hold, calls settle in order, a completed run hides no failure, closed history is frozen.
- *Recovery.*  It must be accepted from every reachable history, and must not claim more than the record.
- *Agent loop and tool service.*  Stale snapshots, lost races, partial failure of siblings, shutdown in the middle of
  an await.  Correct: an effect only after a durable start, before the result is saved, and at most once; a retry only on a
  checkpoint of its own step; the loop always ends; it leaves the run
  closed, or fails for a reason that is a service error.
- *Store.*  Retried commands, caches against rollback, budgets at the limit, the gate across sessions, requests
  outstanding when the worker or the process ends.  Correct: a command takes effect at most once and every answer is
  the recorded one, a failed transaction leaves nothing behind, an accepted run has one owner and an end.
- *Operations.*  A model response, a command and a file change each race a deadline, an abort and their own failures.
  Correct: the outcome is true, uncertainty is reported as such, and there is an outcome.
- *What the model is shown.*  The conversation is projected from the records again before every request, and repeated
  compactions replace parts of it.  Correct: it can be built whenever it is needed, is never revised, and loses
  nothing no summary has read.
- *Streams and web.*  Gaps and repeats across reconnects.  Correct: a tab shows an exact beginning of the history and
  catches up while the store can be read.

`PROJECT.json` lists the hazards line by line.

## 2. Modules

| Module | What it is |
| --- | --- |
| `RunReducer` | `applyEvent` for one run as operators: `Can...` is the guard of an event, the operator without it the record the event writes; `RunBlockers` is `workspaceBlockers` |
| `RunFacts` | the facts about one run record that the invariants are made of |
| `Session` | one session as a state machine: every event any writer may offer, at any time |
| `ModelHistory` | `buildModelHistory` over a session's runs, up to the first message that is not known yet |
| `Recovery` | `planRecovery` as folds of the reducer's own operators, and a restart as an action of the session |
| `EffectLedger` | abstract specification of the calls of a run: declared, held, refused or dispatched, settled in order; their effects counted, so that a second one or one after the result is no step of it |
| `ToolService` | a worker per declared call, with every await a boundary; the store's verdict on a dispatching append |
| `AgentLoop` | `drive` and everything it calls, the monitor, the user, the approval clock, the shutdown; refines `EffectLedger` |
| `StoreDatabase` | what one worker message does to rows, receipts and the three caches, as operators on a store record |
| `StoreWorker` | the worker's message loop over `StoreDatabase`, with callers that may ask anything and restarts; refines `CommandLedger` |
| `CommandLedger` | abstract specification of commands: an effect and its receipt once, every answer the recorded one |
| `EventStore` | the client's bounded queue, the worker thread, the host's phases and the drivers of accepted runs, with shutdown, crash, worker exit and disk failure, over `StoreWorker` |
| `ModelStream`, `ShellTool`, `FileTool`, `Compaction` | the operations the loop awaits: one model request, one command, one file change, the compactions of a session |
| `Operations` | one of the four runs, whichever was dispatched |
| `SessionFeed` | a browser tab, the service's event stream and the store behind it, which may close under both |
| `RunProofs` | lemmas about one run record under every event of the reducer |
| `SessionProofs` | the theorems about `Session`, `ModelHistory` and `Recovery` on top of them |
| `LoopProofs` | the theorems about `AgentLoop`, on top of `RunProofs` |
| `StoreProofs` | what a message does to a store, and the theorems about `StoreWorker` |
| `HostProofs` | the theorems about `EventStore`, on top of `StoreProofs` |
| `OperationProofs`, `FeedProofs` | the theorems about the file, shell and model operations, and about the browser's tab |
| `CompactionProofs` | the theorem about the compactions of a session |
| `MC...` | instances for TLC |

`Session`, `ModelHistory`, `Recovery`, `ToolService` and `AgentLoop` all judge a run by the same `RunReducer`
operators: the loop's model cannot be friendlier than the ledger's.  `StoreDatabase` reduces a run to what admission,
the workspace gate and the budgets tell apart, so that several sessions, restarts and caches fit one instance.

### 2.1 How state corresponds to code

- Identities are positions.  A step is its number; a request is `<<step, attempt>>`; a call is `<<step, slot>>`, the
  slot being its place in the response that declared it.  The maps of `RunState` become functions over all
  positions, with status `"absent"` for a missing key.
- `request.output.tool_calls` is the number of calls it declares.  Texts, arguments, usage and timings carry no
  guard and are left out; so are the source prefixes of a compaction.
- Only the run's last compaction is kept, since no guard reads an older one.
- `activeToolId`, the legacy singular field, is left out; `activeTools` is `activeToolIds`.
- An outcome is `[status, reason, origin]`.  `terminalSemantics` is `TerminalSemantics`.
- In `ToolService` a worker is the point of `settleTool`/`advanceOnce` it is at and the outcome it is about to record.
  A load together with the code after it is one step, an append is another.  A worker that would load, find nothing
  and sleep, waits instead; `due` says that the pending approval's deadline has passed.
- In `AgentLoop`, `pc` is the await `drive` is at, `control` the reason its `AbortController` was aborted with, `goal`
  the outcome passed to `finish`, `error` the code of the error `drive` is handling or ended with.  `Throw` is a throw
  inside `drive`'s try block, or out of its catch block when `caught` is set.
- A call's body is one effect with a choice of outcomes; `BeforeEffect` is the `beforeEffect` callback.
- In `StoreDatabase` the store is one record.  `rows` is what the committed events of a session replay to, with one
  unit of payload per event; `receipts` maps a scope and a command identity to the command and its acknowledgement;
  `states` (a bounded cache, whose order of use is `recent`), `summaries` and `sizes` are the fields of the same names.  A transaction is an
  operator from a record to a record, so a rollback is the old rows with whatever caches the code leaves.
- In `StoreWorker` a message is treated in one step, since the worker's code is synchronous; `outbox` holds replies
  not yet read.  In `EventStore` the request, its treatment, the reply's delivery and the reaction to it are four
  steps; `drive[r]` is the store call the driver of run `r` is at, and `cause` what made the host fail.
- In `ModelStream` `exec` is the local state of `executeModelRequest`: where it is, the batch, the flags.  A delta is
  its number.  The deadline is an elapsed time, read by `checkDeadline`, and a timer that may fire later.
- In `ShellTool` `os` has the command's leader, a background process of its session and one that left the session;
  any of them may end at any time, a signal being one reason.  In `FileTool` the target is absent, as approved, as
  wanted or something else.  An error of `link` or `rename` does not say whether the name was changed, so both may fail
  with effect (a name already there is a `link` that fails without one); opening the temporary file exclusively either
  makes it or does not.
- In `Compaction` a message is a user's, an answer or a call's result; `checkpoint` is the last succeeded compaction's
  two sets of hidden identities.  `told` and `covered` are history variables: what the last accepted compaction was
  measured with and what came since, and what the summary in force has read.
- In `SessionFeed` an event is its session and sequence number; `tab` is where the effect of `useSessionStream` is.
  `phase` is the host's and `storage` the store client's: once that is closed every read is refused, and the first
  refusal fails the host.

An operator named `Faulty...` is never part of a specification.  Each is a plausible bug of the code, beside the
definition it would change, and is there to show that a property can fail: every property of a passing run has one.

## 3. Runs

Every bound is in the `.cfg`; `CHECK_DEADLOCK FALSE` is set everywhere because a session may rest idle, and a loop
ends.

| Run | Instance | Distinct states | What it shows |
| --- | --- | --- | --- |
| `session_calls` | 1 run, 1 step, 3 calls, 1 delta, restart anywhere | 1.7 M | `ActiveSets`, `OneOperation`, `ToolOrder`, `Gate`, `CleanupKept`, `ResolvedAreReal`, `NoDispatchOnceStopped`, `AlwaysReopens`, `RecoveryInventsNothing`, `HistoryOnlyGrows` |
| `session_steps` | 1 run, 2 steps, 1 call, legal and illegal outcomes | 4.1 M | `TypeOK`, `TerminalClosed`, `CompletedWhole`, `HistoryFrozen`, `HistoryBuildable` |
| `agent_loop` | 1 step, 2 calls, 1 delta, pool of 2, every fault but a refused result | 1.3 M | `LeftOpen`, `LoopEnds` |
| `agent_loop_pool` | 1 step, 3 calls, pool of 2, cleanup failures, refused result writes | 0.5 M | `PoolBound`, `Drained`, `Ledger` (refinement) |
| `agent_loop_closes` | 2 steps, 1 call each, compaction and retry, no fault | 1.5 M | `LoopCloses`, `RetryHasCheckpoint` |
| `store_worker` | 2 sessions on nested roots, 2 runs, 2 starts, budget 6 of 7, 1 cached state | 0.2 M | `CachesAgree`, `WorkspaceGate`, `DeletedAtRest`, `StartupIsAtomic`, `LedgerSpec` (refinement) |
| `event_store` | 1 session, 1 run, 2 users, queue of 2, 2 starts, every ending | 0.3 M | `NoOrphan`, `NeverResumed`, `CallsSettle`, `AcceptedRunsEnd` |
| `session_feed` | 2 sessions, 5 events each, pages of 2, 2 restarts, 2 refused reads | 0.1 M | `ShowsPrefix`, `JoinIsExact`, `NeverShrinks`, `CatchesUp` |
| `operations` | 5 deltas of sizes 1 and 3; 3 processes; 2 foreign writes; 3 runs of 2 requests | 0.1 M | `AnswerIsWhole`, `CommandIsOwned`, `ChangeIsKnown`, `SummaryCovers`, `OperationEnds` |
| `cancel_leaves_open`, `refused_write_hangs` | the loop with at most one fault | | violated, section 6 |
| `uncertain_link` | the instance of `operations` | | violated, section 6 |

Why the bounds are enough.  The reducer's guards look at the open step, the step before it, the last two requests,
the earlier siblings and the set of active calls.  Two steps show every relation between steps; two attempts are all
the code admits; three siblings show a settled, a running and a waiting one at once, with an exclusive call before,
between or after parallel ones.  What several runs of a session do to each other is proved for any number of them
(section 5).  A response may declare fewer calls than the bound, so smaller cases are included.  In `AgentLoop` the same holds of workers: three calls and a pool of
two make the pool full, refilled and drained.  `FailureReasons` holds the reasons a guard treats apart, and one that
stands for all others.

The outcomes a writer may offer to `Session` are a constant.  `MCOutcomes` has each legal kind and the illegal ones
the reducer must refuse; `MCFewOutcomes` has one of each legal kind but recovery's, for the run with three calls and
restarts: there recovery's facts come from its plan, and `session_steps` offers them one by one, in any order.

In `store_worker` two nested roots make the gate reach across sessions, every command identity is used for two
different commands, and a normal budget of 6 below a hard budget of 7 is met while work is open, by the reserve and by
the recovery of a session; a cache of one state is evicted by the other session.  In `event_store` a queue of two is
full with one user and the driver; the second start meets what the first left.  In `session_feed` a history of five
events takes three pages, the fourth event exceeds a frame, and either session may be deleted, left and selected again.
In `operations` the second delta fills a batch by itself and does not fit behind the first, the fifth exceeds the
output's limit; three processes are the leader, one of its session and one that left it; three runs with room for two
retained tokens give a hidden run behind a blocked one behind a current one, and checkpoints that summarise
checkpoints.  It was also checked with four such runs, with the same result.

## 4. Fairness

`Session` and `Recovery` assume none: they state safety only, and the environment owes the ledger nothing.

`AgentLoop` assumes weak fairness of

- the loop's own steps and each worker's steps: continuations the event loop resumes.  Among them are the end of a
  model request (`requestTimeoutMs`, after which the stream's iterator is closed; a provider that ignores its abort
  signal is not covered) and the end of a tool's body (its own limits);
- the monitor, a polling loop in the same process;
- the deadline, which is the clock.

Nothing is assumed of the user, who may never decide an approval or cancel, of the service's shutdown, or of faults.

`EventStore`: a worker that lives reads its port, replies are delivered and acted on, a failed client and a waited-for
shutdown are noticed, and each driver makes its next store call or stops when told to.  Users, faults, crashes,
shutdowns and starts are free.  A driver's work between two store calls ends because `LoopEnds` and `OperationEnds`
say so.

`SessionFeed`: the stream's handler goes on, pages and frames arrive, a failed source is reported, the retry timer
fires, and a read of a service, store or session that is gone fails.  Appending, deleting, selecting, cutting,
refusing, failing (of the host or its store) and starting again are free.  `CatchesUp` is claimed for as long as the
store can be read: a failed host still serves history, as `docs/http-service.md:17` says, a closed store serves nothing.

`Operations`: `executeModelRequest`, its commits, its deadline and its timer go on, and an aborted fetch ends, while
the provider may stay silent; the shell's polling loop goes on, its deadline and grace periods pass, while no process
has to react to any signal; system calls of a file change return; a summary that is awaited ends as a model request
does.

## 5. Proofs

Every theorem holds for every value of the constants: any number of steps, calls, runs, sessions, users, commands,
budgets, queue lengths and page sizes, and every set of faults.

| Module | Theorem | Property |
| --- | --- | --- |
| `SessionProofs` | `Invariant` | the strengthening below is inductive and holds of every reachable state |
| | `TypeCorrect`, `ActiveSetsCorrect`, `OneOperationCorrect`, `GateCorrect` | `TypeOK`, `ActiveSets`, `OneOperation`, `Gate` |
| | `RetryRecoversCorrect` | `RetryRecovers`: what the reducer alone sees to of a second request |
| | `SessionInvariant` | `SessionInv`: the run invariant together with what ties the session to its runs |
| | `OneLiveRunCorrect`, `CommandStartsOneRunCorrect` | one run is live, and a command starts one run |
| | `TerminalClosedCorrect`, `ResolvedAreRealCorrect` | `TerminalClosed`, `ResolvedAreReal` |
| | `HistoryFrozenCorrect`, `NoDispatchCorrect` | `HistoryFrozen`, `NoDispatchOnceStopped`, action properties |
| | `OutcomesInvariant` | `OutcomesHold`: `SessionInv` and the account of each run's outcomes |
| | `ToolOrderCorrect`, `CleanupKeptCorrect`, `CompletedWholeCorrect` | `ToolOrder`, `CleanupKept`, `CompletedWhole` |
| | `RecoveryInvariant` | `RecoveryInv`: `OutcomesHold`, what the conversation is read off, and what `started` proves, with restarts anywhere |
| | `RulesSurviveRestarts`, `HistorySurvivesRestarts` | every invariant and action property above, with restarts |
| | `AlwaysReopensCorrect`, `RecoveryInventsNothingCorrect` | `AlwaysReopens`, `RecoveryInventsNothing` |
| | `HistoryBuildableCorrect`, `HistoryOnlyGrowsCorrect` | `HistoryBuildable`, `HistoryOnlyGrows` (an action property) |
| `LoopProofs` | `LoopInvariant` | `LoopInv`: where the loop is, who owns each dispatched call, what each body has done |
| | `PoolBoundCorrect`, `DrainedCorrect` | `PoolBound`, `Drained` |
| | `LedgerCorrect` | `Ledger`: `AgentLoop` implements `EffectLedger` |
| | `LeftOpenCorrect` | `LeftOpen` |
| | `RetryHasCheckpointCorrect` | `RetryHasCheckpoint` |
| `StoreProofs` | `StoreInvariant` | `StoreInv`: caches, rows and receipts say the same |
| | `CachesAgreeCorrect`, `WorkspaceGateCorrect`, `DeletedAtRestCorrect`, `StartupIsAtomicCorrect` | `CachesAgree`, `WorkspaceGate`, `DeletedAtRest`, `StartupIsAtomic` |
| | `LedgerCorrect` | `LedgerSpec`: `StoreWorker` implements `CommandLedger` |
| `HostProofs` | `HostInvariant` | `HostInv`: every message under way has a caller that waits for it, and what a reply says is still so when it is read |
| | `NoOrphanCorrect`, `NeverResumedCorrect` | `NoOrphan`, `NeverResumed` |
| `OperationProofs` | `ChangeIsKnownCorrect`, `CommandIsOwnedCorrect`, `AnswerIsWholeCorrect` | `ChangeIsKnown`, `CommandIsOwned`, `AnswerIsWhole` |
| `CompactionProofs` | `SummaryCoversCorrect` | `SummaryCovers` |
| `FeedProofs` | `ShowsPrefixCorrect`, `JoinIsExactCorrect`, `NeverShrinksCorrect` | `ShowsPrefix`, `JoinIsExact`, `NeverShrinks` (an action property) |

The assumptions are those the modules name.  `BoundsAssumption`, `ParallelAssumption`, `WritesAssumption`,
`ModelAssumption` and `ChatAssumption` say of bounds and sizes that they are naturals, positive where the code's
defaults are; `BudgetAssumption` and `CacheAssumption` that the hard budget exceeds the normal one and a cache holds at
least one state; `ReasonsAssumption`, `OutcomesAssumption`, `CommandsAssumption`, `FaultsAssumption` and
`LargeAssumption` that constants are built from the enumerations of the contracts; `FailedAssumption` that providers
and tool bodies report failures of their own; `RunAssumption` and
`UsersAssumption` that an identity that stands for nobody, the host or a run is not somebody else's.

*The copies agree* (`RunProofs`).  Every event rewrites one run's record, so the invariant speaks of one record,
`RunInv`: its type, the agreement of the duplicated facts, one kind of operation open, one pending approval, the gates,
and `RetryIsRecovery` (calls only after a success, a second attempt only after a `context_limit`).  This is not
inductive: `tool.started`, `approval.requested` and `step.started` never look at `activeCompactionId`, so nothing local
keeps a call from being dispatched inside a compaction.  Two more conjuncts close the gap.  `CompactionAside`: while a
compaction is open, the open step has no successful response; with `RetryIsRecovery` it therefore has no call to
dispatch.  `RequestHasStep`: a request belongs to a step that was opened; so a new step starts without a response.  One
lemma per event shows that the record it returns keeps `RunInv`; `SameFacts` covers the events that leave the nine
fields `RunInv` reads alone.  A theorem about a specification then only has to see that it replaces a record by such a
record, which is how `SessionProofs` and `LoopProofs` both use them.

*Nothing is taken back* (`RunProofs`).  `Grows` relates a record to the one an event makes of it: the same command,
settled facts and a cancellation kept, and nothing new once the run is stopped.  One lemma per event shows it, from the
event's guard and, where a guard reads a copy, from `RunInv`.  `SessionInv` adds to `RunInv` that the live run is the
active one, that a closed run is closed in every part, that no two runs share a command, and that what was attested was
a blocker of a closed run; a closed record is never replaced, so an attestation stays true.  The two action properties
follow, since a session replaces one record at a time by one that grew from it.

*Outcomes are what they claim* (`RunProofs`).  Here the properties themselves are not inductive.  `CompletedIsWhole`
looks at all steps at once while the guards look at the open step and the one before, so `StepsWhole` keeps the chain
for any two steps, and the account of each completed step from the event that closed it.  `CleanupFailureKept` would be
lost when a failing overflow compaction overwrites `blockedReason`; `CleanupAside` says that there is no cleanup
failure to lose while such a compaction is open, because it starts only from an unblocked run.  The order of calls
needs that a start may only overtake siblings that run in parallel themselves.

*A history can always be reopened* (`SessionProofs`).  `planRecovery` is four loops whose every round appends an event
the reducer must accept, so each theorem is about rounds.  A fold is unfolded once, into a function whose `n`-th value
is what `n` rounds lead to; its induction goes through the smallest round that fails, which needs no operator as a
parameter.  A round over an open part is `Accepted`, because of what the earlier rounds closed: requests and approvals
before the calls, calls before the steps, and of calls the earlier ones first, which is the order the reducer asks for;
and it `Closes` its own part and touches nothing settled.  When all rounds are through, the run can finish as
interrupted.  For the blockers of what was recovered `RunInv` is not enough, as it does not tie a call's `started` to
its status: `DispatchKnown` does, and a call is named a blocker exactly if its tool was dispatched and no outcome was
recorded.

*The conversation is only continued* (`SessionProofs`).  `buildModelHistory` throws where a call it should mention has
no outcome.  `Told` says what keeps it from that: only a successful answer declares calls, an open request has no
`context_limit` behind it, a terminal step that did not complete blocks its run, and the user's message comes first.
`PausedBuilds` draws the conclusion for a run whose open step has no successful response, `ClosedBuilds` for one that is
over.  That the conversation only grows compares
two loops over two records that differ by one event: after every round either they have said the same, or the earlier
one has no request left to tell (`Abreast`); a new request comes after every one there was (`Fresh`).  Both
`Told` and `DispatchKnown` were model-checked first.

*The loop owns what it dispatches* (`LoopProofs`).  The loop appends nothing the reducer would refuse from somebody
else, so the run keeps `RunInv` and the account of outcomes; `LoopInv` adds the loop's side.  `PoolBound` is not
inductive: a worker that fails leaves its place although its call is still dispatched, so what is bounded is `Held`,
the busy slots together with the dispatched calls of failed workers.  `Drained` needs `BusyWhere` (a worker lives only
while the loop waits for it, or after a shutdown threw the loop out) and `Owned` (a dispatched call has a worker, or
one that failed with its outcome in hand, unless the service stops).  For `EffectLedger`, `BodiesKnown` ties a worker's
point to what its call's body has done and `CallsKnown` a call's status to it; every step then does one of seven things
to the calls: nothing, or what an action of `EffectLedger` says (a declaration, a request for a decision, a decision, a
dispatch, an effect, a settlement).  The effects are a variable of
`EffectLedger` of their own: its only action that counts one is that of a dispatched call without one.  The order of
settlements comes from the reducer's `nextTool`, not from the workers' turns.  `LoopInv` was model-checked on the three instances of the loop first.

*A run is left open only for a reason* (`LoopProofs`).  `drive` has no way out but its last append, `run.finished`, so
the question is which appends can be refused, where.  `OpenInv` answers it for as long as nobody stopped the service
and no result was lost (`Clear`): there the loop knows, at every await, what the reducer will see of the run.
`StepsInOrder`, `RequestsKnown` and `DeclaredInOrder` say how far step, request and declarations have come, `RunOpen`,
`NothingElseOpen` and `Unblocked` that nothing else is open and no blocker in the way, `GatesKnown` and `Decided` what
is known of approvals and of a worker's decision behind them.  The heart is `Turn`: the call of a worker that has not
dispatched it yet may still start, because the loop launches one such worker at a time, waits until it has started, and
an exclusive one only with the pool empty (`Crew`).  What remains are refusals that no knowledge of the run excludes:
a cancellation that came in between, another session's blocker, the budget.  `ErrorsKnown` follows them through
the handler, which sweeps the calls and tries to close the run once more, and `Closing` says that this second attempt fits
the run unless a call stayed open.  A step of one worker must not take a sibling's turn away; that is one lemma,
`WorkerAccount`, for all of them.  `OpenInv` was model-checked on the instances of the loop first, and `LeftOpen` also
with refused results.

*A retry has its checkpoint* (`LoopProofs`).  The reducer accepts a second request after any succeeded overflow
compaction that is the run's last.  That it is the open step's is the loop's doing: `CheckpointInv` follows the loop
from the `context_limit` answer over the summary to the request, where either the step's first request is still to come or
its checkpoint stands.  A new step starts without a request (`RequestHasStep`), so an earlier step's checkpoint never
meets a second request of it.

*What is cached is what is stored* (`StoreProofs`).  The properties speak of committed rows and the code reads caches,
so each rests on `Agree`: between two messages every cached state, summary and size is the row's.  `Numbered` (a
session's runs are numbered without a gap, so the next number is fresh) and `ReceiptsSound` (a receipt belongs to the
session its acknowledgement names, and every session has one) complete `StoreInv`.  One lemma per message then says
what it does to rows and receipts: nothing, admit a command with its receipt, or delete sessions with theirs, and each
theorem, the refinement included, follows from those.  The workspace gate is shown for sessions on any overlapping
roots, although the code looks it up in cached summaries.

*A reply is still true when it is read* (`HostProofs`).  A request, its treatment by the worker, the reply and what
the caller makes of it are four steps, and the host may fail, stop or crash between any two.  `HostInv` has five parts.
`InFlight`: every message comes from a caller that waits for it, one at a time.  `DriversWait`: a driver is still where
it sent its message from.  `RepliesHold`: a run reported terminal or finished stays so (`Done` is kept by whatever the
store does next), and nobody is told that work has begun while the host is ready.  `BegunIsDriven`: a run whose work
began has its driver, which is why that answer cannot come; it holds at the start because recovery leaves nothing
active (`Starting`).  `ActiveIsAccepted`: an active run has a driver or its submission's reply is under way; the reply
stays the witness until its delivery starts the driver.  Of the store only this is used: what a message leaves of each
run (`Keeps`, `Founds`, `Activates`), which follows from `StoreInv`.  `HostInv` was model-checked on the instance of
`event_store` first.

*An operation knows what it did* (`OperationProofs`).  For a file change, `ChangePoint` says at each await whether the
target is still the approved one, or was made by a link that reported an error (`LinkMisreported`, the one exception of
`ChangeIsKnown`), `TempOwned` who must remove the temporary file, `ErrorIsKnown` and `ResultIsError`
that the reported outcome is the first failure's.  For a command, `Owned` says which processes the tool answers for,
`Heard` and `Asked` what it was told of their end and what it asked of them, `Proven` what a claimed success or
cancellation has behind it.  For a model request, `Ordered` and `Counted` account for every delta as saved, flushing,
pending or dropped, `InTime` for the deadline, `Whole` for what a success has saved.

*A summary has read what it hides* (`CompactionProofs`).  Three loops have to agree: the one that shows a conversation,
the one that groups what is shown, and the one that goes over the groups from the newest back; and the first reads the
checkpoint that the last leads to.  They are related through keys, a message's run and request.  A history picks the
messages whose keys are visible (`Picks`), a group is a piece of it under one key (`IsCut`), and the keys the new
checkpoint leaves visible are those of the groups that were kept (`KeptIsVisible`); so what is retained is exactly what
will be shown behind the summary (`PlanHistory`).  That needs a conversation in `Turns`, in which a result follows its
answer and no later answer has an earlier one's key, which in turn needs the requests of a run to be numbered without a
gap (`Conversation`).  `ChatInv` adds that a checkpoint hides only messages there are (`Hidden`), what is told and covered
(`Carried`), and that an awaited plan still fits the conversation when its summary arrives (`Pending`).  `ChatInv` was
model-checked on the instance of `operations` first.

*A tab shows a prefix* (`FeedProofs`).  A page, a frame of the stream and the browser's list are all prefixes of one
session's history (`EventsArePrefix`, `LoadIsPrefix`, `StreamFollows`), and `TabFollows` says whose history it is, for
as long as the selection has not changed.

What follows for this code: whatever the loop, the recovery or a later writer appends, in whatever order, the ledger
keeps these facts; whatever users, drivers and restarts ask of the store, caches and receipts do too.

Every safety property of a passing run has a theorem.  Only model-checked is liveness (`LoopEnds`, `LoopCloses`,
`CallsSettle`, `AcceptedRunsEnd`, `CatchesUp`, `OperationEnds`): it needs fairness, whose `ENABLED` the proof system
does not handle.

## 6. What the checks found

The first three are runs that TLC must find violated; `PROJECT.json` quotes the line of the documentation.

1. **A cancellation can end the loop with the run open** (`cancel_leaves_open`).  The second of two parallel calls,
   not yet dispatched, observes the cancellation and is settled at once, without waiting for its turn.  The first is
   still running, so the reducer refuses with `tool-order`, which is not among the errors `drive` takes for a lost
   race.  `drive` rejects, and the HTTP host then fails as a whole (`execution-http.ts:221`); the run is closed only by
   the next start's recovery.  With a pool of one, `LoopCloses` holds: the overlap is what it takes.
2. **A refused result hangs the loop** (`refused_write_hangs`).  If the store refuses to save one call's result, its
   parallel sibling waits for a turn that never comes; the error stays inside the pool until the service closes.
3. **An uncertain link is reported as known** (`uncertain_link`).  `createFile` sets `linked` only after `link` has
   resolved (`file-tools.ts:185`).  A link that made the name and reported an error is therefore rethrown as it is and
   recorded as `tool_failed`, with the new file in place; `docs/file-tools.md:42` says that an uncertain link becomes
   `cleanup_failed`, as an uncertain rename does (319-333).  `ChangeIsKnown` excepts exactly this case.

Observations.  The first three have a configuration of their own, which is expected to fail.

- *A compaction is sent after a cancellation* (`AgentLoopOverflowAfterCancel.cfg`).  After a `context_limit` answer the
  loop starts the overflow compaction without looking at the loaded run's cancellation (`agent-loop.ts:244-248`), and
  the reducer's branch does not either (`reducer.ts:261-264`); `docs/agent-loop.md:45` says that accepted intent
  prevents new model dispatch.
- *Exhausted capacity can leave the run open* (`AgentLoopCapacityLeavesOpen.cfg`).  `session_capacity` is handled at a
  model request and in the tool phase, but not at `step.started` (`agent-loop.ts:172`); and in the tool phase only the
  first open call is settled (271-285), so with two the step cannot close; compare `docs/agent-loop.md:60`.
- *A deletion can stop the host* (`EventStoreDeletionStopsHost.cfg`).  `finish` appends `run.finished` and then loads
  the outcome (`agent-loop.ts:496-507`).  A session deleted in between is at rest, so the store allows it; the load
  finds no run and throws, and the host takes it for a failure of the execution (`execution-http.ts:220`), although
  `docs/http-service.md:45` keeps expected conflicts from failing it.  A `workspace_blocked` refusal of `step.started`,
  caused by another session, fails the host the same way.
- *The chat's controls.*  `docs/chat-controls.md:31` has an uncertain delivery disable mutations until a refresh, but
  selecting another session clears it (`App.tsx:140`); `submit` has no guard against a second click before the
  component renders again (163-176), and `awaitingRun` is not kept per session (54, 125).  Read, not modelled.
- The reducer alone would accept closing a step inside an open compaction, and a failed overflow compaction then
  overwrites `blockedReason` (`reducer.ts:298`).  No writer of the repository does so.
- The reducer alone would accept a retry on an earlier step's checkpoint (`reducer.ts:203`), while
  `docs/context-compaction.md:47` asks for a committed one.  The loop never offers it: `RetryHasCheckpoint`.

`LeftOpen`, which is proved, is the list of all the ways a loop leaves its run open.  A result the store refused is
one of them: its call stays dispatched, so neither step nor run can close.  `Drained` says that apart from a
shutdown it leaves no worker behind.  A shutdown is excepted because `waitForToolStart` throws past active siblings.

## 7. Plan

Modelled first, because everything else is judged by it, were the reducer and its recovery; then the loop and its
tools; then the store, the host, the operations and what is shown.  What is left, in order:

1. The pool of `AgentLoop` composed with the host's `close()`: the calls that outlive `waitForToolStart`.
2. Approval decisions and their receipts in `StoreDatabase`, which take the path of `run.cancel`.
3. The browser's submission and approval controls against the command receipts of the store.

## 8. Not modelled

- *Data.*  Content masking and titles, token estimates, the pruning of tool results, deterministic facts, workspace
  instructions, the contracts' schemas, the wire format of the DeepSeek adapter: no guard of another part reads what
  they compute, except as an outcome or a size, which is a choice here.
- *Reading.*  Listing, searching and reading files, previews and directory listings of the service, the projections
  that list sessions: they change nothing, or only caches covered by `CachesAgree`.
- *Views.*  The layout of chat and trace, and the controls with their drafts: functions of shown events and of what a
  user does; the controls are in the plan.
- *Environment.*  The launcher, acceptance drivers and scripts hold no state of the system.  SQLite is a transaction
  that commits or does not; the operating system's processes and files are nondeterministic.
- *In the loop.*  Several runs of different sessions at once (they meet in the store's gate, a fault here), errors of
  preparing a request, and refused writes other than a call's result.
- *Between the models.*  `EventStore` drives a run at the grain of its store calls and `AgentLoop` has the detail; that
  the one refines the other is not checked.
