------------------------------ MODULE StoreDatabase ------------------------------
(***************************************************************************)
(* StorageDatabase: what one worker message does to the committed rows and *)
(* receipts and to the caches derived from them.                           *)
(*                                                                         *)
(* A store is a record.  "rows" maps a session to the state its committed  *)
(* events replay to, one unit of payload per event; "receipts" maps        *)
(* <<scope, command id>> to the command and its acknowledgement; "states"  *)
(* (with "recent", its sessions, the least recently used first),           *)
(* "summaries" and "sizes" are the three caches.  A session's identity is  *)
(* a fresh number, a run's its session and its place in it.  The lifecycle *)
(* of a run is that of RunReducer, reduced to what admission, the          *)
(* workspace gate and the budgets can tell apart: dispatches ("work"),     *)
(* their settlements and the closing fact.  Approval decisions follow the  *)
(* path of run.cancel.                                                     *)
(***************************************************************************)
EXTENDS Integers, FiniteSets, SequencesExt

CONSTANTS
  MaxSession,                \* bound: sessions ever created
  MaxRun,                    \* bound: runs the store holds
  Roots,                     \* workspace roots, each the sequence of its path's names
  NormalBudget, HardBudget,  \* payload units a session may retain
  CacheLimit                 \* replayed states kept

ASSUME BudgetAssumption == NormalBudget \in Nat \ {0} /\ HardBudget \in Nat /\ HardBudget > NormalBudget
ASSUME CacheAssumption == CacheLimit \in Nat \ {0}

NoRun   == <<0, 0>>
NoAck   == [session |-> 0, run |-> NoRun]
Empty   == [x \in {} |-> x]
Without(f, S) == [x \in DOMAIN f \ S |-> f[x]]
Only(x, v) == [y \in {x} |-> v]
Override(f, g) == [x \in DOMAIN f \cup DOMAIN g |-> IF x \in DOMAIN f THEN f[x] ELSE g[x]]

NewStore == [rows |-> Empty, receipts |-> Empty, states |-> Empty, recent |-> <<>>,
             summaries |-> Empty, sizes |-> Empty, sessions |-> 0]

\* Nothing derived survives a failed transaction or a closed connection.
InvalidateDerived(d) == [d EXCEPT !.states = Empty, !.recent = <<>>, !.summaries = Empty, !.sizes = Empty]

Overlaps(a, b) == IsPrefix(a, b) \/ IsPrefix(b, a)

-----------------------------------------------------------------------------
(***************************************************************************)
(* The reducer, as far as the store looks at it.                           *)
(***************************************************************************)
Gated           == {"run.started", "work"}
ReserveEligible == {"settled", "cleanup_failed", "cancel", "finished", "resolved"}

Created(root) ==
  [root |-> root, runs |-> {}, active |-> NoRun, started |-> FALSE, busy |-> FALSE, cancelled |-> FALSE,
   blocked |-> FALSE, size |-> 1]

CanApply(row, e) ==
  CASE e.type = "run.started" -> row.active = NoRun
    [] e.type = "resolved"    -> row.active = NoRun /\ row.blocked
    [] OTHER ->
         /\ row.active = e.run /\ row.active # NoRun
         /\ e.type = "user.message" => ~row.started
         /\ e.type = "work" => ~row.cancelled /\ ~row.busy
         /\ e.type \in {"settled", "cleanup_failed"} => row.busy
         /\ e.type = "cancel" => ~row.cancelled
         /\ e.type = "finished" => ~row.busy

Applied(row, e) ==
  LET next == [row EXCEPT !.size = @ + 1]
  IN CASE e.type = "run.started"    -> [next EXCEPT !.runs = @ \cup {e.run}, !.active = e.run, !.started = FALSE,
                                                    !.cancelled = FALSE]
       [] e.type = "work"           -> [next EXCEPT !.started = TRUE, !.busy = TRUE]
       [] e.type = "settled"        -> [next EXCEPT !.busy = FALSE]
       [] e.type = "cleanup_failed" -> [next EXCEPT !.busy = FALSE, !.blocked = TRUE]
       [] e.type = "cancel"         -> [next EXCEPT !.cancelled = TRUE]
       [] e.type = "finished"       -> [next EXCEPT !.active = NoRun, !.cancelled = FALSE]
       [] e.type = "resolved"       -> [next EXCEPT !.blocked = FALSE]
       [] OTHER                     -> next

Fact(type, run) == [type |-> type, run |-> run]

\* planRecovery: an operation in flight becomes an unknown outcome, and the run is interrupted.
RecoveryPlan(row) ==
  IF row.active = NoRun THEN <<>>
  ELSE IF row.busy THEN <<Fact("cleanup_failed", row.active), Fact("finished", row.active)>>
  ELSE <<Fact("finished", row.active)>>

-----------------------------------------------------------------------------
(***************************************************************************)
(* The caches.  "states" keeps the most recently used; a summary is kept   *)
(* for every session seen.                                                 *)
(***************************************************************************)
Summary(row) == [root |-> row.root, active |-> row.active, blocked |-> row.blocked, size |-> row.size]

\* state(): the cached replay, or the committed rows.
StateOf(d, s) == IF s \in DOMAIN d.states THEN d.states[s] ELSE d.rows[s]

Newest(order) == IF Len(order) > CacheLimit THEN SubSeq(order, 1 + Len(order) - CacheLimit, Len(order)) ELSE order

MovedLast(order, sessions) == SelectSeq(order, LAMBDA s : s \notin sessions) \o SetToSortSeq(sessions, <)

\* cacheState of each session of "rows" in turn.
CacheStates(d, rows) ==
  LET recent == Newest(MovedLast(d.recent, DOMAIN rows))
      states == Override(rows, d.states)
  IN [d EXCEPT !.recent = recent,
               !.states = Without(states, DOMAIN states \ Range(recent)),
               !.summaries = Override([s \in DOMAIN rows |-> Summary(rows[s])], @)]

\* Reading a state moves it to the recent end; loading it also writes its summary.
Touched(d, s) ==
  IF s \notin DOMAIN d.rows THEN d
  ELSE IF s \in DOMAIN d.states THEN [d EXCEPT !.recent = MovedLast(@, {s})]
  ELSE CacheStates(d, Only(s, d.rows[s]))

DropCached(d, S) ==
  [d EXCEPT !.states = Without(@, S), !.recent = SelectSeq(@, LAMBDA s : s \notin S),
            !.summaries = Without(@, S), !.sizes = Without(@, S)]

-----------------------------------------------------------------------------
(***************************************************************************)
(* requireSafeWorkspace: every session of the store is looked at, its own  *)
(* included; those without a summary are loaded.                           *)
(***************************************************************************)
Summarised(d) == CacheStates(d, [s \in DOMAIN d.rows \ DOMAIN d.summaries |-> d.rows[s]])

\* A gate that looks at the exact root only.
FaultyWorkspaceBlocked(d, root) ==
  \E s \in DOMAIN d.rows : d.summaries[s].blocked /\ root = d.summaries[s].root

WorkspaceBlocked(d, root) ==
  \E s \in DOMAIN d.rows : d.summaries[s].blocked /\ Overlaps(root, d.summaries[s].root)

(***************************************************************************)
(* appendWithinTransaction, one event.  The caches are written at once;    *)
(* an error is what makes the caller roll back.                            *)
(***************************************************************************)
SizeOf(d, s) == IF s \in DOMAIN d.sizes THEN d.sizes[s] ELSE d.rows[s].size

OverBudget(type, size) == size > HardBudget \/ (type \notin ReserveEligible /\ size > NormalBudget)

Stored(d, s, row) ==
  CacheStates([d EXCEPT !.rows = Override(Only(s, row), @), !.sizes = Override(Only(s, row.size), @)], Only(s, row))

\* "seen" is the store once the session's state is read and, for a gated event, every summary with it.
AppendTo(row, seen, s, acc, e) ==
  LET Fail(code) == [acc EXCEPT !.error = code]
  IN IF e.type \in Gated /\ WorkspaceBlocked(seen, row.root) THEN Fail("workspace_blocked")
     ELSE IF ~CanApply(row, e) THEN Fail("late-event")
     ELSE IF OverBudget(e.type, SizeOf(seen, s) + 1) THEN Fail("session_capacity")
     ELSE [acc EXCEPT !.d = Stored(seen, s, Applied(row, e))]

Consulted(d, e) == IF e.type \in Gated THEN Summarised(d) ELSE d

AppendOne(s, acc, e) ==
  IF acc.error # "none" THEN acc ELSE AppendTo(StateOf(acc.d, s), Consulted(Touched(acc.d, s), e), s, acc, e)

\* A batch is one event or two.
AppendRest(s, acc, events) == IF Len(events) = 1 THEN acc ELSE AppendOne(s, acc, events[2])

Appended(d, s, events) == AppendRest(s, AppendOne(s, [d |-> d, error |-> "none"], events[1]), events)

-----------------------------------------------------------------------------
(***************************************************************************)
(* Messages.  Each returns the store it leaves and its reply.              *)
(***************************************************************************)
Reply(d, code, ack) == [d |-> d, code |-> code, ack |-> ack]

\* The rows and receipts of before with none of the transaction's writes.
Refused(d, code) == Reply(InvalidateDerived(d), code, NoAck)

\* A rollback that keeps what the transaction had cached.
FaultyRolledBack(d, result) ==
  Reply([d EXCEPT !.states = result.d.states, !.recent = result.d.recent, !.summaries = result.d.summaries,
                  !.sizes = result.d.sizes],
        result.error, NoAck)

\* "result" is the refused transaction.
RolledBack(d, result) == Refused(d, result.error)

Ended(d, result) == IF result.error # "none" THEN RolledBack(d, result) ELSE Reply(result.d, "ok", NoAck)

AppendBatch(d, s, events) ==
  IF s \notin DOMAIN d.rows THEN Refused(d, "late-event") ELSE Ended(d, Appended(d, s, events))

RunsOf(d) == UNION {d.rows[s].runs : s \in DOMAIN d.rows}

Scope(command) == IF command.type = "session.create" THEN 0 ELSE command.session
ReceiptKey(command) == <<Scope(command), command.id>>

\* The first admission error of a command no receipt answers.
AdmissionError(d, command) ==
  IF command.type = "session.create"
  THEN IF d.sessions = MaxSession THEN "pool_exhausted" ELSE "none"
  ELSE IF command.session \notin DOMAIN d.rows THEN "session_not_found"
  ELSE LET row == StateOf(d, command.session)
       IN CASE command.type = "run.submit" ->
                 IF row.active # NoRun THEN "session_busy"
                 ELSE IF Cardinality(RunsOf(d)) >= MaxRun THEN "pool_exhausted" ELSE "none"
            [] command.type = "workspace.blocker.resolve" ->
                 IF row.active # NoRun THEN "session_busy" ELSE IF ~row.blocked THEN "blocker_not_found" ELSE "none"
            [] command.type = "run.cancel" ->
                 IF row.active = NoRun \/ row.active # command.run THEN "run_not_active"
                 ELSE IF row.cancelled THEN "run_cancelling" ELSE "none"

CommandEvents(command, run) ==
  CASE command.type = "run.submit" -> <<Fact("run.started", run), Fact("user.message", run)>>
    [] command.type = "workspace.blocker.resolve" -> <<Fact("resolved", run)>>
    [] command.type = "run.cancel" -> <<Fact("cancel", run)>>

\* The receipt is inserted in the transaction of the events.
Receipted(d, command, ack) ==
  Reply([d EXCEPT !.receipts = Override(Only(ReceiptKey(command), [command |-> command, ack |-> ack]), @)], "ok", ack)

FreshRun(d, s) == <<s, 1 + Cardinality(StateOf(d, s).runs)>>

Admitted(d, command, run, result) ==
  IF result.error # "none" THEN RolledBack(d, result)
  ELSE Receipted(result.d, command, [session |-> command.session, run |-> run])

Admit(d, command) ==
  IF command.type = "session.create"
  THEN LET s == d.sessions + 1
       IN Receipted(Stored([d EXCEPT !.sessions = s], s, Created(command.root)), command, [session |-> s, run |-> NoRun])
  ELSE LET run == IF command.type = "run.submit" THEN FreshRun(d, command.session) ELSE command.run
       IN Admitted(d, command, run, Appended(d, command.session, CommandEvents(command, run)))

\* A lookup in the session's scope only, which a retried session.create has not.
FaultyHasReceipt(d, command) == Scope(command) # 0 /\ ReceiptKey(command) \in DOMAIN d.receipts

HasReceipt(d, command) == ReceiptKey(command) \in DOMAIN d.receipts

Execute(d, command) ==
  IF HasReceipt(d, command)
  THEN LET receipt == d.receipts[ReceiptKey(command)]
       IN IF receipt.command # command THEN Refused(d, "command_conflict")
          ELSE Reply(Touched(d, receipt.ack.session), "ok", receipt.ack)
  ELSE IF AdmissionError(d, command) # "none" THEN Refused(d, AdmissionError(d, command))
  ELSE Admit(d, command)

(***************************************************************************)
(* Deletion of one session, or of every session of one exact root: all of  *)
(* them, idle and unblocked, or none.  A session takes its receipts and    *)
(* the one that created it along.                                          *)
(***************************************************************************)
\* A deletion that does not look for a run in progress.
FaultyDeletionError(d, S) == IF S = {} \/ ~(S \subseteq DOMAIN d.rows) THEN "session_not_found" ELSE "none"

DeletionError(d, S) ==
  IF S = {} \/ ~(S \subseteq DOMAIN d.rows) THEN "session_not_found"
  ELSE IF \E s \in S : StateOf(d, s).active # NoRun THEN "session_busy"
  ELSE IF \E s \in S : StateOf(d, s).blocked THEN "workspace_blocked"
  ELSE "none"

ReceiptsOf(d, S) == {k \in DOMAIN d.receipts : k[1] \in S \/ (k[1] = 0 /\ d.receipts[k].ack.session \in S)}

DeleteSessions(d, S) ==
  IF DeletionError(d, S) # "none" THEN Refused(d, DeletionError(d, S))
  ELSE Reply(DropCached([d EXCEPT !.rows = Without(@, S), !.receipts = Without(@, ReceiptsOf(d, S))], S), "ok", NoAck)

SessionsOf(d, root) == {s \in DOMAIN d.rows : d.rows[s].root = root}

\* readState(), and what the run's driver makes of it.
ReadState(d, s, run) ==
  Reply(Touched(d, s),
        IF s \notin DOMAIN d.rows THEN "missing_run"
        ELSE LET row == StateOf(d, s)
             IN IF run \notin row.runs THEN "missing_run"
                ELSE IF row.active # run THEN "terminal"
                ELSE IF row.started THEN "started" ELSE "unstarted",
        NoAck)

(***************************************************************************)
(* open: recovery of every session in one transaction.  Its facts are      *)
(* outside the gate, so no session's recovery looks at another.  An error  *)
(* closes the connection and leaves the file as it was.                    *)
(***************************************************************************)
Recovered(d, s) ==
  LET plan == RecoveryPlan(d.rows[s])
  IN IF plan = <<>> THEN [d |-> d, error |-> "none"] ELSE Appended(d, s, plan)

Recovery(d) == [s \in DOMAIN d.rows |-> Recovered(InvalidateDerived(d), s)]

Unrecovered(recovery) == {s \in DOMAIN recovery : recovery[s].error # "none"}

RecoveredRows(d, recovery, S) == [s \in DOMAIN d.rows |-> IF s \in S THEN recovery[s].d.rows[s] ELSE d.rows[s]]

\* Every session is cached as its recovery left it.
Replayed(d, rows) ==
  LET appended == {s \in DOMAIN d.rows : RecoveryPlan(d.rows[s]) # <<>>}
  IN CacheStates([InvalidateDerived(d) EXCEPT !.rows = rows, !.sizes = [s \in appended |-> rows[s].size]], rows)

\* A recovery that commits session by session.
FaultyOpened(d, recovery) ==
  LET first == Min(Unrecovered(recovery))
  IN IF Unrecovered(recovery) # {}
     THEN Refused([d EXCEPT !.rows = RecoveredRows(d, recovery, 0..(first - 1))], recovery[first].error)
     ELSE Reply(Replayed(d, RecoveredRows(d, recovery, DOMAIN d.rows)), "ok", NoAck)

Opened(d, recovery) ==
  IF Unrecovered(recovery) # {} THEN Refused(d, recovery[Min(Unrecovered(recovery))].error)
  ELSE Reply(Replayed(d, RecoveredRows(d, recovery, DOMAIN d.rows)), "ok", NoAck)

OpenStore(d) == Opened(d, Recovery(d))

=============================================================================
