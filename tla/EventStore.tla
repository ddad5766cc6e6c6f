------------------------------ MODULE EventStore ------------------------------
(***************************************************************************)
(* The store's client (SqliteWorkerStore), its worker thread and the host  *)
(* that admits commands and drives runs (ExecutionHttpServer with          *)
(* AgentLoopService.run).  A request goes through a bounded FIFO to the    *)
(* worker, which treats one at a time; the replies come back in order, and *)
(* everybody acts on a reply later than the worker on the request.  The    *)
(* process may die at any point, and the worker thread or the disk may     *)
(* fail; only "db"'s rows and receipts survive.                            *)
(*                                                                         *)
(* A driver is the loop of one run, at the grain of its store calls: load, *)
(* dispatch and settle work, close, load the outcome.  AgentLoop has the   *)
(* detail.                                                                 *)
(***************************************************************************)
EXTENDS StoreWorker

CONSTANTS
  Users,       \* HTTP requests that may be outstanding
  MaxPending,  \* requests posted and not settled
  Endings      \* what may end the process: of "close", "crash", "worker_exit", "disk"

ASSUME UsersAssumption == Users \cap (Runs \cup {Host}) = {}

VARIABLES
  inbox,    \* requests posted and not treated
  closed,   \* the client refuses calls
  pending,  \* whose call is outstanding: a user, a run's driver or the host
  phase,    \* "down", "starting", "ready", "failed", "stopping" or "closing"
  cause,    \* why the host failed
  drive     \* run -> "none", "new", "idle", "tool", "closing" or "check"

vars == <<db, worker, inbox, outbox, closed, pending, phase, cause, drive, starts>>

NoDrives == [r \in Runs |-> "none"]

HostInit ==
  /\ db = NewStore /\ worker = "dead" /\ inbox = <<>> /\ outbox = <<>> /\ closed = TRUE /\ pending = {}
  /\ phase = "down" /\ cause = "none" /\ drive = NoDrives /\ starts = 0

-----------------------------------------------------------------------------
(***************************************************************************)
(* call: refused when closed or full, else posted.                         *)
(***************************************************************************)
CallError == IF closed THEN "closed" ELSE IF Cardinality(pending) >= MaxPending THEN "queue_full" ELSE "none"

Post(request) ==
  /\ inbox' = Append(inbox, request)
  /\ pending' = pending \cup {request.from}

\* The host's onRequest hook and execute: only a ready host admits.
UserAsks(u) ==
  /\ phase = "ready" /\ u \notin pending /\ CallError = "none"
  /\ \E request \in UserRequests({u}) : Post(request)
  /\ UNCHANGED <<db, worker, outbox, closed, phase, cause, drive, starts>>

\* fail(): the first failure of a ready host counts; the loop is closed.
HostFails(why) ==
  /\ phase' = IF phase = "ready" THEN "failed" ELSE phase
  /\ cause' = IF phase = "ready" THEN why ELSE cause

\* A call the closed client refuses is no expected code: the host fails at the next request.
UserRefused ==
  /\ phase = "ready" /\ closed
  /\ HostFails("storage")
  /\ UNCHANGED <<db, worker, inbox, outbox, closed, pending, drive, starts>>

-----------------------------------------------------------------------------
(***************************************************************************)
(* The worker: one message, one transaction, one reply.                    *)
(***************************************************************************)
WorkerTreats ==
  /\ worker \in {"fresh", "open"} /\ inbox # <<>>
  /\ Treat(Head(inbox))
  /\ outbox' = Append(outbox, ReplyTo(Head(inbox), Treated(Head(inbox))))
  /\ inbox' = Tail(inbox)
  /\ UNCHANGED <<closed, pending, phase, cause, drive, starts>>

\* A disk error rolls back and stops the worker for good; what is queued is never read.
WorkerFails ==
  /\ "disk" \in Endings /\ worker = "open" /\ inbox # <<>>
  /\ db' = InvalidateDerived(db)
  /\ outbox' = Append(outbox, [request |-> Head(inbox), code |-> "SQLITE_FULL", ack |-> NoAck, fatal |-> TRUE])
  /\ worker' = "stopped" /\ inbox' = <<>>
  /\ UNCHANGED <<closed, pending, phase, cause, drive, starts>>

\* The thread ends on its own; replies under way may be lost with it.
WorkerExits ==
  /\ "worker_exit" \in Endings /\ worker = "open"
  /\ worker' = "dead" /\ inbox' = <<>> /\ outbox' \in {outbox, <<>>}
  /\ db' = InvalidateDerived(db)
  /\ UNCHANGED <<closed, pending, phase, cause, drive, starts>>

-----------------------------------------------------------------------------
(***************************************************************************)
(* The host.                                                               *)
(***************************************************************************)
Drive(r, to) == drive' = [drive EXCEPT ![r] = to]

HostKeeps == UNCHANGED <<phase, cause>>

\* A driver's error nobody listens to.
FaultyDriverFails(r, why) == Drive(r, "none") /\ HostKeeps

\* The driver ends with an error, which loop.run's owner reports.
DriverFails(r, why) == Drive(r, "none") /\ HostFails(why)

\* Every accepted submission starts a driver, joined or not.
FaultyDrives(r) == Drive(r, "new")

\* run(): a live run is joined; a settled one gets a driver that only reads its outcome.
Drives(r) == IF drive[r] # "none" THEN UNCHANGED drive ELSE Drive(r, "new")

\* Codes httpError answers without failing the host.
ExpectedCodes == {"command_conflict", "session_busy", "run_not_active", "run_cancelling", "workspace_blocked",
                  "blocker_not_found", "session_not_found", "session_capacity", "pool_exhausted"}

\* execute's continuation, whether or not anybody still listens to the response.
UserAnswered(reply) ==
  IF reply.code = "ok"
  THEN /\ HostKeeps
       /\ IF reply.request.op = "command" /\ reply.request.command.type = "run.submit" /\ phase = "ready"
          THEN Drives(reply.ack.run)
          ELSE UNCHANGED drive
  ELSE /\ UNCHANGED drive
       /\ IF reply.code \in ExpectedCodes THEN HostKeeps ELSE HostFails(reply.code)

\* A refused dispatch is tried again.
FaultyAfterRefusal == "idle"

\* A refusal that a saved cancellation explains leads to the close; so does one by a full session,
\* except of step.started.
AfterRefusal == "closing"

DriverAnswered(reply) ==
  LET r  == reply.request.from
      op == reply.request.op
      IsWork == op = "append_batch" /\ reply.request.events[1].type = "work"
  IN /\ CASE op = "read_state" /\ drive[r] = "new" ->
               IF reply.code = "unstarted" THEN Drive(r, "idle") /\ HostKeeps
               ELSE IF reply.code = "terminal" THEN Drive(r, "none") /\ HostKeeps
               ELSE DriverFails(r, reply.code)
          [] op = "read_state" /\ drive[r] = "check" ->
               IF reply.code = "terminal" THEN Drive(r, "none") /\ HostKeeps ELSE DriverFails(r, reply.code)
          [] IsWork ->
               \/ reply.code = "ok" /\ Drive(r, "tool") /\ HostKeeps
               \/ reply.code \in {"late-event", "session_capacity"} /\ Drive(r, AfterRefusal) /\ HostKeeps
               \/ reply.code \notin {"ok", "late-event"} /\ DriverFails(r, reply.code)
          [] op = "append_batch" /\ ~IsWork ->
               IF reply.code # "ok" THEN DriverFails(r, reply.code)
               ELSE /\ HostKeeps
                    /\ Drive(r, CASE reply.request.events[1].type = "settled"        -> "idle"
                                  [] reply.request.events[1].type = "cleanup_failed" -> "closing"
                                  [] reply.request.events[1].type = "finished"       -> "check")

\* The store settles one call of a user or a driver.
Deliver ==
  /\ outbox # <<>> /\ ~Head(outbox).fatal /\ Head(outbox).request.from # Host
  /\ LET reply == Head(outbox)
     IN /\ pending' = pending \ {reply.request.from}
        /\ IF reply.request.from \in Runs THEN DriverAnswered(reply) ELSE UserAnswered(reply)
  /\ outbox' = Tail(outbox)
  /\ UNCHANGED <<db, worker, inbox, closed, starts>>

\* The end of the process, whatever ended it.
Down ==
  /\ phase' = "down" /\ worker' = "dead" /\ inbox' = <<>> /\ outbox' = <<>> /\ closed' = TRUE /\ pending' = {}
  /\ drive' = NoDrives /\ db' = InvalidateDerived(db) /\ cause' = "none"
  /\ UNCHANGED <<starts>>

\* The store has opened, or has refused to, or has closed: without a store the process ends.
HostLearns ==
  /\ outbox # <<>> /\ Head(outbox).request.from = Host
  /\ IF phase = "starting" /\ Head(outbox).code = "ok"
     THEN /\ phase' = "ready" /\ outbox' = Tail(outbox) /\ pending' = pending \ {Host}
          /\ UNCHANGED <<db, worker, inbox, closed, cause, drive, starts>>
     ELSE Down

(***************************************************************************)
(* fail: a fatal reply, or the thread's end, rejects every pending call    *)
(* and closes the client; drivers end, and so does a host that is ready.   *)
(* A host that waits for the store to open or to close is done.            *)
(***************************************************************************)
\* Only the call whose reply was fatal is settled.
FaultyRejects == IF outbox # <<>> THEN pending' = pending \ {Head(outbox).request.from} ELSE UNCHANGED pending

Rejects == pending' = {}

ClientFails ==
  /\ IF outbox # <<>> THEN Head(outbox).fatal ELSE worker = "dead" /\ (~closed \/ pending # {})
  /\ IF phase \in {"starting", "closing"} THEN Down
     ELSE /\ closed' = TRUE /\ Rejects /\ outbox' = <<>> /\ inbox' = <<>> /\ worker' = "dead"
          /\ drive' = [r \in Runs |-> IF r \in pending THEN "none" ELSE drive[r]]
          /\ IF pending # {} THEN HostFails("storage") ELSE HostKeeps
          /\ UNCHANGED <<db, starts>>

-----------------------------------------------------------------------------
(***************************************************************************)
(* A driver's own steps: one call to the store each, which a full or       *)
(* closed client refuses.  While a call is pending it waits.               *)
(***************************************************************************)
DriverCalls(r, request) ==
  /\ IF CallError = "none" THEN Post(request) /\ UNCHANGED <<drive, phase, cause>>
     ELSE DriverFails(r, CallError) /\ UNCHANGED <<inbox, pending>>
  /\ UNCHANGED <<db, worker, outbox, closed, starts>>

Load(r)         == [from |-> r, op |-> "read_state", session |-> r[1]]
Write(r, types) == [from |-> r, op |-> "append_batch", session |-> r[1], events |-> <<Fact(types, r)>>]

\* Shutdown throws at the next control check.  A tool's body is drained and its result saved first.
DriverStops(r) ==
  /\ phase # "ready" /\ drive[r] \in {"new", "idle", "closing", "check"} /\ r \notin pending
  /\ Drive(r, "none")
  /\ UNCHANGED <<db, worker, inbox, outbox, closed, pending, phase, cause, starts>>

DriverStep(r) ==
  /\ phase \notin {"down", "starting"} /\ r \notin pending
  /\ \/ drive[r] \in {"new", "check"} /\ phase = "ready" /\ DriverCalls(r, Load(r))
     \/ drive[r] = "idle" /\ phase = "ready" /\ \E type \in {"work", "finished"} : DriverCalls(r, Write(r, type))
     \/ drive[r] = "tool" /\ \E type \in {"settled", "cleanup_failed"} : DriverCalls(r, Write(r, type))
     \/ drive[r] = "closing" /\ phase = "ready" /\ DriverCalls(r, Write(r, "finished"))

-----------------------------------------------------------------------------
(***************************************************************************)
(* The process.                                                            *)
(***************************************************************************)
Start ==
  /\ phase = "down" /\ starts < MaxStarts
  /\ starts' = starts + 1
  /\ phase' = "starting" /\ worker' = "fresh" /\ closed' = FALSE /\ cause' = "none"
  /\ Post([from |-> Host, op |-> "open"])
  /\ UNCHANGED <<db, outbox, drive>>

\* close() of the host: commands and drivers are waited for, then the store is closed.
HostCloses ==
  /\ phase \in {"ready", "failed"}
  /\ phase' = "stopping"
  /\ UNCHANGED <<db, worker, inbox, outbox, closed, pending, cause, drive, starts>>

StoreCloses ==
  /\ phase = "stopping" /\ pending = {} /\ drive = NoDrives
  /\ IF closed THEN Down
     ELSE /\ phase' = "closing" /\ closed' = TRUE
          /\ Post([from |-> Host, op |-> "close"])
          /\ UNCHANGED <<db, worker, outbox, cause, drive, starts>>

Crash ==
  /\ "crash" \in Endings /\ phase # "down"
  /\ Down

HostNext ==
  \/ \E u \in Users : UserAsks(u)
  \/ UserRefused
  \/ WorkerTreats \/ WorkerFails \/ WorkerExits
  \/ Deliver \/ HostLearns \/ ClientFails
  \/ \E r \in Runs : DriverStops(r) \/ DriverStep(r)
  \/ Start \/ HostCloses \/ StoreCloses \/ Crash

\* A worker that lives reads its port.
WorkerTakes == worker \in {"fresh", "open"} /\ inbox # <<>> /\ inbox' = Tail(inbox)

\* The worker, the event loop and the drivers go on; users, faults, restarts and shutdowns are free.
Fairness ==
  /\ WF_inbox(WorkerTakes) /\ WF_vars(Deliver) /\ WF_vars(HostLearns)
  /\ WF_vars(ClientFails) /\ WF_vars(StoreCloses)
  /\ \A r \in Runs : WF_vars(DriverStops(r)) /\ WF_vars(DriverStep(r))

HostSpec == HostInit /\ [][HostNext]_vars /\ Fairness

-----------------------------------------------------------------------------
(***************************************************************************)
(* Properties.                                                             *)
(***************************************************************************)

(***************************************************************************)
(* An accepted run always has somebody to close it while the host is       *)
(* ready: a driver, or the acknowledgement that is about to start one.     *)
(* Nothing else would end it before the next start's recovery, and until   *)
(* then its session takes no other run.                                    *)
(***************************************************************************)
Awaited(r) ==
  \/ drive[r] # "none"
  \/ \E i \in DOMAIN outbox : outbox[i].request.op = "command" /\ outbox[i].code = "ok" /\ outbox[i].ack.run = r
  \/ closed \/ worker # "open" \/ (outbox # <<>> /\ outbox[Len(outbox)].fatal)

NoOrphan == phase = "ready" => \A s \in DOMAIN db.rows : db.rows[s].active # NoRun => Awaited(db.rows[s].active)

(***************************************************************************)
(* No driver meets a run whose work somebody else began: retries join the  *)
(* live driver, and recovery has closed what an earlier process began.     *)
(***************************************************************************)
NeverResumed == cause # "started"

(***************************************************************************)
(* Every call to the store is settled, whatever happens to the worker.     *)
(***************************************************************************)
CallsSettle == \A caller \in Users \cup Runs : caller \in pending ~> caller \notin pending

(***************************************************************************)
(* An accepted run reaches its end while the host is ready: its driver     *)
(* closes it, or fails and takes the host along.                           *)
(***************************************************************************)
Unfinished(r) == phase = "ready" /\ \E s \in DOMAIN db.rows : db.rows[s].active = r

AcceptedRunsEnd == \A r \in Runs : Unfinished(r) ~> ~Unfinished(r)

(***************************************************************************)
(* A failure of the host is a failure of the storage or of the execution;  *)
(* deleting a session at rest is neither.                                  *)
(***************************************************************************)
DeletionSparesHost == cause # "missing_run"
=============================================================================
