------------------------------ MODULE StoreWorker ------------------------------
(***************************************************************************)
(* The worker thread over StorageDatabase: one message, one transaction,   *)
(* one reply.  Spec lets any message the service can send come in any      *)
(* order, and the process die between any two; EventStore puts the real    *)
(* client and host around it.                                              *)
(***************************************************************************)
EXTENDS StoreDatabase

CONSTANTS
  Commands,  \* what users may ask for, and ask for again
  MaxStarts  \* bound: times the store is opened

CommandTypes == {"session.create", "run.submit", "run.cancel", "workspace.blocker.resolve"}

ASSUME BoundsAssumption == MaxSession \in Nat /\ MaxRun \in Nat
ASSUME CommandsAssumption == \A c \in Commands : c.type \in CommandTypes /\ c.session \in Nat /\ c.run \in Nat \X Nat

Sessions == 1..MaxSession
Runs     == Sessions \X (1..MaxRun)
Host     == <<0, 1>>

VARIABLES
  db,      \* the database and its caches
  worker,  \* "fresh", "open", "stopped" or "dead"
  outbox,  \* replies posted and not handled
  starts   \* times a worker was started

store == <<db, worker, outbox, starts>>

-----------------------------------------------------------------------------
Treated(request) ==
  CASE request.op = "open"             -> OpenStore(db)
    [] request.op = "command"          -> Execute(db, request.command)
    [] request.op = "delete_session"   -> DeleteSessions(db, {request.session})
    [] request.op = "delete_workspace" -> DeleteSessions(db, SessionsOf(db, request.root))
    [] request.op = "append_batch"     -> AppendBatch(db, request.session, request.events)
    [] request.op = "read_state"       -> ReadState(db, request.session, request.from)
    [] request.op = "close"            -> Reply(InvalidateDerived(db), "ok", NoAck)

ReplyTo(request, result) == [request |-> request, code |-> result.code, ack |-> result.ack, fatal |-> FALSE]

Commit(request, result) ==
  /\ db' = result.d
  /\ worker' = CASE request.op = "open" /\ result.code = "ok" -> "open"
                 [] request.op = "close" -> "stopped"
                 [] OTHER -> worker

Treat(request) == Commit(request, Treated(request))

\* Only sessions and runs the store has issued are named.
Nameable(command) == command.session <= db.sessions /\ command.run[1] <= db.sessions

UserRequests(from) ==
  [from : from, op : {"command"}, command : {c \in Commands : Nameable(c)}]
  \cup [from : from, op : {"delete_session"}, session : 1..db.sessions]
  \cup [from : from, op : {"delete_workspace"}, root : Roots]

DriverRequests(r) ==
  [from : {r}, op : {"read_state"}, session : {r[1]}]
  \cup [from : {r}, op : {"append_batch"}, session : {r[1]},
        events : {<<Fact(type, r)>> : type \in {"work", "settled", "cleanup_failed", "finished"}}]

-----------------------------------------------------------------------------
(***************************************************************************)
(* Any sequence of messages.  The drivers' messages come from runs that    *)
(* exist; a reply to a command is read, or lost with the next message.     *)
(***************************************************************************)
Init == db = NewStore /\ worker = "fresh" /\ outbox = <<>> /\ starts = 1

Open ==
  /\ worker = "fresh"
  /\ Treat([from |-> Host, op |-> "open"])
  /\ outbox' = <<>> /\ UNCHANGED starts

UserMessage ==
  /\ worker = "open"
  /\ \E request \in UserRequests({Host}) :
       /\ Treat(request)
       /\ outbox' = IF request.op = "command" /\ Treated(request).code = "ok"
                    THEN <<ReplyTo(request, Treated(request))>> ELSE <<>>
  /\ UNCHANGED starts

DriverMessage ==
  /\ worker = "open"
  /\ \E r \in RunsOf(db) : \E request \in DriverRequests(r) : Treat(request)
  /\ outbox' = <<>> /\ UNCHANGED starts

Dies ==
  /\ worker = "open" /\ starts < MaxStarts
  /\ db' = InvalidateDerived(db) /\ worker' = "fresh" /\ outbox' = <<>> /\ starts' = starts + 1

Next == Open \/ UserMessage \/ DriverMessage \/ Dies

Spec == Init /\ [][Next]_store

-----------------------------------------------------------------------------
(***************************************************************************)
(* Properties.                                                             *)
(***************************************************************************)

(***************************************************************************)
(* Between messages the caches say what the committed rows say, although   *)
(* appendWithinTransaction writes them before the commit, a refused batch  *)
(* may have written several, and deletions drop them after it.             *)
(***************************************************************************)
CachesAgree ==
  /\ \A s \in DOMAIN db.states : s \in DOMAIN db.rows /\ db.states[s] = db.rows[s]
  /\ \A s \in DOMAIN db.summaries : s \in DOMAIN db.rows /\ db.summaries[s] = Summary(db.rows[s])
  /\ \A s \in DOMAIN db.sizes : s \in DOMAIN db.rows /\ db.sizes[s] = db.rows[s].size

(***************************************************************************)
(* The gate of the workspace: no run starts and no work is dispatched in a *)
(* session while a session on an overlapping root, or itself, holds an     *)
(* unresolved blocker.                                                     *)
(***************************************************************************)
Dispatched(s) ==
  /\ s \in DOMAIN db.rows /\ s \in DOMAIN db'.rows
  /\ \/ db'.rows[s].busy /\ ~db.rows[s].busy
     \/ db'.rows[s].active # NoRun /\ db.rows[s].active = NoRun

WorkspaceGate ==
  [][\A s \in Sessions : Dispatched(s) =>
       \A t \in DOMAIN db.rows : db.rows[t].blocked => ~Overlaps(db.rows[s].root, db.rows[t].root)]_store

(***************************************************************************)
(* A session is forgotten only when no run of it is in progress and        *)
(* nothing of its workspace is unresolved.                                 *)
(***************************************************************************)
DeletedAtRest ==
  [][\A s \in DOMAIN db.rows \ DOMAIN db'.rows : db.rows[s].active = NoRun /\ ~db.rows[s].blocked]_store

(***************************************************************************)
(* Startup closes the runs of every session or changes nothing: a fact     *)
(* that does not fit one session's reserve leaves the others as they were. *)
(***************************************************************************)
AllAtRest == \A s \in DOMAIN db.rows : db.rows[s].active = NoRun

StartupIsAtomic == [][worker = "fresh" => db'.rows = db.rows \/ AllAtRest']_store

(***************************************************************************)
(* Commands keep the promises of CommandLedger across retries, lost        *)
(* answers, deletions, crashes and restarts.                               *)
(***************************************************************************)
Ledger == INSTANCE CommandLedger WITH
  effects <- db.receipts,
  made    <- RunsOf(db),
  replies <- {[command |-> outbox[i].request.command, ack |-> outbox[i].ack] :
                i \in {j \in DOMAIN outbox : outbox[j].request.op = "command" /\ outbox[j].code = "ok"}}

LedgerSpec == Ledger!Spec
=============================================================================
