------------------------------- MODULE HostProofs -------------------------------
(***************************************************************************)
(* Proofs about EventStore: the client's queue, the worker thread, the     *)
(* host and the drivers of accepted runs, for any number of users,         *)
(* sessions, runs and starts, any queue length and any way the process,    *)
(* the thread or the disk may end.                                         *)
(*                                                                         *)
(* What a message does to the store is shown by StoreProofs; here it is    *)
(* reduced to what becomes of the runs.  The rest is about order: a        *)
(* request, its treatment, the reply and the reaction to it are separate   *)
(* steps, and what a reply reports must still hold when it is read.        *)
(***************************************************************************)
EXTENDS EventStore, StoreProofs

-----------------------------------------------------------------------------
(***************************************************************************)
(* The invariant.                                                          *)
(***************************************************************************)
IsSequence(s) == Len(s) \in Nat /\ s = [i \in 1..Len(s) |-> s[i]]

Opening == [from |-> Host, op |-> "open"]
Closing == [from |-> Host, op |-> "close"]

AsksUser(q) ==
  /\ q.from \in Users
  /\ \/ q.op = "command" /\ q.command \in Commands
     \/ q.op \in {"delete_session", "delete_workspace"}

WriteTypes == {"work", "settled", "cleanup_failed", "finished"}

AsksDriver(q) ==
  /\ q.from \in Runs
  /\ q = Load(q.from) \/ \E type \in WriteTypes : q = Write(q.from, type)

IsRequest(q) == AsksUser(q) \/ AsksDriver(q) \/ q \in {Opening, Closing}

\* A caller has one call outstanding, and one message of it is under way at most.
InFlight ==
  /\ IsSequence(inbox) /\ IsSequence(outbox)
  /\ \A i \in DOMAIN inbox : IsRequest(inbox[i]) /\ inbox[i].from \in pending
  /\ \A i \in DOMAIN outbox : IsRequest(outbox[i].request) /\ outbox[i].request.from \in pending
  /\ \A i, j \in DOMAIN inbox : inbox[i].from = inbox[j].from => i = j
  /\ \A i, j \in DOMAIN outbox : outbox[i].request.from = outbox[j].request.from => i = j
  /\ \A i \in DOMAIN inbox, j \in DOMAIN outbox : inbox[i].from # outbox[j].request.from

\* Before the store is open nobody but the host asks, and what it is told is so.
Starting ==
  /\ phase = "down" => worker = "dead" /\ inbox = <<>> /\ outbox = <<>> /\ pending = {}
  /\ worker = "fresh" => phase = "starting"
  /\ phase = "starting" =>
       /\ \A i \in DOMAIN inbox : inbox[i] = Opening
       /\ \A i \in DOMAIN outbox : outbox[i].request = Opening
       /\ \A i \in DOMAIN outbox : outbox[i].code = "ok" => worker # "fresh" /\ AllAtRest

HostType ==
  /\ phase \in {"down", "starting", "ready", "failed", "stopping", "closing"}
  /\ drive \in [Runs -> {"none", "new", "idle", "tool", "closing", "check"}]

\* Every run is one that the bounds name, and the active one is among its session's.
Pool(d) ==
  /\ d.sessions <= MaxSession
  /\ \A s \in DOMAIN d.rows : d.rows[s].runs \subseteq Runs /\ d.rows[s].active \in d.rows[s].runs \cup {NoRun}

\* Where a driver sends this message from.
SentFrom(q, at) ==
  /\ q.op = "read_state" => at \in {"new", "check"}
  /\ q.op = "append_batch" =>
       at \in CASE q.events[1].type = "work" -> {"idle"}
                [] q.events[1].type = "finished" -> {"idle", "closing"}
                [] OTHER -> {"tool"}

\* The driver is where its message was sent from.
DriversWait ==
  /\ \A i \in DOMAIN inbox : inbox[i].from \in Runs => SentFrom(inbox[i], drive[inbox[i].from])
  /\ \A i \in DOMAIN outbox : outbox[i].request.from \in Runs => SentFrom(outbox[i].request, drive[outbox[i].request.from])

\* The run was the store's and will never be active again.
Done(d, r) ==
  /\ r[1] \in 1..d.sessions
  /\ r[1] \in DOMAIN d.rows => r \in d.rows[r[1]].runs /\ d.rows[r[1]].active # r

\* What a reply says of its run is so in this store and phase.
Reported(reply, d, at) ==
  LET q == reply.request
  IN /\ q.from \in Runs /\ q.op = "read_state" /\ reply.code = "terminal" => Done(d, q.from)
     /\ q.from \in Runs /\ q.op = "append_batch" /\ q.events[1].type = "finished" /\ reply.code = "ok" => Done(d, q.from)
     /\ reply.code = "started" => q.op = "read_state" /\ at # "ready"

RepliesHold ==
  /\ \A i \in DOMAIN outbox : Reported(outbox[i], db, phase)
  /\ \A r \in Runs : drive[r] = "check" => Done(db, r)

\* A run whose work began has the driver that began it.
Begun(d, r) == r[1] \in DOMAIN d.rows /\ d.rows[r[1]].active = r /\ d.rows[r[1]].started

BegunIsDriven == phase = "ready" => \A r \in Runs : Begun(db, r) => drive[r] \in {"idle", "tool", "closing"}

\* An accepted run has a driver, or the acknowledgement of its submission is under way.
Submitted(reply, r) ==
  /\ reply.request.from \in Users /\ reply.request.op = "command" /\ reply.request.command.type = "run.submit"
  /\ reply.code = "ok" /\ ~reply.fatal /\ reply.ack.run = r

Accepted(r) ==
  \/ drive[r] # "none"
  \/ \E i \in DOMAIN outbox : Submitted(outbox[i], r)
  \/ closed \/ worker # "open"

ActiveIsAccepted ==
  phase = "ready" => \A s \in DOMAIN db.rows : db.rows[s].active # NoRun => Accepted(db.rows[s].active)

HostInv ==
  /\ Sound(db) /\ Pool(db) /\ HostType
  /\ InFlight /\ Starting /\ DriversWait
  /\ RepliesHold /\ BegunIsDriven /\ ActiveIsAccepted
  /\ cause # "started"

-----------------------------------------------------------------------------
(***************************************************************************)
(* Queues.                                                                 *)
(***************************************************************************)
LEMMA IsSeq == ASSUME NEW s, IsSequence(s) PROVE s \in Seq({s[i] : i \in 1..Len(s)}) /\ DOMAIN s = 1..Len(s)
<1> DEFINE n == Len(s)
           S == {s[i] : i \in 1..n}
<1>1. n \in Nat /\ s = [i \in 1..n |-> s[i]]
  BY DEF IsSequence
<1> HIDE DEF n
<1>2. s \in [1..n -> S]
  BY <1>1
<1>3. s \in Seq(S)
  BY <1>1, <1>2
<1> QED BY <1>1, <1>3 DEF n

LEMMA Seqs == ASSUME NEW S, NEW s \in Seq(S) PROVE IsSequence(s)
BY DEF IsSequence

LEMMA Appending ==
  ASSUME NEW s, IsSequence(s), NEW x, NEW t, t = Append(s, x)
  PROVE  /\ IsSequence(t)
         /\ \A i \in DOMAIN s : i \in DOMAIN t /\ t[i] = s[i]
         /\ Len(s) + 1 \in DOMAIN t /\ t[Len(s) + 1] = x /\ Len(s) + 1 \notin DOMAIN s
         /\ \A i \in DOMAIN t : i \in DOMAIN s \/ i = Len(s) + 1
<1> DEFINE S == {s[i] : i \in 1..Len(s)} \cup {x}
<1>1. s \in Seq(S) /\ DOMAIN s = 1..Len(s)
  <2>1. s \in Seq({s[i] : i \in 1..Len(s)}) /\ DOMAIN s = 1..Len(s)
    BY IsSeq
  <2> QED BY <2>1
<1> HIDE DEF S
<1>2. x \in S
  BY DEF S
<1>3. t \in Seq(S) /\ Len(t) = Len(s) + 1 /\ \A i \in 1..Len(s) : t[i] = s[i]
  BY <1>1, <1>2
<1>4. t[Len(s) + 1] = x
  BY <1>1, <1>2
<1>5. IsSequence(t)
  BY <1>3, Seqs, Zenon
<1>6. DOMAIN t = 1..(Len(s) + 1) /\ Len(s) \in Nat
  BY <1>1, <1>3
<1> QED BY <1>1, <1>3, <1>4, <1>5, <1>6

\* t is s without its first element.
RestOf(t, s) ==
  /\ IsSequence(t) /\ 1 \in DOMAIN s /\ Head(s) = s[1]
  /\ \A i \in DOMAIN t : i \in Int /\ i + 1 \in DOMAIN s /\ i + 1 # 1 /\ t[i] = s[i + 1]
  /\ \A i \in DOMAIN s : i # 1 => \E j \in DOMAIN t : t[j] = s[i]

LEMMA Taking ==
  ASSUME NEW s, IsSequence(s), s # <<>>, NEW t, t = Tail(s)
  PROVE  RestOf(t, s)
<1> DEFINE S == {s[i] : i \in 1..Len(s)}
<1>1. s \in Seq(S) /\ DOMAIN s = 1..Len(s)
  BY IsSeq
<1> HIDE DEF S
<1>2. Len(s) \in Nat \ {0}
  BY <1>1
<1>3. t \in Seq(S) /\ Len(t) = Len(s) - 1 /\ Head(s) = s[1] /\ \A i \in 1..(Len(s) - 1) : t[i] = s[i + 1]
  BY <1>1, <1>2
<1>4. IsSequence(t)
  BY <1>3, Seqs, Zenon
<1>6. DOMAIN t = 1..(Len(s) - 1)
  BY <1>2, <1>3
<1>5. \A i \in DOMAIN s : i # 1 => i - 1 \in DOMAIN t /\ t[i - 1] = s[i]
  BY <1>1, <1>2, <1>3, <1>6
<1> QED BY <1>1, <1>2, <1>3, <1>4, <1>5, <1>6 DEF RestOf

LEMMA Nothing == IsSequence(<<>>) /\ DOMAIN <<>> = {}
BY DEF IsSequence

-----------------------------------------------------------------------------
(***************************************************************************)
(* What a message does to the runs.                                        *)
(***************************************************************************)
AppendErrors == {"none", "workspace_blocked", "late-event", "session_capacity"}

LEMMA AppendErrorsOnly ==
  ASSUME NEW d, NEW s, NEW events
  PROVE  Appended(d, s, events).error \in AppendErrors
<1>1. \A acc, e : acc.error \in AppendErrors /\ DOMAIN acc = {"d", "error"} /\ acc = [d |-> acc.d, error |-> acc.error]
        => AppendOne(s, acc, e).error \in AppendErrors
  BY DEF AppendOne, AppendTo, AppendErrors
<1> DEFINE a == AppendOne(s, [d |-> d, error |-> "none"], events[1])
<1> QED BY DEF Appended, AppendRest, AppendOne, AppendTo, AppendErrors

\* No run begins; sessions may be gone, and runs may have ended.  Those of W may have begun their work.
Keeps(d, e, W) ==
  /\ e.sessions = d.sessions /\ DOMAIN e.rows \subseteq DOMAIN d.rows
  /\ \A s \in DOMAIN e.rows :
       /\ e.rows[s].runs = d.rows[s].runs
       /\ e.rows[s].active \in {d.rows[s].active, NoRun}
       /\ e.rows[s].active # NoRun /\ e.rows[s].started => d.rows[s].started \/ d.rows[s].active \in W

\* A session is created, at rest.
Founds(d, e) ==
  /\ e.sessions = d.sessions + 1 /\ e.sessions <= MaxSession
  /\ DOMAIN e.rows = DOMAIN d.rows \cup {e.sessions}
  /\ \A s \in DOMAIN d.rows : e.rows[s] = d.rows[s]
  /\ e.rows[e.sessions].active = NoRun /\ e.rows[e.sessions].runs = {}

\* A new run is the active one of its session.
Activates(d, e, r) ==
  /\ r \in Runs /\ r[1] \in DOMAIN d.rows
  /\ e.sessions = d.sessions /\ DOMAIN e.rows = DOMAIN d.rows
  /\ \A s \in DOMAIN d.rows \ {r[1]} : e.rows[s] = d.rows[s]
  /\ d.rows[r[1]].active = NoRun /\ r \notin d.rows[r[1]].runs
  /\ e.rows[r[1]].active = r /\ ~e.rows[r[1]].started /\ e.rows[r[1]].runs = d.rows[r[1]].runs \cup {r}

LEMMA SameIsKept == ASSUME NEW d, NEW e, Same(d, e), NEW W PROVE Keeps(d, e, W)
BY DEF Same, Keeps

LEMMA AppliedMoves ==
  ASSUME NEW row \in Row, NEW a, a.type \in EventTypes \ {"run.started"}
  PROVE  LET next == Applied(row, a)
         IN /\ next.runs = row.runs /\ next.active \in {row.active, NoRun}
            /\ next.started => row.started \/ a.type = "work"
            /\ a.type = "finished" => next.active = NoRun
<1> DEFINE grown == [row EXCEPT !.size = @ + 1]
<1>1. grown \in Row /\ grown.runs = row.runs /\ grown.active = row.active /\ grown.started = row.started
  BY DEF Row
<1> HIDE DEF grown
<1>2. Applied(row, a) = CASE a.type = "work"           -> [grown EXCEPT !.started = TRUE, !.busy = TRUE]
                          [] a.type = "settled"        -> [grown EXCEPT !.busy = FALSE]
                          [] a.type = "cleanup_failed" -> [grown EXCEPT !.busy = FALSE, !.blocked = TRUE]
                          [] a.type = "cancel"         -> [grown EXCEPT !.cancelled = TRUE]
                          [] a.type = "finished"       -> [grown EXCEPT !.active = NoRun, !.cancelled = FALSE]
                          [] a.type = "resolved"       -> [grown EXCEPT !.blocked = FALSE]
                          [] OTHER                     -> grown
  BY DEF Applied, EventTypes, grown
<1> QED BY <1>1, <1>2 DEF Row, EventTypes

\* An event that starts no run.
LEMMA EventMoves ==
  ASSUME NEW d, Sound(d), NEW s \in DOMAIN d.rows, NEW a, a.type \in EventTypes \ {"run.started"}, a.run \in RunIds,
         NEW res, res = Appended(d, s, <<a>>), res.error = "none"
  PROVE  /\ Keeps(d, res.d, IF a.type = "work" THEN {a.run} ELSE {}) /\ CanApply(d.rows[s], a)
         /\ DOMAIN res.d.rows = DOMAIN d.rows /\ (a.type = "finished" => res.d.rows[s].active = NoRun)
<1> DEFINE row == d.rows[s]
           next == Applied(row, a)
<1>1. EventFits(s, row, a) /\ row \in Row
  BY DEF EventFits, Sound, RowsSound
<1>2. Wrote(d, res.d, s, next) /\ CanApply(row, a)
  BY <1>1, AppendedOne
<1>3. /\ next.runs = row.runs /\ next.active \in {row.active, NoRun}
      /\ next.started => row.started \/ a.type = "work"
      /\ a.type = "finished" => next.active = NoRun
  BY <1>1, AppliedMoves
<1>4. a.type = "work" => row.active = a.run
  BY <1>2 DEF CanApply
<1> HIDE DEF next
<1> QED BY <1>2, <1>3, <1>4 DEF Keeps, Wrote

LEMMA AppendMoves ==
  ASSUME NEW d, Sound(d), Pool(d), NEW r \in Runs, NEW type \in WriteTypes,
         NEW result, result = AppendBatch(d, r[1], <<Fact(type, r)>>)
  PROVE  /\ Sound(result.d) /\ Keeps(d, result.d, IF type = "work" THEN {r} ELSE {})
         /\ result.code # "started"
         /\ type = "finished" /\ result.code = "ok" => Done(result.d, r)
<1> DEFINE a == Fact(type, r)
           s == r[1]
           res == Appended(d, s, <<a>>)
<1>1. a.type = type /\ a.run = r /\ r \in RunIds /\ r # NoRun /\ type \in EventTypes \ {"run.started"}
  BY DEF Fact, Runs, Sessions, RunIds, NoRun, EventTypes, WriteTypes
<1> HIDE DEF a
<1>2. CASE s \notin DOMAIN d.rows
  BY <1>2, RefusedKeeps, SameIsKept DEF AppendBatch
<1>3. CASE s \in DOMAIN d.rows /\ res.error # "none"
  <2>1. result = Refused(d, res.error)
    BY <1>3 DEF AppendBatch, Ended, RolledBack, a
  <2>2. res.error \in AppendErrors
    BY AppendErrorsOnly
  <2> HIDE DEF res
  <2> QED BY <2>1, <2>2, RefusedKeeps, SameIsKept DEF AppendErrors
<1>4. CASE s \in DOMAIN d.rows /\ res.error = "none"
  <2>1. result.d = res.d /\ result.code = "ok"
    BY <1>4 DEF AppendBatch, Ended, Reply, a
  <2>2. Sound(result.d)
    BY <1>1, <1>4, <2>1, OneEventKeeps
  <2>3. /\ Keeps(d, result.d, IF type = "work" THEN {r} ELSE {}) /\ CanApply(d.rows[s], a)
        /\ DOMAIN result.d.rows = DOMAIN d.rows /\ (type = "finished" => result.d.rows[s].active = NoRun)
    BY <1>1, <1>4, <2>1, EventMoves
  <2>4. type = "finished" => r \in d.rows[s].runs
    BY <1>1, <1>4, <2>3 DEF CanApply, Pool
  <2>5. s \in 1..d.sessions
    BY <1>4 DEF Sound, RowsSound
  <2>6. type = "finished" => Done(result.d, r)
    BY <1>1, <1>4, <2>3, <2>4, <2>5 DEF Done, Keeps
  <2> QED BY <2>1, <2>2, <2>3, <2>6
<1> QED BY <1>2, <1>3, <1>4

LEMMA ReadMoves ==
  ASSUME NEW d, Sound(d), NEW r \in Runs, NEW result, result = ReadState(d, r[1], r)
  PROVE  /\ Sound(result.d) /\ Same(d, result.d)
         /\ result.code = "terminal" => Done(result.d, r)
         /\ result.code = "started" => Begun(d, r)
<1>1. result.d = Touched(d, r[1])
  BY DEF ReadState, Reply
<1>2. result.code = IF r[1] \notin DOMAIN d.rows THEN "missing_run"
                    ELSE LET row == d.rows[r[1]]
                         IN IF r \notin row.runs THEN "missing_run"
                            ELSE IF row.active # r THEN "terminal"
                            ELSE IF row.started THEN "started" ELSE "unstarted"
  BY StateIsRow DEF ReadState, Reply
<1>3. Sound(result.d) /\ Same(d, result.d)
  BY <1>1, TouchKeeps
<1>4. result.code = "terminal" => r[1] \in DOMAIN d.rows /\ r \in d.rows[r[1]].runs /\ d.rows[r[1]].active # r
  BY <1>2
<1>5. r[1] \in DOMAIN d.rows => r[1] \in 1..d.sessions
  BY DEF Sound, RowsSound
<1>6. result.code = "terminal" => Done(result.d, r)
  BY <1>3, <1>4, <1>5 DEF Done, Same
<1>7. result.code = "started" => Begun(d, r)
  BY <1>2 DEF Begun
<1> QED BY <1>3, <1>6, <1>7

LEMMA DeleteMoves ==
  ASSUME NEW d, Sound(d), NEW S, NEW result, result = DeleteSessions(d, S)
  PROVE  Sound(result.d) /\ Keeps(d, result.d, {}) /\ result.code # "started"
<1>1. Sound(result.d) /\ (Same(d, result.d) \/ Deletes(d, result.d, S))
  BY DeleteIs
<1>2. result.code # "started"
  BY DEF DeleteSessions, Refused, Reply, DeletionError
<1>3. DeletionError(d, S) # "none" => Same(d, result.d)
  BY RefusedKeeps DEF DeleteSessions
<1>4. DeletionError(d, S) = "none" => result.d.sessions = d.sessions
  BY DEF DeleteSessions, Reply, DropCached, Sound, Shape, Fields
<1>5. CASE Deletes(d, result.d, S) /\ result.d.sessions = d.sessions
  <2>1. result.d.rows = [s \in DOMAIN d.rows \ S |-> d.rows[s]]
    BY <1>5 DEF Deletes, Without
  <2>2. DOMAIN result.d.rows \subseteq DOMAIN d.rows /\ \A s \in DOMAIN result.d.rows : result.d.rows[s] = d.rows[s]
    BY <2>1
  <2>3. Keeps(d, result.d, {})
    BY <1>5, <2>2 DEF Keeps
  <2> QED BY <1>1, <1>2, <2>3
<1> QED BY <1>1, <1>2, <1>3, <1>4, <1>5, SameIsKept DEF Same

LEMMA OpenMoves ==
  ASSUME NEW d, Sound(d), NEW result, result = OpenStore(d)
  PROVE  /\ Sound(result.d) /\ Keeps(d, result.d, {}) /\ result.code # "started"
         /\ result.code = "ok" => \A s \in DOMAIN result.d.rows : result.d.rows[s].active = NoRun
<1>1. /\ Sound(result.d) /\ result.d.sessions = d.sessions /\ DOMAIN result.d.rows = DOMAIN d.rows
      /\ \A s \in DOMAIN d.rows : result.d.rows[s].runs = d.rows[s].runs
      /\ \/ result.code \notin {"ok", "started"} /\ result.d.rows = d.rows
         \/ result.code = "ok" /\ \A s \in DOMAIN result.d.rows : result.d.rows[s].active = NoRun
  BY OpenIs DEF KeepsLedger
<1> QED BY <1>1 DEF Keeps

LEMMA ReceiptedMoves ==
  ASSUME NEW c, Sound(c), NEW command, NEW ack, NEW result, result = Receipted(c, command, ack)
  PROVE  result.code = "ok" /\ result.ack = ack /\ result.d.rows = c.rows /\ result.d.sessions = c.sessions
<1>1. /\ result.code = "ok" /\ result.ack = ack
      /\ Sound(result.d) /\ result.d.rows = c.rows /\ result.d.sessions = c.sessions
      /\ result.d.receipts = Override(Only(ReceiptKey(command), [command |-> command, ack |-> ack]), c.receipts)
  BY ReceiptedIs
<1> QED BY <1>1

LEMMA CreateMoves ==
  ASSUME NEW d, Sound(d), Pool(d), NEW command \in Commands, command.type = "session.create", d.sessions # MaxSession,
         NEW result, result = Admit(d, command)
  PROVE  Founds(d, result.d)
<1> DEFINE s == d.sessions + 1
           b == [d EXCEPT !.sessions = s]
           row == Created(command.root)
           c == Stored(b, s, row)
           ack == [session |-> s, run |-> NoRun]
<1>1. result = Receipted(c, command, ack)
  BY DEF Admit
<1>2. /\ Shape(b) /\ b.rows = d.rows /\ b.receipts = d.receipts /\ b.sessions = s
      /\ b.states = d.states /\ b.summaries = d.summaries /\ b.sizes = d.sizes
  BY DEF Sound, Shape, Fields
<1>3. /\ d.sessions \in Nat /\ s \in 1..s /\ s \notin DOMAIN d.rows /\ 1..d.sessions \subseteq 1..s /\ s <= MaxSession
  BY BoundsAssumption DEF Sound, RowsSound, Pool
<1> HIDE DEF b
<1>4. Sound(b)
  <2>1. RowsSound(b)
    BY <1>2, <1>3 DEF Sound, RowsSound
  <2>2. Agree(b)
    BY <1>2 DEF Sound, Agree
  <2> QED BY <1>2, <2>1, <2>2 DEF Sound
<1>5. row \in Row /\ row.runs = {} /\ row.active = NoRun /\ Numbered(row.runs, s)
  <2>1. row.runs = {} /\ NoRun \in RunIds /\ command.root \in {x.root : x \in Commands} /\ row.active = NoRun
    BY DEF Created, NoRun, RunIds
  <2>2. row \in Row
    BY <2>1 DEF Created, Row
  <2>3. {} = {<<s, i>> : i \in 1..0}
    OBVIOUS
  <2> QED BY <2>1, <2>2, <2>3 DEF Numbered
<1>6. Sound(c) /\ c.rows = Override(Only(s, row), d.rows) /\ c.sessions = s
  <2> HIDE DEF s, row
  <2>1. s \in 1..b.sessions
    BY <1>2, <1>3
  <2>2. Sound(c) /\ c.rows = Override(Only(s, row), b.rows) /\ c.sessions = b.sessions
    BY <1>4, <1>5, <2>1, StoredIs
  <2> QED BY <1>2, <2>2
<1> HIDE DEF c, row
<1>7. DOMAIN c.rows = DOMAIN d.rows \cup {s} /\ c.rows[s] = row /\ \A t \in DOMAIN d.rows : c.rows[t] = d.rows[t]
  BY <1>3, <1>6 DEF Override, Only
<1>8. result.d.rows = c.rows /\ result.d.sessions = c.sessions
  BY <1>1, <1>6, ReceiptedMoves
<1> QED BY <1>3, <1>5, <1>6, <1>7, <1>8 DEF Founds

\* The run that starts is within the bounds: the pool of runs was not exhausted.
LEMMA FreshRunFits ==
  ASSUME NEW d, Sound(d), Pool(d), NEW s \in DOMAIN d.rows, ~(Cardinality(RunsOf(d)) >= MaxRun),
         NEW run, run = FreshRun(d, s)
  PROVE  run \in Runs
<1>1. run = <<s, 1 + Cardinality(d.rows[s].runs)>> /\ run \in RunIds
  BY FreshRunIs
<1>2. \A t \in DOMAIN d.rows : IsFiniteSet(d.rows[t].runs)
  <2>1. SUFFICES ASSUME NEW t \in DOMAIN d.rows PROVE IsFiniteSet(d.rows[t].runs)
    OBVIOUS
  <2>2. PICK n \in Nat : d.rows[t].runs = {<<t, i>> : i \in 1..n}
    BY DEF Sound, RowsSound, Numbered
  <2>3. IsFiniteSet(1..n)
    BY FS_Interval
  <2> DEFINE f == [i \in 1..n |-> <<t, i>>]
  <2>4. f \in Bijection(1..n, d.rows[t].runs)
    BY <2>2 DEF Bijection, Injection, Surjection, IsInjective
  <2> QED BY <2>3, <2>4, FS_Bijection DEF ExistsBijection
<1>3. IsFiniteSet(RunsOf(d))
  <2> DEFINE all == {d.rows[t].runs : t \in DOMAIN d.rows}
  <2>1. IsFiniteSet(all)
    <3>1. IsFiniteSet(1..d.sessions)
      <4>1. d.sessions \in Int
        BY DEF Sound, RowsSound
      <4> QED BY <4>1, FS_Interval
    <3>2. DOMAIN d.rows \in SUBSET (1..d.sessions)
      BY DEF Sound, RowsSound
    <3>3. IsFiniteSet(DOMAIN d.rows)
      BY <3>1, <3>2, FS_Subset
    <3> DEFINE f == [t \in DOMAIN d.rows |-> d.rows[t].runs]
    <3>4. f \in Surjection(DOMAIN d.rows, all)
      BY DEF Surjection
    <3> QED BY <3>3, <3>4, FS_Surjection
  <2>2. \A T \in all : IsFiniteSet(T)
    BY <1>2
  <2>3. IsFiniteSet(UNION all)
    BY <2>1, <2>2, FS_UNION
  <2> QED BY <2>3 DEF RunsOf
<1>4. d.rows[s].runs \in SUBSET RunsOf(d)
  BY DEF RunsOf
<1>5. Cardinality(d.rows[s].runs) <= Cardinality(RunsOf(d))
  BY <1>3, <1>4, FS_Subset
<1>6. Cardinality(d.rows[s].runs) \in Nat /\ Cardinality(RunsOf(d)) \in Nat
  BY <1>2, <1>3, FS_CardinalityType
<1>7. 1 + Cardinality(d.rows[s].runs) \in 1..MaxRun
  BY <1>5, <1>6, BoundsAssumption
<1>8. s \in 1..MaxSession
  BY BoundsAssumption DEF Sound, RowsSound, Pool
<1> QED BY <1>1, <1>7, <1>8 DEF Runs, Sessions

LEMMA SubmitMoves ==
  ASSUME NEW d, Sound(d), Pool(d), NEW command \in Commands, command.type = "run.submit",
         command.session \in DOMAIN d.rows, ~(Cardinality(RunsOf(d)) >= MaxRun),
         NEW result, result = Admit(d, command)
  PROVE  /\ result.code # "started"
         /\ IF result.code = "ok" THEN Activates(d, result.d, result.ack.run) ELSE Same(d, result.d)
<1> DEFINE s == command.session
           run == FreshRun(d, s)
           a == Fact("run.started", run)
           b == Fact("user.message", run)
           res == Appended(d, s, <<a, b>>)
           ack == [session |-> s, run |-> run]
           row == d.rows[s]
           first == Applied(row, a)
           next == Applied(first, b)
<1>1. result = IF res.error # "none" THEN Refused(d, res.error) ELSE Receipted(res.d, command, ack)
  BY DEF Admit, Admitted, CommandEvents, RolledBack
<1>2. run \in RunIds /\ run = <<s, 1 + Cardinality(row.runs)>> /\ run \notin RunsOf(d) /\ run \in Runs /\ run[1] = s
  <2>1. run \in RunIds /\ run = <<s, 1 + Cardinality(row.runs)>> /\ run \notin RunsOf(d)
    BY FreshRunIs
  <2>2. run \in Runs
    BY FreshRunFits
  <2> QED BY <2>1, <2>2
<1>3. a.type = "run.started" /\ a.run = run /\ b.type = "user.message" /\ b.run = run
  BY DEF Fact
<1>4. run \notin row.runs /\ row \in Row
  BY <1>2 DEF RunsOf, Sound, RowsSound
<1> HIDE DEF run, a, b
<1>5. EventFits(s, row, a) /\ EventFits(s, first, b)
  BY <1>2, <1>3 DEF EventFits, EventTypes
<1>6. CASE res.error # "none"
  <2>1. result = Refused(d, res.error) /\ res.error \in AppendErrors
    BY <1>1, <1>6, AppendErrorsOnly
  <2> HIDE DEF res
  <2> QED BY <2>1, RefusedKeeps DEF AppendErrors
<1>7. CASE res.error = "none"
  <2>1. Wrote(d, res.d, s, next) /\ CanApply(row, a)
    BY <1>5, <1>7, AppendedTwo
  <2>2. row.active = NoRun
    BY <1>3, <2>1 DEF CanApply
  <2>3. first \in Row /\ first.runs = row.runs \cup {run} /\ first.active = run /\ ~first.started
    <3> DEFINE grown == [row EXCEPT !.size = @ + 1]
    <3>1. grown \in Row /\ grown.runs = row.runs
      BY <1>4 DEF Row
    <3> HIDE DEF grown
    <3>2. first = [grown EXCEPT !.runs = @ \cup {run}, !.active = run, !.started = FALSE, !.cancelled = FALSE]
      BY <1>3 DEF Applied, grown
    <3>3. run \in RunIds /\ row.runs \cup {run} \in SUBSET RunIds
      BY <1>2, <1>4 DEF Row
    <3> HIDE DEF first
    <3>4. /\ first.runs = row.runs \cup {run} /\ first.active = run /\ first.started = FALSE /\ first.cancelled = FALSE
          /\ first = [root |-> grown.root, runs |-> first.runs, active |-> first.active, started |-> first.started,
                      busy |-> grown.busy, cancelled |-> first.cancelled, blocked |-> grown.blocked, size |-> grown.size]
      BY <3>1, <3>2 DEF Row
    <3>5. /\ grown.root \in {c.root : c \in Commands} /\ grown.busy \in BOOLEAN /\ grown.blocked \in BOOLEAN
          /\ grown.size \in Nat
      BY <3>1 DEF Row
    <3>6. first \in Row
      <4>1. first.runs \in SUBSET RunIds /\ first.active \in RunIds /\ first.started \in BOOLEAN /\ first.cancelled \in BOOLEAN
        BY <3>3, <3>4
      <4> QED BY <3>4, <3>5, <4>1 DEF Row
    <3> QED BY <3>4, <3>6
  <2> HIDE DEF first
  <2>4. next.runs = first.runs /\ next.active = first.active /\ ~next.started
    <3>1. next = [first EXCEPT !.size = @ + 1]
      BY <1>3 DEF Applied
    <3> QED BY <2>3, <3>1 DEF Row
  <2> HIDE DEF next, res
  <2>5. result = Receipted(res.d, command, ack) /\ Sound(res.d)
    BY <1>1, <1>7, <2>1 DEF Wrote
  <2>6. result.code = "ok" /\ result.ack = ack /\ result.d.rows = res.d.rows /\ result.d.sessions = res.d.sessions
    BY <2>5, ReceiptedMoves
  <2>7. result.ack.run = run
    BY <2>6
  <2>8. Activates(d, result.d, run)
    BY <1>2, <1>4, <2>1, <2>2, <2>3, <2>4, <2>6 DEF Activates, Wrote
  <2> QED BY <2>6, <2>7, <2>8
<1> QED BY <1>6, <1>7

LEMMA ControlMoves ==
  ASSUME NEW d, Sound(d), NEW command \in Commands, command.type \in {"run.cancel", "workspace.blocker.resolve"},
         command.session \in DOMAIN d.rows, NEW result, result = Admit(d, command)
  PROVE  result.code # "started" /\ Keeps(d, result.d, {})
<1> DEFINE s == command.session
           run == command.run
           ack == [session |-> s, run |-> run]
<1>1. PICK a : /\ a.type \in EventTypes \ {"run.started", "work"} /\ a.run = run
               /\ CommandEvents(command, run) = <<a>>
  <2>1. CASE command.type = "run.cancel"
    BY <2>1 DEF CommandEvents, Fact, EventTypes
  <2>2. CASE command.type = "workspace.blocker.resolve"
    BY <2>2 DEF CommandEvents, Fact, EventTypes
  <2> QED BY <2>1, <2>2
<1> DEFINE res == Appended(d, s, <<a>>)
<1>2. result = IF res.error # "none" THEN Refused(d, res.error) ELSE Receipted(res.d, command, ack)
  BY <1>1 DEF Admit, Admitted, RolledBack
<1>3. a.run \in RunIds
  BY <1>1, CommandsAssumption DEF RunIds
<1>4. CASE res.error # "none"
  <2>1. result = Refused(d, res.error) /\ res.error \in AppendErrors
    BY <1>2, <1>4, AppendErrorsOnly
  <2> HIDE DEF res
  <2> QED BY <2>1, RefusedKeeps, SameIsKept DEF AppendErrors
<1>5. CASE res.error = "none"
  <2>1. Sound(res.d) /\ Keeps(d, res.d, {})
    <3>1. Sound(res.d)
      BY <1>1, <1>3, <1>5, OneEventKeeps
    <3>2. Keeps(d, res.d, IF a.type = "work" THEN {a.run} ELSE {})
      BY <1>1, <1>3, <1>5, EventMoves
    <3> QED BY <1>1, <3>1, <3>2
  <2>2. result = Receipted(res.d, command, ack)
    BY <1>2, <1>5
  <2> HIDE DEF res, ack
  <2>3. result.code = "ok" /\ result.d.rows = res.d.rows /\ result.d.sessions = res.d.sessions
    BY <2>1, <2>2, ReceiptedMoves
  <2> QED BY <2>1, <2>3 DEF Keeps
<1> QED BY <1>4, <1>5

LEMMA ExecuteMoves ==
  ASSUME NEW d, Sound(d), Pool(d), NEW command \in Commands, NEW result, result = Execute(d, command)
  PROVE  /\ Sound(result.d) /\ result.code # "started"
         /\ \/ Keeps(d, result.d, {}) \/ Founds(d, result.d)
            \/ command.type = "run.submit" /\ result.code = "ok" /\ Activates(d, result.d, result.ack.run)
<1>0. Sound(result.d)
  BY ExecuteIs
<1> DEFINE k == ReceiptKey(command)
           receipt == d.receipts[k]
<1>1. CASE k \in DOMAIN d.receipts /\ receipt.command # command
  <2>1. result = Refused(d, "command_conflict")
    BY <1>1 DEF Execute, HasReceipt
  <2> QED BY <1>0, <2>1, RefusedKeeps, SameIsKept
<1>2. CASE k \in DOMAIN d.receipts /\ receipt.command = command
  <2>1. result.d = Touched(d, receipt.ack.session) /\ result.code = "ok"
    BY <1>2 DEF Execute, HasReceipt, Reply
  <2> QED BY <1>0, <2>1, TouchKeeps, SameIsKept
<1>3. CASE k \notin DOMAIN d.receipts /\ AdmissionError(d, command) # "none"
  <2>1. result = Refused(d, AdmissionError(d, command))
    BY <1>3 DEF Execute, HasReceipt
  <2>2. AdmissionError(d, command) # "started"
    BY CommandsAssumption DEF AdmissionError, CommandTypes
  <2> QED BY <1>0, <2>1, <2>2, RefusedKeeps, SameIsKept
<1>4. CASE k \notin DOMAIN d.receipts /\ AdmissionError(d, command) = "none"
  <2>1. result = Admit(d, command)
    BY <1>4 DEF Execute, HasReceipt
  <2>2. command.type \in CommandTypes
    BY CommandsAssumption
  <2>3. CASE command.type = "session.create"
    <3>1. d.sessions # MaxSession
      BY <1>4, <2>3 DEF AdmissionError
    <3>2. result.code = "ok"
      BY <1>4, <2>1, <2>3, CreateIs
    <3> QED BY <1>0, <2>1, <2>3, <3>1, <3>2, CreateMoves
  <2>4. CASE command.type # "session.create"
    <3>1. command.session \in DOMAIN d.rows
      BY <1>4, <2>4 DEF AdmissionError
    <3>2. CASE command.type = "run.submit"
      <4>1. ~(Cardinality(RunsOf(d)) >= MaxRun)
        BY <1>4, <3>1, <3>2 DEF AdmissionError
      <4> QED BY <1>0, <2>1, <3>1, <3>2, <4>1, SubmitMoves, SameIsKept
    <3>3. CASE command.type \in {"run.cancel", "workspace.blocker.resolve"}
      BY <1>0, <2>1, <3>1, <3>3, ControlMoves
    <3> QED BY <2>2, <2>4, <3>2, <3>3 DEF CommandTypes
  <2> QED BY <2>3, <2>4
<1> QED BY <1>1, <1>2, <1>3, <1>4

-----------------------------------------------------------------------------
(***************************************************************************)
(* What stays so, whatever the worker treats.                              *)
(***************************************************************************)
Moves(d, e, W) == Keeps(d, e, W) \/ Founds(d, e) \/ \E r : Activates(d, e, r)

LEMMA RunsAreRuns == ASSUME NEW r \in Runs PROVE r # NoRun /\ r[1] \in Nat \ {0}
BY DEF Runs, Sessions, NoRun

LEMMA PoolStays ==
  ASSUME NEW d, Sound(d), Pool(d), NEW e, NEW W, Moves(d, e, W)
  PROVE  Pool(e)
<1>1. CASE Keeps(d, e, W)
  BY <1>1 DEF Keeps, Pool
<1>2. CASE Founds(d, e)
  BY <1>2 DEF Founds, Pool
<1>3. CASE \E r : Activates(d, e, r)
  BY <1>3 DEF Activates, Pool
<1> QED BY <1>1, <1>2, <1>3 DEF Moves

LEMMA DoneStays ==
  ASSUME NEW d, Sound(d), NEW e, NEW W, Moves(d, e, W), NEW r \in Runs, Done(d, r)
  PROVE  Done(e, r)
<1>1. r # NoRun /\ d.sessions \in Nat
  BY RunsAreRuns DEF Sound, RowsSound
<1>2. r[1] \in 1..d.sessions /\ (r[1] \in DOMAIN d.rows => r \in d.rows[r[1]].runs /\ d.rows[r[1]].active # r)
  BY DEF Done
<1>3. CASE Keeps(d, e, W)
  BY <1>1, <1>2, <1>3 DEF Keeps, Done
<1>4. CASE Founds(d, e)
  BY <1>1, <1>2, <1>4 DEF Founds, Done
<1>5. ASSUME NEW q, Activates(d, e, q) PROVE Done(e, r)
  <2>1. e.sessions = d.sessions /\ DOMAIN e.rows = DOMAIN d.rows
    BY <1>5 DEF Activates
  <2>2. CASE r[1] # q[1]
    BY <1>2, <1>5, <2>1, <2>2 DEF Activates, Done
  <2>3. CASE r[1] = q[1]
    BY <1>2, <1>5, <2>1, <2>3 DEF Activates, Done
  <2> QED BY <2>2, <2>3
<1> QED BY <1>3, <1>4, <1>5 DEF Moves

LEMMA BegunStays ==
  ASSUME NEW d, NEW e, NEW W, Moves(d, e, W), NEW r \in Runs, Begun(e, r), Sound(d)
  PROVE  Begun(d, r) \/ r \in W
<1>1. r # NoRun
  BY RunsAreRuns
<1>2. r[1] \in DOMAIN e.rows /\ e.rows[r[1]].active = r /\ e.rows[r[1]].started
  BY DEF Begun
<1>3. CASE Keeps(d, e, W)
  BY <1>1, <1>2, <1>3 DEF Keeps, Begun
<1>4. CASE Founds(d, e)
  BY <1>1, <1>2, <1>4 DEF Founds, Begun
<1>5. ASSUME NEW q, Activates(d, e, q) PROVE Begun(d, r)
  <2>1. r[1] # q[1]
    BY <1>2, <1>5 DEF Activates
  <2> QED BY <1>2, <1>5, <2>1 DEF Activates, Begun
<1> QED BY <1>3, <1>4, <1>5 DEF Moves

LEMMA ActiveStays ==
  ASSUME NEW d, NEW e, NEW W, Moves(d, e, W), NEW s \in DOMAIN e.rows, e.rows[s].active # NoRun
  PROVE  \/ s \in DOMAIN d.rows /\ d.rows[s].active = e.rows[s].active
         \/ Activates(d, e, e.rows[s].active)
<1>1. CASE Keeps(d, e, W)
  BY <1>1 DEF Keeps
<1>2. CASE Founds(d, e)
  BY <1>2 DEF Founds
<1>3. ASSUME NEW q, Activates(d, e, q)
      PROVE  \/ s \in DOMAIN d.rows /\ d.rows[s].active = e.rows[s].active
             \/ Activates(d, e, e.rows[s].active)
  <2>1. CASE s = q[1]
    <3>1. e.rows[s].active = q
      BY <1>3, <2>1 DEF Activates
    <3> QED BY <1>3, <3>1
  <2>2. CASE s # q[1]
    BY <1>3, <2>2 DEF Activates
  <2> QED BY <2>1, <2>2
<1> QED BY <1>1, <1>2, <1>3 DEF Moves

\* What the treatment of q, with this result, does and reports.
Beginning(q) == IF q.from \in Runs /\ q.op = "append_batch" /\ q.events[1].type = "work" THEN {q.from} ELSE {}

Effect(q, result) ==
  /\ Sound(result.d)
  /\ \/ Keeps(db, result.d, Beginning(q)) \/ Founds(db, result.d)
     \/ /\ q.op = "command" /\ q.command.type = "run.submit" /\ q.from \in Users
        /\ result.code = "ok" /\ Activates(db, result.d, result.ack.run)
  /\ q.from \in Runs /\ q.op = "read_state" /\ result.code = "terminal" => Done(result.d, q.from)
  /\ q.from \in Runs /\ q.op = "append_batch" /\ q.events[1].type = "finished" /\ result.code = "ok" => Done(result.d, q.from)
  /\ result.code = "started" => q.from \notin {Host} \cup Users /\ q.op = "read_state" /\ Begun(db, q.from)
  /\ q.from = Host /\ q.op = "open" /\ result.code = "ok" => \A s \in DOMAIN result.d.rows : result.d.rows[s].active = NoRun

LEMMA UserTreated ==
  ASSUME Sound(db), Pool(db), NEW q, AsksUser(q), NEW result, result = Treated(q)
  PROVE  Effect(q, result)
<1>1. q.from \in Users /\ q.from \notin Runs /\ q.from # Host /\ q.op \notin {"open", "read_state", "append_batch"}
  BY UsersAssumption DEF AsksUser
<1>2. CASE q.op = "command"
  <2>1. result = Execute(db, q.command) /\ q.command \in Commands
    BY <1>2 DEF Treated, AsksUser
  <2>2. /\ Sound(result.d) /\ result.code # "started"
        /\ \/ Keeps(db, result.d, {}) \/ Founds(db, result.d)
           \/ q.command.type = "run.submit" /\ result.code = "ok" /\ Activates(db, result.d, result.ack.run)
    BY <2>1, ExecuteMoves
  <2>3. Beginning(q) = {}
    BY <1>1 DEF Beginning
  <2> QED BY <1>1, <1>2, <2>2, <2>3 DEF Effect
<1>3. CASE q.op \in {"delete_session", "delete_workspace"}
  <2>1. PICK S : result = DeleteSessions(db, S)
    BY <1>3 DEF Treated
  <2>2. Sound(result.d) /\ Keeps(db, result.d, {}) /\ result.code # "started"
    BY <2>1, DeleteMoves
  <2>3. Beginning(q) = {}
    BY <1>1 DEF Beginning
  <2> QED BY <1>1, <1>3, <2>2, <2>3 DEF Effect
<1> QED BY <1>2, <1>3 DEF AsksUser

LEMMA DriverTreated ==
  ASSUME Sound(db), Pool(db), NEW q, AsksDriver(q), NEW result, result = Treated(q)
  PROVE  Effect(q, result)
<1> DEFINE r == q.from
<1>1. r \in Runs /\ r \notin Users /\ r # Host
  BY UsersAssumption DEF AsksDriver, Runs, Sessions, Host
<1>2. CASE q = Load(r)
  <2>1. q.op = "read_state" /\ q.session = r[1]
    BY <1>2 DEF Load
  <2>2. result = ReadState(db, r[1], r)
    BY <2>1 DEF Treated
  <2>3. /\ Sound(result.d) /\ Same(db, result.d)
        /\ result.code = "terminal" => Done(result.d, r)
        /\ result.code = "started" => Begun(db, r)
    BY <1>1, <2>2, ReadMoves
  <2>4. Keeps(db, result.d, Beginning(q))
    BY <2>3, SameIsKept
  <2> HIDE DEF r
  <2> QED BY <1>1, <2>1, <2>3, <2>4 DEF Effect, r
<1>3. ASSUME NEW type \in WriteTypes, q = Write(r, type) PROVE Effect(q, result)
  <2>1. q.op = "append_batch" /\ q.session = r[1] /\ q.events = <<Fact(type, r)>> /\ q.events[1].type = type
    BY <1>3 DEF Write, Fact
  <2>2. result = AppendBatch(db, r[1], <<Fact(type, r)>>)
    BY <2>1 DEF Treated
  <2>3. /\ Sound(result.d) /\ Keeps(db, result.d, IF type = "work" THEN {r} ELSE {})
        /\ result.code # "started"
        /\ type = "finished" /\ result.code = "ok" => Done(result.d, r)
    BY <1>1, <2>2, AppendMoves
  <2>4. Beginning(q) = IF type = "work" THEN {r} ELSE {}
    BY <1>1, <2>1 DEF Beginning
  <2> QED BY <1>1, <2>1, <2>3, <2>4 DEF Effect
<1> QED BY <1>2, <1>3 DEF AsksDriver

LEMMA HostTreated ==
  ASSUME Sound(db), Pool(db), NEW q \in {Opening, Closing}, NEW result, result = Treated(q)
  PROVE  Effect(q, result)
<1>1. q.from = Host /\ q.from \notin Runs /\ q.from \notin Users /\ q.op \in {"open", "close"}
  BY UsersAssumption DEF Opening, Closing, Runs, Sessions, Host
<1>2. Beginning(q) = {}
  BY <1>1 DEF Beginning
<1>3. CASE q.op = "open"
  <2>1. result = OpenStore(db)
    BY <1>3 DEF Treated
  <2>2. /\ Sound(result.d) /\ Keeps(db, result.d, {})
        /\ result.code = "ok" => \A s \in DOMAIN result.d.rows : result.d.rows[s].active = NoRun
    BY <2>1, OpenMoves
  <2>3. result.code # "started"
    BY <2>1, OpenMoves
  <2> QED BY <1>1, <1>2, <1>3, <2>2, <2>3 DEF Effect
<1>4. CASE q.op = "close"
  <2>1. result.d = InvalidateDerived(db) /\ result.code = "ok"
    BY <1>4 DEF Treated, Reply
  <2>2. Sound(result.d) /\ Keeps(db, result.d, {})
    BY <2>1, InvalidateKeeps, SameIsKept
  <2> QED BY <1>1, <1>2, <1>4, <2>1, <2>2 DEF Effect
<1> QED BY <1>1, <1>3, <1>4

-----------------------------------------------------------------------------
(***************************************************************************)
(* The queues.                                                             *)
(***************************************************************************)
\* The members of t are among those of s.
Among(t, s) == \A i \in DOMAIN t : \E j \in DOMAIN s : t[i] = s[j]

LEMMA SentOne ==
  ASSUME InFlight, NEW q, IsRequest(q), q.from \notin pending, Post(q), outbox' = outbox
  PROVE  /\ InFlight'
         /\ \A i \in DOMAIN inbox' : inbox'[i] = q \/ \E j \in DOMAIN inbox : inbox'[i] = inbox[j]
<1>1. inbox' = Append(inbox, q) /\ pending' = pending \cup {q.from}
  BY DEF Post
<1> DEFINE n == Len(inbox) + 1
<1>2. /\ IsSequence(inbox')
      /\ \A i \in DOMAIN inbox : i \in DOMAIN inbox' /\ inbox'[i] = inbox[i]
      /\ n \in DOMAIN inbox' /\ inbox'[n] = q /\ n \notin DOMAIN inbox
      /\ \A i \in DOMAIN inbox' : i \in DOMAIN inbox \/ i = n
  <2>1. IsSequence(inbox) /\ inbox' = Append(inbox, q)
    BY <1>1 DEF InFlight
  <2> QED BY <2>1, Appending, Zenon
<1> HIDE DEF n
<1>3. \A i \in DOMAIN inbox' : IsRequest(inbox'[i]) /\ inbox'[i].from \in pending'
  BY <1>1, <1>2 DEF InFlight
<1>4. \A i \in DOMAIN outbox : IsRequest(outbox[i].request) /\ outbox[i].request.from \in pending'
  BY <1>1 DEF InFlight
<1>5. \A i, j \in DOMAIN inbox' : inbox'[i].from = inbox'[j].from => i = j
  BY <1>1, <1>2 DEF InFlight
<1>6. \A i \in DOMAIN inbox', j \in DOMAIN outbox : inbox'[i].from # outbox[j].request.from
  BY <1>1, <1>2 DEF InFlight
<1>7. InFlight'
  BY <1>2, <1>3, <1>4, <1>5, <1>6 DEF InFlight
<1> QED BY <1>2, <1>7

\* The reply to the oldest request is posted.
Answering(reply) ==
  /\ inbox # <<>> /\ inbox' \in {Tail(inbox), <<>>}
  /\ outbox' = Append(outbox, reply) /\ reply.request = Head(inbox)

LEMMA AnsweredOne ==
  ASSUME InFlight, NEW reply, Answering(reply), pending' = pending
  PROVE  /\ InFlight' /\ Among(inbox', inbox)
         /\ IsRequest(reply.request) /\ 1 \in DOMAIN inbox /\ reply.request = inbox[1]
         /\ \A i \in DOMAIN outbox' : outbox'[i] = reply \/ \E j \in DOMAIN outbox : outbox'[i] = outbox[j]
         /\ \A i \in DOMAIN outbox : \E j \in DOMAIN outbox' : outbox'[j] = outbox[i]
         /\ \E j \in DOMAIN outbox' : outbox'[j] = reply
<1> DEFINE n == Len(outbox) + 1
<1>1. /\ IsSequence(outbox')
      /\ \A i \in DOMAIN outbox : i \in DOMAIN outbox' /\ outbox'[i] = outbox[i]
      /\ n \in DOMAIN outbox' /\ outbox'[n] = reply /\ n \notin DOMAIN outbox
      /\ \A i \in DOMAIN outbox' : i \in DOMAIN outbox \/ i = n
  <2>1. IsSequence(outbox) /\ outbox' = Append(outbox, reply)
    BY DEF InFlight, Answering
  <2> QED BY <2>1, Appending, Zenon
<1>2. /\ IsSequence(inbox') /\ 1 \in DOMAIN inbox /\ reply.request = inbox[1]
      /\ \A i \in DOMAIN inbox' : i \in Int /\ i + 1 \in DOMAIN inbox /\ i + 1 # 1 /\ inbox'[i] = inbox[i + 1]
  <2>1. IsSequence(inbox) /\ inbox # <<>> /\ reply.request = Head(inbox) /\ inbox' \in {Tail(inbox), <<>>}
    BY DEF InFlight, Answering
  <2> DEFINE rest == Tail(inbox)
  <2>2. /\ IsSequence(rest) /\ 1 \in DOMAIN inbox /\ Head(inbox) = inbox[1]
        /\ \A i \in DOMAIN rest : i \in Int /\ i + 1 \in DOMAIN inbox /\ i + 1 # 1 /\ rest[i] = inbox[i + 1]
    <3>1. rest = Tail(inbox)
      OBVIOUS
    <3> HIDE DEF rest
    <3>2. RestOf(rest, inbox)
      BY <2>1, <3>1, Taking, Zenon
    <3> QED BY <3>2 DEF RestOf
  <2>3. CASE inbox' = <<>>
    BY <2>1, <2>2, <2>3, Nothing
  <2>4. CASE inbox' = Tail(inbox)
    BY <2>1, <2>2, <2>4
  <2> QED BY <2>1, <2>3, <2>4
<1> HIDE DEF n
<1>3. IsRequest(reply.request) /\ reply.request.from \in pending
  BY <1>2 DEF InFlight
<1>4. \A i \in DOMAIN inbox' : IsRequest(inbox'[i]) /\ inbox'[i].from \in pending
  BY <1>2 DEF InFlight
<1>5. \A i \in DOMAIN outbox' : IsRequest(outbox'[i].request) /\ outbox'[i].request.from \in pending
  BY <1>1, <1>3 DEF InFlight
<1>6. \A i, j \in DOMAIN inbox' : inbox'[i].from = inbox'[j].from => i = j
  <2>1. SUFFICES ASSUME NEW i \in DOMAIN inbox', NEW j \in DOMAIN inbox', inbox'[i].from = inbox'[j].from PROVE i = j
    OBVIOUS
  <2>2. i + 1 = j + 1 /\ i \in Int /\ j \in Int
    BY <1>2, <2>1 DEF InFlight
  <2> QED BY <2>2
<1>7. \A i, j \in DOMAIN outbox' : outbox'[i].request.from = outbox'[j].request.from => i = j
  <2>1. \A i \in DOMAIN outbox : outbox'[i].request.from # reply.request.from
    BY <1>1, <1>2 DEF InFlight
  <2>2. \A i, j \in DOMAIN outbox : outbox'[i].request.from = outbox'[j].request.from => i = j
    BY <1>1 DEF InFlight
  <2> QED BY <1>1, <2>1, <2>2
<1>8. \A i \in DOMAIN inbox', j \in DOMAIN outbox' : inbox'[i].from # outbox'[j].request.from
  <2>1. \A i \in DOMAIN inbox' : inbox'[i].from # reply.request.from
    BY <1>2 DEF InFlight
  <2>2. \A i \in DOMAIN inbox', j \in DOMAIN outbox : inbox'[i].from # outbox'[j].request.from
    BY <1>1, <1>2 DEF InFlight
  <2> QED BY <1>1, <2>1, <2>2
<1>9. InFlight'
  BY <1>1, <1>2, <1>4, <1>5, <1>6, <1>7, <1>8 DEF InFlight
<1>10. Among(inbox', inbox)
  BY <1>2 DEF Among
<1> QED BY <1>1, <1>2, <1>3, <1>9, <1>10

\* The oldest reply is read.
LEMMA ReadOne ==
  ASSUME InFlight, outbox # <<>>, outbox' = Tail(outbox), inbox' = inbox, pending' = pending \ {Head(outbox).request.from}
  PROVE  LET reply == Head(outbox)
         IN /\ InFlight' /\ Among(outbox', outbox) /\ 1 \in DOMAIN outbox /\ reply = outbox[1]
            /\ \A i \in DOMAIN outbox' : outbox'[i].request.from # reply.request.from
            /\ \A i \in DOMAIN inbox : inbox[i].from # reply.request.from
            /\ \A i \in DOMAIN outbox : outbox[i] = reply \/ \E j \in DOMAIN outbox' : outbox'[j] = outbox[i]
<1> DEFINE reply == Head(outbox)
<1>1. /\ IsSequence(outbox') /\ 1 \in DOMAIN outbox /\ reply = outbox[1]
      /\ \A i \in DOMAIN outbox' : i \in Int /\ i + 1 \in DOMAIN outbox /\ i + 1 # 1 /\ outbox'[i] = outbox[i + 1]
      /\ \A i \in DOMAIN outbox : i # 1 => \E j \in DOMAIN outbox' : outbox'[j] = outbox[i]
  <2>1. IsSequence(outbox) /\ outbox # <<>> /\ outbox' = Tail(outbox)
    BY DEF InFlight
  <2>2. RestOf(outbox', outbox)
    BY <2>1, Taking, Zenon
  <2> QED BY <2>2 DEF RestOf
<1> HIDE DEF reply
<1>2. \A i \in DOMAIN outbox' : outbox'[i].request.from # reply.request.from
  BY <1>1 DEF InFlight
<1>3. \A i \in DOMAIN inbox : inbox[i].from # reply.request.from
  BY <1>1 DEF InFlight
<1>4. pending' = pending \ {reply.request.from}
  BY DEF reply
<1>5. \A i \in DOMAIN inbox : IsRequest(inbox[i]) /\ inbox[i].from \in pending'
  BY <1>3, <1>4 DEF InFlight
<1>6. \A i \in DOMAIN outbox' : IsRequest(outbox'[i].request) /\ outbox'[i].request.from \in pending'
  BY <1>1, <1>2, <1>4 DEF InFlight
<1>7. \A i, j \in DOMAIN outbox' : outbox'[i].request.from = outbox'[j].request.from => i = j
  <2>1. SUFFICES ASSUME NEW i \in DOMAIN outbox', NEW j \in DOMAIN outbox', outbox'[i].request.from = outbox'[j].request.from
                 PROVE  i = j
    OBVIOUS
  <2>2. i + 1 = j + 1 /\ i \in Int /\ j \in Int
    BY <1>1, <2>1 DEF InFlight
  <2> QED BY <2>2
<1>8. \A i \in DOMAIN inbox, j \in DOMAIN outbox' : inbox[i].from # outbox'[j].request.from
  BY <1>1 DEF InFlight
<1>9. InFlight'
  BY <1>1, <1>5, <1>6, <1>7, <1>8 DEF InFlight
<1>10. Among(outbox', outbox)
  BY <1>1 DEF Among
<1> QED BY <1>1, <1>2, <1>3, <1>9, <1>10 DEF reply

\* Nothing is under way.
LEMMA Emptied ==
  ASSUME inbox' = <<>>, outbox' = <<>>
  PROVE  /\ InFlight' /\ DOMAIN inbox' = {} /\ DOMAIN outbox' = {}
<1>1. IsSequence(inbox') /\ IsSequence(outbox') /\ DOMAIN inbox' = {} /\ DOMAIN outbox' = {}
  BY Nothing
<1> QED BY <1>1 DEF InFlight

LEMMA InboxLost ==
  ASSUME InFlight, inbox' = <<>>, outbox' = outbox, pending' = pending
  PROVE  InFlight' /\ DOMAIN inbox' = {}
<1>1. IsSequence(inbox') /\ DOMAIN inbox' = {}
  BY Nothing
<1> QED BY <1>1 DEF InFlight

-----------------------------------------------------------------------------
(***************************************************************************)
(* What a step leaves as it was.                                           *)
(***************************************************************************)
LEMMA SameRuns ==
  ASSUME Sound(db), Pool(db), Sound(db'), Same(db, db')
  PROVE  /\ Pool(db')
         /\ \A r : Done(db', r) <=> Done(db, r)
         /\ \A r : Begun(db', r) <=> Begun(db, r)
         /\ AllAtRest' <=> AllAtRest
<1>1. db'.rows = db.rows /\ db'.sessions = db.sessions
  BY DEF Same
<1>2. Pool(db')
  BY <1>1 DEF Pool
<1> QED BY <1>1, <1>2 DEF Done, Begun, AllAtRest

LEMMA ReportedStays ==
  ASSUME NEW reply, NEW d, NEW e, NEW at, NEW to, Reported(reply, d, at),
         \A r \in Runs : Done(d, r) => Done(e, r), to = "ready" => at = "ready"
  PROVE  Reported(reply, e, to)
BY DEF Reported

LEMMA RepliesStay ==
  ASSUME RepliesHold, Among(outbox', outbox),
         \A r \in Runs : Done(db, r) => Done(db', r), phase' = "ready" => phase = "ready",
         \A r \in Runs : drive'[r] = "check" => drive[r] = "check" \/ Done(db, r)
  PROVE  RepliesHold'
<1>1. ASSUME NEW i \in DOMAIN outbox' PROVE Reported(outbox'[i], db', phase')
  <2>1. PICK j \in DOMAIN outbox : outbox'[i] = outbox[j]
    BY DEF Among
  <2> DEFINE reply == outbox[j]
  <2>2. Reported(reply, db, phase)
    BY DEF RepliesHold
  <2> HIDE DEF reply
  <2>3. Reported(reply, db', phase')
    BY <2>2, ReportedStays
  <2> QED BY <2>1, <2>3 DEF reply
<1>2. \A r \in Runs : drive'[r] = "check" => Done(db', r)
  BY DEF RepliesHold
<1> QED BY <1>1, <1>2 DEF RepliesHold

LEMMA WaitStays ==
  ASSUME DriversWait, Among(inbox', inbox), Among(outbox', outbox),
         \A i \in DOMAIN inbox' : inbox'[i].from \in Runs => drive'[inbox'[i].from] = drive[inbox'[i].from],
         \A i \in DOMAIN outbox' :
           outbox'[i].request.from \in Runs => drive'[outbox'[i].request.from] = drive[outbox'[i].request.from]
  PROVE  DriversWait'
<1>1. ASSUME NEW i \in DOMAIN inbox', inbox'[i].from \in Runs PROVE SentFrom(inbox'[i], drive'[inbox'[i].from])
  <2>1. PICK j \in DOMAIN inbox : inbox'[i] = inbox[j]
    BY DEF Among
  <2> QED BY <1>1, <2>1 DEF DriversWait
<1>2. ASSUME NEW i \in DOMAIN outbox', outbox'[i].request.from \in Runs
      PROVE  SentFrom(outbox'[i].request, drive'[outbox'[i].request.from])
  <2>1. PICK j \in DOMAIN outbox : outbox'[i] = outbox[j]
    BY DEF Among
  <2> QED BY <1>2, <2>1 DEF DriversWait
<1> QED BY <1>1, <1>2 DEF DriversWait

LEMMA SameQueue == ASSUME NEW t, NEW s, t = s PROVE Among(t, s)
BY DEF Among

LEMMA NoQueue == ASSUME NEW t, NEW s, DOMAIN t = {} PROVE Among(t, s)
BY DEF Among

\* A host that is not ready, or not any more, promises nothing about accepted runs.
LEMMA NotReady == ASSUME phase' # "ready" PROVE BegunIsDriven' /\ ActiveIsAccepted'
BY DEF BegunIsDriven, ActiveIsAccepted

\* Neither does one whose client is closed or whose worker has ended, of the runs at rest.
LEMMA NoStore == ASSUME closed' \/ worker' # "open" PROVE ActiveIsAccepted'
BY DEF ActiveIsAccepted, Accepted

\* Once it is under way, and from then on.
LEMMA BusyHost ==
  ASSUME Starting, phase \notin {"down", "starting"}, phase' \notin {"down", "starting"}, worker' \in {worker, "dead", "stopped"}
  PROVE  Starting' /\ worker # "fresh"
BY DEF Starting

LEMMA NotFresh == ASSUME Starting, phase # "starting" PROVE worker # "fresh"
BY DEF Starting

\* The end of the process.
LEMMA DownKeeps ==
  ASSUME HostInv, Down
  PROVE  HostInv'
<1>1. Sound(db') /\ Same(db, db')
  BY InvalidateKeeps DEF Down, HostInv
<1>2. Pool(db')
  BY <1>1, SameRuns DEF HostInv
<1>3. InFlight' /\ DOMAIN inbox' = {} /\ DOMAIN outbox' = {}
  BY Emptied DEF Down
<1>4. HostType'
  BY DEF Down, HostType, NoDrives
<1>5. Starting'
  BY DEF Down, Starting
<1>6. DriversWait'
  BY <1>3 DEF DriversWait
<1>7. RepliesHold'
  BY <1>3 DEF Down, NoDrives, RepliesHold
<1>8. BegunIsDriven' /\ ActiveIsAccepted'
  BY NotReady DEF Down
<1>9. cause' # "started"
  BY DEF Down
<1> QED BY <1>1, <1>2, <1>3, <1>4, <1>5, <1>6, <1>7, <1>8, <1>9 DEF HostInv

-----------------------------------------------------------------------------
(***************************************************************************)
(* Every step keeps the invariant.                                         *)
(***************************************************************************)
LEMMA UserAsksKeeps ==
  ASSUME HostInv, NEW u \in Users, UserAsks(u)
  PROVE  HostInv'
<1>1. PICK q \in UserRequests({u}) : Post(q)
  BY DEF UserAsks
<1>2. phase = "ready" /\ u \notin pending /\ UNCHANGED <<db, worker, outbox, closed, phase, cause, drive, starts>>
  BY DEF UserAsks
<1>3. q.from = u /\ AsksUser(q) /\ q.from \notin Runs
  BY <1>1, UsersAssumption DEF UserRequests, AsksUser
<1>4. /\ InFlight'
      /\ \A i \in DOMAIN inbox' : inbox'[i] = q \/ \E j \in DOMAIN inbox : inbox'[i] = inbox[j]
  <2>1. InFlight /\ IsRequest(q) /\ q.from \notin pending /\ outbox' = outbox
    BY <1>2, <1>3 DEF HostInv, IsRequest
  <2> QED BY <1>1, <2>1, SentOne, Zenon
<1>5. Sound(db') /\ Pool(db') /\ HostType' /\ cause' # "started"
  BY <1>2 DEF HostInv, HostType
<1>6. Starting'
  BY <1>2, BusyHost DEF HostInv
<1>7. DriversWait'
  BY <1>2, <1>3, <1>4 DEF HostInv, DriversWait
<1>8. RepliesHold'
  BY <1>2 DEF HostInv, RepliesHold
<1>9. BegunIsDriven' /\ ActiveIsAccepted'
  BY <1>2 DEF HostInv, BegunIsDriven, ActiveIsAccepted, Accepted
<1> QED BY <1>4, <1>5, <1>6, <1>7, <1>8, <1>9 DEF HostInv

LEMMA UserRefusedKeeps ==
  ASSUME HostInv, UserRefused
  PROVE  HostInv'
<1>1. /\ phase = "ready" /\ phase' = "failed" /\ cause' = "storage"
      /\ UNCHANGED <<db, worker, inbox, outbox, closed, pending, drive, starts>>
  BY DEF UserRefused, HostFails
<1>2. Sound(db') /\ Pool(db') /\ HostType' /\ cause' # "started" /\ InFlight'
  BY <1>1 DEF HostInv, HostType, InFlight
<1>3. Starting'
  BY <1>1, BusyHost DEF HostInv
<1>4. DriversWait'
  BY <1>1 DEF HostInv, DriversWait
<1>5. RepliesHold'
  BY <1>1, RepliesStay, SameQueue DEF HostInv
<1>6. BegunIsDriven' /\ ActiveIsAccepted'
  BY <1>1, NotReady
<1> QED BY <1>2, <1>3, <1>4, <1>5, <1>6 DEF HostInv

LEMMA WorkerTreatsKeeps ==
  ASSUME HostInv, WorkerTreats
  PROVE  HostInv'
<1> DEFINE q == Head(inbox)
           result == Treated(q)
           reply == ReplyTo(q, result)
<1>1. /\ worker \in {"fresh", "open"} /\ inbox # <<>> /\ Commit(q, result)
      /\ inbox' = Tail(inbox) /\ outbox' = Append(outbox, reply)
      /\ UNCHANGED <<closed, pending, phase, cause, drive, starts>>
  BY DEF WorkerTreats, Treat
<1>2. reply.request = q /\ reply.code = result.code /\ reply.ack = result.ack /\ reply.fatal = FALSE
  BY DEF ReplyTo
<1>3. db' = result.d
      /\ worker' = CASE q.op = "open" /\ result.code = "ok" -> "open"
                     [] q.op = "close" -> "stopped"
                     [] OTHER -> worker
  BY <1>1 DEF Commit
<1>4. result = Treated(q)
  OBVIOUS
<1>5. q = Head(inbox)
  OBVIOUS
<1> HIDE DEF q, result, reply
<1>6. /\ InFlight' /\ Among(inbox', inbox)
      /\ IsRequest(q) /\ 1 \in DOMAIN inbox /\ q = inbox[1]
      /\ \A i \in DOMAIN outbox' : outbox'[i] = reply \/ \E j \in DOMAIN outbox : outbox'[i] = outbox[j]
      /\ \A i \in DOMAIN outbox : \E j \in DOMAIN outbox' : outbox'[j] = outbox[i]
      /\ \E j \in DOMAIN outbox' : outbox'[j] = reply
  <2>1. InFlight /\ Answering(reply) /\ pending' = pending
    BY <1>1, <1>2, <1>5 DEF HostInv, Answering
  <2> QED BY <2>1, <1>2, AnsweredOne
<1>7. Effect(q, result)
  <2>1. Sound(db) /\ Pool(db)
    BY DEF HostInv
  <2> QED BY <1>4, <1>6, <2>1, UserTreated, DriverTreated, HostTreated DEF IsRequest
<1>8. Sound(db') /\ Moves(db, db', Beginning(q))
  BY <1>3, <1>7 DEF Effect, Moves
<1>9. Pool(db')
  BY <1>8, PoolStays DEF HostInv
<1>10. \A r \in Runs : Done(db, r) => Done(db', r)
  BY <1>8, DoneStays DEF HostInv
<1>11. q.from \in Runs => AsksDriver(q) /\ SentFrom(q, drive[q.from]) /\ q.from # Host /\ q.from \notin Users
  BY <1>6, UsersAssumption DEF HostInv, DriversWait, IsRequest, AsksUser, Opening, Closing, Runs, Sessions, Host
<1>12. HostType' /\ cause' # "started"
  BY <1>1 DEF HostInv, HostType
<1>13. Starting'
  <2>1. phase # "down" /\ (worker = "fresh" => phase = "starting")
    BY <1>1 DEF HostInv, Starting
  <2>2. worker' = "fresh" => worker = "fresh"
    BY <1>3
  <2>3. ASSUME phase = "starting" PROVE \A i \in DOMAIN inbox' : inbox'[i] = Opening
    BY <1>6, <2>3 DEF HostInv, Starting, Among
  <2>4. ASSUME phase = "starting"
        PROVE  \A i \in DOMAIN outbox' : outbox'[i].request = Opening /\ (outbox'[i].code = "ok" => worker' # "fresh" /\ AllAtRest')
    <3>1. q = Opening /\ q.from = Host /\ q.op = "open"
      BY <1>6, <2>4 DEF HostInv, Starting, Opening
    <3>2. DOMAIN outbox = {}
      <4>1. \A j \in DOMAIN outbox : outbox[j].request = q
        BY <2>4, <3>1 DEF HostInv, Starting
      <4>2. \A j \in DOMAIN outbox : outbox[j].request.from # q.from
        BY <1>6 DEF HostInv, InFlight
      <4> QED BY <4>1, <4>2
    <3>3. result.code = "ok" => worker' # "fresh" /\ AllAtRest'
      BY <1>3, <1>7, <3>1 DEF Effect, AllAtRest
    <3> QED BY <1>2, <1>6, <3>1, <3>2, <3>3
  <2> QED BY <1>1, <2>1, <2>2, <2>3, <2>4 DEF Starting
<1>14. DriversWait'
  <2>1. ASSUME NEW i \in DOMAIN inbox', inbox'[i].from \in Runs PROVE SentFrom(inbox'[i], drive'[inbox'[i].from])
    <3>1. PICK j \in DOMAIN inbox : inbox'[i] = inbox[j]
      BY <1>6 DEF Among
    <3> QED BY <1>1, <2>1, <3>1 DEF HostInv, DriversWait
  <2>2. ASSUME NEW i \in DOMAIN outbox', outbox'[i].request.from \in Runs
        PROVE  SentFrom(outbox'[i].request, drive'[outbox'[i].request.from])
    BY <1>1, <1>2, <1>6, <1>11, <2>2 DEF HostInv, DriversWait
  <2> QED BY <2>1, <2>2 DEF DriversWait
<1>15. RepliesHold'
  <2>1. Reported(reply, db', phase')
    <3>1. q.from \in Runs /\ q.op = "read_state" /\ reply.code = "terminal" => Done(db', q.from)
      BY <1>2, <1>3, <1>7 DEF Effect
    <3>2. q.from \in Runs /\ q.op = "append_batch" /\ q.events[1].type = "finished" /\ reply.code = "ok" => Done(db', q.from)
      BY <1>2, <1>3, <1>7 DEF Effect
    <3>3. ASSUME reply.code = "started" PROVE q.op = "read_state" /\ phase' # "ready"
      <4>1. q.from \notin {Host} \cup Users /\ q.op = "read_state" /\ Begun(db, q.from)
        BY <1>2, <1>7, <3>3 DEF Effect
      <4>2. q.from \in Runs
        BY <1>6, <4>1 DEF IsRequest, AsksUser, AsksDriver, Opening, Closing
      <4>3. drive[q.from] \in {"new", "check"}
        BY <1>11, <4>1, <4>2 DEF SentFrom
      <4> QED BY <1>1, <4>1, <4>2, <4>3 DEF HostInv, BegunIsDriven
    <3> QED BY <1>2, <3>1, <3>2, <3>3 DEF Reported
  <2>2. ASSUME NEW j \in DOMAIN outbox PROVE Reported(outbox[j], db', phase')
    <3> DEFINE old == outbox[j]
    <3>1. Reported(old, db, phase)
      BY DEF HostInv, RepliesHold
    <3> HIDE DEF old
    <3>2. Reported(old, db', phase')
      BY <1>1, <1>10, <3>1, ReportedStays
    <3> QED BY <3>2 DEF old
  <2>3. \A r \in Runs : drive'[r] = "check" => Done(db', r)
    BY <1>1, <1>10 DEF HostInv, RepliesHold
  <2> QED BY <1>6, <2>1, <2>2, <2>3 DEF RepliesHold
<1>16. BegunIsDriven'
  <2>1. SUFFICES ASSUME phase = "ready", NEW r \in Runs, Begun(db', r) PROVE drive[r] \in {"idle", "tool", "closing"}
    BY <1>1 DEF BegunIsDriven
  <2>2. Begun(db, r) \/ r \in Beginning(q)
    BY <1>8, <2>1, BegunStays DEF HostInv
  <2>3. CASE Begun(db, r)
    BY <2>1, <2>3 DEF HostInv, BegunIsDriven
  <2>4. CASE r \in Beginning(q)
    BY <1>11, <2>4 DEF Beginning, SentFrom
  <2> QED BY <2>2, <2>3, <2>4
<1>17. ActiveIsAccepted'
  <2>1. SUFFICES ASSUME phase = "ready", NEW s \in DOMAIN db'.rows, db'.rows[s].active # NoRun
                 PROVE  LET r == db'.rows[s].active
                        IN drive'[r] # "none" \/ (\E i \in DOMAIN outbox' : Submitted(outbox'[i], r)) \/ closed' \/ worker' # "open"
    BY <1>1 DEF ActiveIsAccepted, Accepted
  <2> DEFINE r == db'.rows[s].active
             Kept == drive'[r] # "none" \/ (\E i \in DOMAIN outbox' : Submitted(outbox'[i], r)) \/ closed' \/ worker' # "open"
  <2>2. worker = "open"
    BY <1>1, <2>1 DEF HostInv, Starting
  <2>3. ASSUME s \in DOMAIN db.rows, db.rows[s].active = r PROVE Kept
    <3>1. Accepted(r)
      BY <2>1, <2>3 DEF HostInv, ActiveIsAccepted
    <3> HIDE DEF r
    <3> QED BY <1>1, <1>6, <2>2, <3>1 DEF Accepted
  <2>4. CASE Keeps(db, db', Beginning(q)) \/ Founds(db, db')
    BY <2>1, <2>3, <2>4 DEF Keeps, Founds
  <2>5. ASSUME q.op = "command", q.command.type = "run.submit", q.from \in Users, result.code = "ok",
               Activates(db, db', result.ack.run)
        PROVE  Kept
    <3>1. CASE s # result.ack.run[1]
      BY <2>1, <2>3, <2>5, <3>1 DEF Activates
    <3>2. CASE s = result.ack.run[1]
      <4>1. r = result.ack.run
        BY <2>5, <3>2 DEF Activates
      <4> HIDE DEF r
      <4>2. Submitted(reply, r)
        BY <1>2, <2>5, <4>1 DEF Submitted
      <4> QED BY <1>6, <4>2
    <3> QED BY <3>1, <3>2
  <2> QED BY <1>3, <1>7, <2>4, <2>5 DEF Effect
<1> QED BY <1>6, <1>8, <1>9, <1>12, <1>13, <1>14, <1>15, <1>16, <1>17 DEF HostInv

LEMMA WorkerFailsKeeps ==
  ASSUME HostInv, WorkerFails
  PROVE  HostInv'
<1> DEFINE reply == [request |-> Head(inbox), code |-> "SQLITE_FULL", ack |-> NoAck, fatal |-> TRUE]
<1>1. /\ worker = "open" /\ inbox # <<>> /\ db' = InvalidateDerived(db)
      /\ outbox' = Append(outbox, reply) /\ worker' = "stopped" /\ inbox' = <<>>
      /\ UNCHANGED <<closed, pending, phase, cause, drive, starts>>
  BY DEF WorkerFails
<1>2. reply.request = Head(inbox) /\ reply.code = "SQLITE_FULL"
  OBVIOUS
<1> HIDE DEF reply
<1>3. /\ InFlight' /\ Among(inbox', inbox) /\ 1 \in DOMAIN inbox /\ reply.request = inbox[1]
      /\ \A i \in DOMAIN outbox' : outbox'[i] = reply \/ \E j \in DOMAIN outbox : outbox'[i] = outbox[j]
  <2>1. InFlight /\ Answering(reply) /\ pending' = pending
    BY <1>1, <1>2 DEF HostInv, Answering
  <2> QED BY <2>1, AnsweredOne
<1>4. Sound(db') /\ Same(db, db')
  BY <1>1, InvalidateKeeps DEF HostInv
<1>5. /\ Pool(db') /\ (AllAtRest' <=> AllAtRest)
      /\ \A r \in Runs : (Done(db, r) => Done(db', r)) /\ (Begun(db', r) => Begun(db, r))
  BY <1>4, SameRuns DEF HostInv
<1>6. HostType' /\ cause' # "started"
  BY <1>1 DEF HostInv, HostType
<1>7. Starting'
  <2>1. phase # "down"
    BY <1>1 DEF HostInv, Starting
  <2>2. DOMAIN inbox' = {}
    BY <1>1, Nothing
  <2>3. ASSUME phase = "starting"
        PROVE  \A i \in DOMAIN outbox' : outbox'[i].request = Opening /\ (outbox'[i].code = "ok" => AllAtRest')
    <3>1. reply.request = Opening
      BY <1>3, <2>3 DEF HostInv, Starting
    <3>2. \A j \in DOMAIN outbox : outbox[j].request = Opening /\ (outbox[j].code = "ok" => AllAtRest)
      BY <2>3 DEF HostInv, Starting
    <3> HIDE DEF AllAtRest
    <3> QED BY <1>2, <1>3, <1>5, <3>1, <3>2
  <2> QED BY <1>1, <2>1, <2>2, <2>3 DEF Starting
<1>8. DriversWait'
  <2>1. \A i \in DOMAIN inbox' : inbox'[i].from \in Runs => SentFrom(inbox'[i], drive'[inbox'[i].from])
    BY <1>1, Nothing
  <2>2. \A i \in DOMAIN outbox' : outbox'[i].request.from \in Runs => SentFrom(outbox'[i].request, drive'[outbox'[i].request.from])
    BY <1>1, <1>3 DEF HostInv, DriversWait
  <2> QED BY <2>1, <2>2 DEF DriversWait
<1>9. RepliesHold'
  <2>1. Reported(reply, db', phase')
    BY <1>2 DEF Reported
  <2>2. ASSUME NEW j \in DOMAIN outbox PROVE Reported(outbox[j], db', phase')
    <3> DEFINE old == outbox[j]
    <3>1. Reported(old, db, phase)
      BY DEF HostInv, RepliesHold
    <3> HIDE DEF old
    <3>2. Reported(old, db', phase')
      BY <1>1, <1>5, <3>1, ReportedStays
    <3> QED BY <3>2 DEF old
  <2>3. \A r \in Runs : drive'[r] = "check" => Done(db', r)
    BY <1>1, <1>5 DEF HostInv, RepliesHold
  <2> QED BY <1>3, <2>1, <2>2, <2>3 DEF RepliesHold
<1>10. BegunIsDriven'
  BY <1>1, <1>5 DEF HostInv, BegunIsDriven
<1>11. ActiveIsAccepted'
  BY <1>1, NoStore
<1> QED BY <1>3, <1>4, <1>5, <1>6, <1>7, <1>8, <1>9, <1>10, <1>11 DEF HostInv

LEMMA WorkerExitsKeeps ==
  ASSUME HostInv, WorkerExits
  PROVE  HostInv'
<1>1. /\ worker = "open" /\ worker' = "dead" /\ inbox' = <<>> /\ outbox' \in {outbox, <<>>} /\ db' = InvalidateDerived(db)
      /\ UNCHANGED <<closed, pending, phase, cause, drive, starts>>
  BY DEF WorkerExits
<1>2. Sound(db') /\ Same(db, db')
  BY <1>1, InvalidateKeeps DEF HostInv
<1>3. /\ Pool(db') /\ (AllAtRest' <=> AllAtRest)
      /\ \A r \in Runs : (Done(db, r) => Done(db', r)) /\ (Begun(db', r) => Begun(db, r))
  BY <1>2, SameRuns DEF HostInv
<1>4. DOMAIN inbox' = {}
  BY <1>1, Nothing
<1>5. InFlight' /\ Among(inbox', inbox) /\ Among(outbox', outbox)
  <2>1. CASE outbox' = outbox
    BY <1>1, <1>4, <2>1, InboxLost, NoQueue, SameQueue DEF HostInv
  <2>2. CASE outbox' = <<>>
    BY <1>1, <2>2, Emptied, NoQueue
  <2> QED BY <1>1, <2>1, <2>2
<1>6. HostType' /\ cause' # "started"
  BY <1>1 DEF HostInv, HostType
<1>7. Starting'
  <2>1. phase # "down"
    BY <1>1 DEF HostInv, Starting
  <2>2. ASSUME phase = "starting"
        PROVE  \A i \in DOMAIN outbox' : outbox'[i].request = Opening /\ (outbox'[i].code = "ok" => AllAtRest')
    <3>1. \A j \in DOMAIN outbox : outbox[j].request = Opening /\ (outbox[j].code = "ok" => AllAtRest)
      BY <2>2 DEF HostInv, Starting
    <3> HIDE DEF AllAtRest
    <3> QED BY <1>3, <1>5, <3>1 DEF Among
  <2> QED BY <1>1, <1>4, <2>1, <2>2 DEF Starting
<1>8. DriversWait'
  BY <1>1, <1>5, WaitStays DEF HostInv
<1>9. RepliesHold'
  BY <1>1, <1>3, <1>5, RepliesStay DEF HostInv
<1>10. BegunIsDriven'
  BY <1>1, <1>3 DEF HostInv, BegunIsDriven
<1>11. ActiveIsAccepted'
  BY <1>1, NoStore
<1> QED BY <1>2, <1>3, <1>5, <1>6, <1>7, <1>8, <1>9, <1>10, <1>11 DEF HostInv

LEMMA HostLearnsKeeps ==
  ASSUME HostInv, HostLearns
  PROVE  HostInv'
<1>1. CASE Down
  BY <1>1, DownKeeps
<1>2. CASE ~Down
  <2>1. /\ outbox # <<>> /\ Head(outbox).request.from = Host /\ phase = "starting" /\ Head(outbox).code = "ok"
        /\ phase' = "ready" /\ outbox' = Tail(outbox) /\ pending' = pending \ {Host}
        /\ UNCHANGED <<db, worker, inbox, closed, cause, drive, starts>>
    BY <1>2 DEF HostLearns
  <2>2. /\ InFlight' /\ Among(outbox', outbox) /\ 1 \in DOMAIN outbox /\ Head(outbox) = outbox[1]
        /\ \A i \in DOMAIN outbox' : outbox'[i].request.from # Host
    BY <2>1, ReadOne DEF HostInv
  <2>3. worker # "fresh" /\ AllAtRest
    BY <2>1, <2>2 DEF HostInv, Starting
  <2>4. DOMAIN outbox' = {}
    BY <2>1, <2>2 DEF HostInv, Starting, Among, Opening
  <2>5. Sound(db') /\ Pool(db') /\ HostType' /\ cause' # "started"
    BY <2>1 DEF HostInv, HostType
  <2>6. Starting'
    BY <2>1, <2>3 DEF Starting
  <2>7. DriversWait'
    BY <2>1, <2>4 DEF HostInv, DriversWait
  <2>8. RepliesHold'
    BY <2>1, <2>4 DEF HostInv, RepliesHold
  <2>9. BegunIsDriven'
    BY <2>1, <2>3, RunsAreRuns DEF BegunIsDriven, Begun, AllAtRest
  <2>10. ActiveIsAccepted'
    BY <2>1, <2>3 DEF ActiveIsAccepted, AllAtRest
  <2> QED BY <2>2, <2>5, <2>6, <2>7, <2>8, <2>9, <2>10 DEF HostInv
<1> QED BY <1>1, <1>2

LEMMA ClientFailsKeeps ==
  ASSUME HostInv, ClientFails
  PROVE  HostInv'
<1>1. CASE phase \in {"starting", "closing"}
  BY <1>1, DownKeeps DEF ClientFails
<1>2. CASE phase \notin {"starting", "closing"}
  <2>1. /\ closed' = TRUE /\ pending' = {} /\ outbox' = <<>> /\ inbox' = <<>> /\ worker' = "dead"
        /\ drive' = [r \in Runs |-> IF r \in pending THEN "none" ELSE drive[r]]
        /\ (IF pending # {} THEN HostFails("storage") ELSE HostKeeps) /\ UNCHANGED <<db, starts>>
    BY <1>2 DEF ClientFails, Rejects
  <2>2. /\ phase' = IF phase = "ready" /\ pending # {} THEN "failed" ELSE phase
        /\ cause' \in {cause, "storage"}
    BY <2>1 DEF HostFails, HostKeeps
  <2>3. InFlight' /\ DOMAIN inbox' = {} /\ DOMAIN outbox' = {}
    BY <2>1, Emptied
  <2>4. Sound(db') /\ Pool(db') /\ cause' # "started"
    BY <2>1, <2>2 DEF HostInv
  <2>5. HostType'
    BY <2>1, <2>2 DEF HostInv, HostType
  <2>6. Starting'
    BY <1>2, <2>1, <2>2 DEF Starting
  <2>7. DriversWait'
    BY <2>3 DEF DriversWait
  <2>8. RepliesHold'
    BY <2>1, <2>3 DEF HostInv, RepliesHold
  <2>9. BegunIsDriven'
    BY <2>1, <2>2 DEF HostInv, BegunIsDriven
  <2>10. ActiveIsAccepted'
    BY <2>1, NoStore
  <2> QED BY <2>3, <2>4, <2>5, <2>6, <2>7, <2>8, <2>9, <2>10 DEF HostInv
<1> QED BY <1>1, <1>2

\* Where a reply to a driver takes it, and what the host makes of that.
Onward(reply, to) ==
  LET r == reply.request.from
  IN /\ Drive(r, to) /\ to \in {"none", "idle", "tool", "closing", "check"}
     /\ \/ /\ HostKeeps
           /\ to = "none" => reply.request.op = "read_state" /\ reply.code = "terminal"
           /\ to = "check" => /\ reply.request.op = "append_batch" /\ reply.request.events[1].type = "finished"
                              /\ reply.code = "ok"
        \/ to = "none" /\ HostFails(reply.code)

LEMMA DriverGoesOn ==
  ASSUME NEW reply, AsksDriver(reply.request), SentFrom(reply.request, drive[reply.request.from]), DriverAnswered(reply)
  PROVE  \E to : Onward(reply, to)
<1> DEFINE q == reply.request
           r == q.from
           type == q.events[1].type
<1>1. CASE q = Load(r)
  <2>1. q.op = "read_state"
    BY <1>1 DEF Load
  <2>2. drive[r] \in {"new", "check"}
    BY <2>1 DEF SentFrom
  <2>3. \/ /\ HostKeeps
           /\ Drive(r, "idle") \/ (Drive(r, "none") /\ reply.code = "terminal")
        \/ DriverFails(r, reply.code)
    BY <2>1, <2>2 DEF DriverAnswered
  <2> HIDE DEF q, r
  <2>4. Onward(reply, "idle") \/ Onward(reply, "none")
    BY <2>1, <2>3 DEF Onward, DriverFails, q, r
  <2> QED BY <2>4
<1>2. ASSUME NEW t \in WriteTypes, q = Write(r, t) PROVE \E to : Onward(reply, to)
  <2>1. q.op = "append_batch" /\ type = t
    BY <1>2 DEF Write, Fact
  <2>2. CASE t = "work"
    <3>1. \/ HostKeeps /\ (Drive(r, "tool") \/ Drive(r, "closing"))
          \/ DriverFails(r, reply.code)
      BY <2>1, <2>2 DEF DriverAnswered, AfterRefusal
    <3>2. Onward(reply, "tool") \/ Onward(reply, "closing") \/ Onward(reply, "none")
      BY <3>1 DEF Onward, DriverFails
    <3> QED BY <3>2
  <2>3. CASE t # "work"
    <3>1. \/ DriverFails(r, reply.code)
          \/ /\ HostKeeps /\ reply.code = "ok"
             /\ Drive(r, CASE t = "settled" -> "idle" [] t = "cleanup_failed" -> "closing" [] t = "finished" -> "check")
      BY <2>1, <2>3 DEF DriverAnswered
    <3>2. t \in {"settled", "cleanup_failed", "finished"}
      BY <2>3 DEF WriteTypes
    <3>3. \/ DriverFails(r, reply.code)
          \/ HostKeeps /\ Drive(r, "idle")
          \/ HostKeeps /\ Drive(r, "closing")
          \/ HostKeeps /\ reply.code = "ok" /\ t = "finished" /\ Drive(r, "check")
      <4>1. CASE t = "settled"
        BY <3>1, <4>1
      <4>2. CASE t = "cleanup_failed"
        BY <3>1, <4>2
      <4>3. CASE t = "finished"
        BY <3>1, <4>3
      <4> QED BY <3>2, <4>1, <4>2, <4>3
    <3>4. Onward(reply, "idle") \/ Onward(reply, "closing") \/ Onward(reply, "check") \/ Onward(reply, "none")
      BY <2>1, <3>3 DEF Onward, DriverFails
    <3> QED BY <3>4
  <2> QED BY <2>2, <2>3
<1> QED BY <1>1, <1>2 DEF AsksDriver

\* A driver that waits for a reply is under way.
LEMMA SentFromSomewhere ==
  ASSUME NEW q, AsksDriver(q), NEW at, SentFrom(q, at)
  PROVE  at \in {"new", "check", "idle", "closing", "tool"}
<1>1. q.op \in {"read_state", "append_batch"}
  BY DEF AsksDriver, Load, Write
<1> QED BY <1>1 DEF SentFrom

LEMMA RunsRequest == ASSUME NEW q, IsRequest(q), q.from \in Runs PROVE AsksDriver(q)
BY UsersAssumption DEF IsRequest, AsksUser, Opening, Closing, Runs, Sessions, Host

LEMMA DeliverKeeps ==
  ASSUME HostInv, Deliver
  PROVE  HostInv'
<1> DEFINE reply == Head(outbox)
           q == reply.request
<1>1. /\ outbox # <<>> /\ ~reply.fatal /\ q.from # Host
      /\ pending' = pending \ {q.from} /\ outbox' = Tail(outbox)
      /\ IF q.from \in Runs THEN DriverAnswered(reply) ELSE UserAnswered(reply)
      /\ UNCHANGED <<db, worker, inbox, closed, starts>>
  BY DEF Deliver
<1>2. /\ InFlight' /\ Among(outbox', outbox) /\ 1 \in DOMAIN outbox /\ reply = outbox[1]
      /\ \A i \in DOMAIN outbox' : outbox'[i].request.from # q.from
      /\ \A i \in DOMAIN inbox : inbox[i].from # q.from
      /\ \A i \in DOMAIN outbox : outbox[i] = reply \/ \E j \in DOMAIN outbox' : outbox'[j] = outbox[i]
  BY <1>1, ReadOne DEF HostInv
<1> HIDE DEF reply
<1>3. IsRequest(q) /\ Reported(reply, db, phase) /\ (q.from \in Runs => SentFrom(q, drive[q.from]))
  BY <1>2 DEF HostInv, InFlight, RepliesHold, DriversWait
<1>4. phase \notin {"down", "starting"}
  <2>1. phase # "down"
    BY <1>1 DEF HostInv, Starting
  <2>2. phase # "starting"
    BY <1>1, <1>2 DEF HostInv, Starting, Opening
  <2> QED BY <2>1, <2>2
<1>5. reply.code = "started" => phase # "ready"
  BY <1>3 DEF Reported
<1>6. /\ \/ HostKeeps \/ HostFails(reply.code)
      /\ drive' \in [Runs -> {"none", "new", "idle", "tool", "closing", "check"}]
      /\ \A r \in Runs \ {q.from} : drive'[r] = drive[r] \/ (drive[r] = "none" /\ drive'[r] = "new")
      /\ q.from \in Runs => \E to : Onward(reply, to)
      /\ q.from \notin Runs =>
           /\ phase = "ready" /\ phase' = "ready" =>
                \A r \in Runs : Submitted(reply, r) => drive'[r] # "none"
  <2>1. CASE q.from \in Runs
    <3>1. PICK to : Onward(reply, to)
      BY <1>1, <1>3, <2>1, RunsRequest, DriverGoesOn
    <3>2. drive' = [drive EXCEPT ![q.from] = to] /\ to \in {"none", "idle", "tool", "closing", "check"}
      BY <3>1 DEF Onward, Drive
    <3>3. HostKeeps \/ HostFails(reply.code)
      BY <3>1 DEF Onward
    <3> HIDE DEF q
    <3>4. drive \in [Runs -> {"none", "new", "idle", "tool", "closing", "check"}]
      BY DEF HostInv, HostType
    <3>5. /\ drive' \in [Runs -> {"none", "new", "idle", "tool", "closing", "check"}]
          /\ \A r \in Runs \ {q.from} : drive'[r] = drive[r]
      BY <3>2, <3>4
    <3> QED BY <2>1, <3>1, <3>3, <3>5, Zenon
  <2>2. CASE q.from \notin Runs
    <3>1. UserAnswered(reply)
      BY <1>1, <2>2
    <3>2. HostKeeps \/ HostFails(reply.code)
      BY <3>1 DEF UserAnswered
    <3>3. drive' = drive \/ \E r : drive[r] = "none" /\ drive' = [drive EXCEPT ![r] = "new"]
      BY <3>1 DEF UserAnswered, Drives, Drive
    <3>4. ASSUME phase = "ready", NEW r \in Runs, Submitted(reply, r) PROVE drive'[r] # "none"
      <4>1. Drives(r)
        BY <3>1, <3>4 DEF UserAnswered, Submitted
      <4> QED BY <3>4, <4>1 DEF Drives, Drive, HostInv, HostType
    <3>5. /\ drive' \in [Runs -> {"none", "new", "idle", "tool", "closing", "check"}]
          /\ \A r \in Runs : drive'[r] = drive[r] \/ (drive[r] = "none" /\ drive'[r] = "new")
      <4>1. drive \in [Runs -> {"none", "new", "idle", "tool", "closing", "check"}]
        BY DEF HostInv, HostType
      <4>2. ASSUME NEW p, drive[p] = "none", drive' = [drive EXCEPT ![p] = "new"]
            PROVE  /\ drive' \in [Runs -> {"none", "new", "idle", "tool", "closing", "check"}]
                   /\ \A r \in Runs : drive'[r] = drive[r] \/ (drive[r] = "none" /\ drive'[r] = "new")
        <5>1. CASE p \in Runs
          BY <4>1, <4>2, <5>1
        <5>2. CASE p \notin Runs
          BY <4>1, <4>2, <5>2
        <5> QED BY <5>1, <5>2
      <4> QED BY <3>3, <4>1, <4>2, Zenon
    <3> QED BY <2>2, <3>2, <3>4, <3>5
  <2> QED BY <2>1, <2>2
<1> HIDE DEF q
<1>7. /\ phase' \in {phase, "failed"} /\ cause' # "started"
      /\ phase' = "ready" => phase = "ready" /\ ~HostFails(reply.code)
  BY <1>5, <1>6 DEF HostKeeps, HostFails, HostInv
<1>8. Sound(db') /\ Pool(db') /\ HostType'
  BY <1>1, <1>6, <1>7 DEF HostInv, HostType
<1>9. Starting'
  BY <1>1, <1>4, <1>7, BusyHost DEF HostInv
<1>10. ASSUME NEW p, IsRequest(p), p.from \in Runs, p.from # q.from, SentFrom(p, drive[p.from]) PROVE drive'[p.from] = drive[p.from]
  <2>1. drive[p.from] # "none"
    BY <1>10, RunsRequest, SentFromSomewhere
  <2> QED BY <1>6, <1>10, <2>1
<1>11. DriversWait'
  <2>1. ASSUME NEW i \in DOMAIN inbox', inbox'[i].from \in Runs PROVE drive'[inbox'[i].from] = drive[inbox'[i].from]
    <3>1. inbox'[i] = inbox[i] /\ i \in DOMAIN inbox
      BY <1>1
    <3> QED BY <1>2, <1>10, <2>1, <3>1 DEF HostInv, InFlight, DriversWait
  <2>2. ASSUME NEW i \in DOMAIN outbox', outbox'[i].request.from \in Runs
        PROVE  drive'[outbox'[i].request.from] = drive[outbox'[i].request.from]
    <3>1. PICK j \in DOMAIN outbox : outbox'[i] = outbox[j]
      BY <1>2 DEF Among
    <3> QED BY <1>2, <1>10, <2>2, <3>1 DEF HostInv, InFlight, DriversWait
  <2> QED BY <1>1, <1>2, <2>1, <2>2, SameQueue, WaitStays DEF HostInv
<1>12. ASSUME q.from \in Runs, drive'[q.from] = "check" PROVE Done(db, q.from)
  <2>1. PICK to : Onward(reply, to)
    BY <1>6, <1>12
  <2>2. to = "check"
    BY <1>12, <2>1 DEF Onward, Drive, HostInv, HostType, q
  <2> QED BY <1>3, <1>12, <2>1, <2>2 DEF Onward, Reported, q
<1>13. ASSUME q.from \in Runs, drive'[q.from] \in {"none", "new"}, phase' = "ready" PROVE Done(db, q.from)
  <2>1. PICK to : Onward(reply, to)
    BY <1>6, <1>13
  <2>2. to = "none" /\ ~HostFails(reply.code)
    BY <1>7, <1>13, <2>1 DEF Onward, Drive, HostInv, HostType, q
  <2> QED BY <1>3, <1>13, <2>1, <2>2 DEF Onward, Reported, q
<1>14. RepliesHold'
  <2>1. \A r \in Runs : drive'[r] = "check" => drive[r] = "check" \/ Done(db, r)
    BY <1>6, <1>12
  <2> QED BY <1>1, <1>2, <1>7, <2>1, RepliesStay DEF HostInv
<1>15. BegunIsDriven'
  <2>1. SUFFICES ASSUME phase' = "ready", NEW r \in Runs, Begun(db, r) PROVE drive'[r] \in {"idle", "tool", "closing"}
    BY <1>1 DEF BegunIsDriven
  <2>2. drive[r] \in {"idle", "tool", "closing"} /\ ~Done(db, r)
    BY <1>7, <2>1 DEF HostInv, BegunIsDriven, Begun, Done
  <2>3. drive'[r] \in {"none", "new", "idle", "tool", "closing", "check"}
    BY <1>6
  <2> QED BY <1>6, <1>12, <1>13, <2>1, <2>2, <2>3
<1>16. ActiveIsAccepted'
  <2>1. SUFFICES ASSUME phase' = "ready", NEW s \in DOMAIN db.rows, db.rows[s].active # NoRun
                 PROVE  LET r == db.rows[s].active
                        IN drive'[r] # "none" \/ (\E i \in DOMAIN outbox' : Submitted(outbox'[i], r)) \/ closed' \/ worker' # "open"
    BY <1>1 DEF ActiveIsAccepted, Accepted
  <2> DEFINE r == db.rows[s].active
  <2>2. r \in Runs /\ ~Done(db, r)
    <3>1. r \in db.rows[s].runs /\ db.rows[s].runs \subseteq Runs
      BY <2>1 DEF HostInv, Pool
    <3>2. r[1] = s
      BY <2>1, <3>1 DEF HostInv, Sound, RowsSound, Numbered
    <3> QED BY <2>1, <3>1, <3>2 DEF Done
  <2>3. Accepted(r)
    BY <1>7, <2>1 DEF HostInv, ActiveIsAccepted
  <2> HIDE DEF r
  <2>4. CASE drive[r] # "none"
    BY <1>6, <1>13, <2>1, <2>2, <2>4 DEF r
  <2>5. ASSUME NEW i \in DOMAIN outbox, Submitted(outbox[i], r)
        PROVE  drive'[r] # "none" \/ \E j \in DOMAIN outbox' : Submitted(outbox'[j], r)
    <3>1. CASE outbox[i] = reply
      <4>1. q.from \notin Runs
        BY <2>5, <3>1, UsersAssumption DEF Submitted, q
      <4> QED BY <1>6, <1>7, <2>1, <2>2, <2>5, <3>1, <4>1
    <3>2. CASE outbox[i] # reply
      BY <1>2, <2>5, <3>2
    <3> QED BY <3>1, <3>2
  <2> QED BY <1>1, <2>3, <2>4, <2>5 DEF Accepted, r
<1> QED BY <1>2, <1>7, <1>8, <1>9, <1>11, <1>14, <1>15, <1>16 DEF HostInv

LEMMA DriverStopsKeeps ==
  ASSUME HostInv, NEW r \in Runs, DriverStops(r)
  PROVE  HostInv'
<1>1. /\ phase # "ready" /\ r \notin pending /\ drive' = [drive EXCEPT ![r] = "none"]
      /\ UNCHANGED <<db, worker, inbox, outbox, closed, pending, phase, cause, starts>>
  BY DEF DriverStops, Drive
<1>2. /\ drive' \in [Runs -> {"none", "new", "idle", "tool", "closing", "check"}]
      /\ drive'[r] = "none" /\ \A p \in Runs \ {r} : drive'[p] = drive[p]
  BY <1>1 DEF HostInv, HostType
<1>3. Sound(db') /\ Pool(db') /\ HostType' /\ cause' # "started" /\ InFlight'
  BY <1>1, <1>2 DEF HostInv, HostType, InFlight
<1>4. Starting'
  BY <1>1 DEF HostInv, Starting, AllAtRest
<1>5. DriversWait'
  <2>1. /\ \A i \in DOMAIN inbox : inbox[i].from # r
        /\ \A i \in DOMAIN outbox : outbox[i].request.from # r
    BY <1>1 DEF HostInv, InFlight
  <2>2. /\ \A i \in DOMAIN inbox : inbox[i].from \in Runs => drive'[inbox[i].from] = drive[inbox[i].from]
        /\ \A i \in DOMAIN outbox : outbox[i].request.from \in Runs => drive'[outbox[i].request.from] = drive[outbox[i].request.from]
    BY <1>2, <2>1
  <2> QED BY <1>1, <2>2, SameQueue, WaitStays DEF HostInv
<1>6. RepliesHold'
  BY <1>1, <1>2, SameQueue, RepliesStay DEF HostInv
<1>7. BegunIsDriven' /\ ActiveIsAccepted'
  BY <1>1, NotReady
<1> QED BY <1>3, <1>4, <1>5, <1>6, <1>7 DEF HostInv

\* A call of a driver, which is where that call is made.
LEMMA DriverCallsKeeps ==
  ASSUME HostInv, NEW r \in Runs, NEW q, AsksDriver(q), q.from = r, SentFrom(q, drive[r]), DriverCalls(r, q),
         phase \notin {"down", "starting"}, r \notin pending
  PROVE  HostInv'
<1>1. UNCHANGED <<db, worker, outbox, closed, starts>>
  BY DEF DriverCalls
<1>2. CASE Post(q) /\ UNCHANGED <<drive, phase, cause>>
  <2>1. /\ InFlight'
        /\ \A i \in DOMAIN inbox' : inbox'[i] = q \/ \E j \in DOMAIN inbox : inbox'[i] = inbox[j]
    <3>1. InFlight /\ IsRequest(q) /\ q.from \notin pending /\ outbox' = outbox
      BY <1>1 DEF HostInv, IsRequest
    <3> QED BY <1>2, <3>1, SentOne, Zenon
  <2>2. Sound(db') /\ Pool(db') /\ HostType' /\ cause' # "started"
    BY <1>1, <1>2 DEF HostInv, HostType
  <2>3. Starting'
    BY <1>1, <1>2, BusyHost DEF HostInv
  <2>4. DriversWait'
    BY <1>1, <1>2, <2>1 DEF HostInv, DriversWait
  <2>5. RepliesHold'
    BY <1>1, <1>2 DEF HostInv, RepliesHold
  <2>6. BegunIsDriven' /\ ActiveIsAccepted'
    BY <1>1, <1>2 DEF HostInv, BegunIsDriven, ActiveIsAccepted, Accepted
  <2> QED BY <2>1, <2>2, <2>3, <2>4, <2>5, <2>6 DEF HostInv
<1>3. CASE DriverFails(r, CallError) /\ UNCHANGED <<inbox, pending>>
  <2>1. /\ drive' = [drive EXCEPT ![r] = "none"]
        /\ phase' = IF phase = "ready" THEN "failed" ELSE phase
        /\ cause' = IF phase = "ready" THEN CallError ELSE cause
    BY <1>3 DEF DriverFails, HostFails, Drive
  <2>2. /\ drive' \in [Runs -> {"none", "new", "idle", "tool", "closing", "check"}]
        /\ drive'[r] = "none" /\ \A p \in Runs \ {r} : drive'[p] = drive[p]
    BY <2>1 DEF HostInv, HostType
  <2>3. cause' # "started"
    BY <2>1 DEF CallError, HostInv
  <2>4. Sound(db') /\ Pool(db') /\ HostType' /\ InFlight'
    BY <1>1, <1>3, <2>1, <2>2 DEF HostInv, HostType, InFlight
  <2>5. Starting'
    BY <1>1, <2>1, BusyHost DEF HostInv
  <2>6. DriversWait'
    <3>1. /\ \A i \in DOMAIN inbox : inbox[i].from # r
          /\ \A i \in DOMAIN outbox : outbox[i].request.from # r
      BY DEF HostInv, InFlight
    <3>2. /\ \A i \in DOMAIN inbox : inbox[i].from \in Runs => drive'[inbox[i].from] = drive[inbox[i].from]
          /\ \A i \in DOMAIN outbox : outbox[i].request.from \in Runs => drive'[outbox[i].request.from] = drive[outbox[i].request.from]
      BY <2>2, <3>1
    <3> QED BY <1>1, <1>3, <3>2, SameQueue, WaitStays DEF HostInv
  <2>7. RepliesHold'
    BY <1>1, <2>1, <2>2, SameQueue, RepliesStay DEF HostInv
  <2>8. BegunIsDriven' /\ ActiveIsAccepted'
    BY <2>1, NotReady
  <2> QED BY <2>3, <2>4, <2>5, <2>6, <2>7, <2>8 DEF HostInv
<1> QED BY <1>2, <1>3 DEF DriverCalls

LEMMA DriverStepKeeps ==
  ASSUME HostInv, NEW r \in Runs, DriverStep(r)
  PROVE  HostInv'
<1>1. phase \notin {"down", "starting"} /\ r \notin pending
  BY DEF DriverStep
<1>2. CASE drive[r] \in {"new", "check"} /\ DriverCalls(r, Load(r))
  <2>1. AsksDriver(Load(r)) /\ Load(r).from = r /\ SentFrom(Load(r), drive[r])
    BY <1>2 DEF AsksDriver, Load, SentFrom
  <2> QED BY <1>1, <1>2, <2>1, DriverCallsKeeps
<1>3. ASSUME NEW type \in WriteTypes, DriverCalls(r, Write(r, type)),
             \/ type = "work" /\ drive[r] = "idle"
             \/ type = "finished" /\ drive[r] \in {"idle", "closing"}
             \/ type \in {"settled", "cleanup_failed"} /\ drive[r] = "tool"
      PROVE  HostInv'
  <2> DEFINE q == Write(r, type)
  <2>1. q = Write(r, type) /\ q.from = r /\ q.op = "append_batch" /\ q.events[1].type = type
    BY DEF Write, Fact
  <2> HIDE DEF q
  <2>2. AsksDriver(q)
    BY <2>1 DEF AsksDriver
  <2>3. SentFrom(q, drive[r])
    BY <1>3, <2>1 DEF SentFrom
  <2> QED BY <1>1, <1>3, <2>1, <2>2, <2>3, DriverCallsKeeps
<1>4. \/ DriverCalls(r, Load(r)) /\ drive[r] \in {"new", "check"}
      \/ \E type \in {"work", "finished"} : DriverCalls(r, Write(r, type)) /\ drive[r] = "idle"
      \/ \E type \in {"settled", "cleanup_failed"} : DriverCalls(r, Write(r, type)) /\ drive[r] = "tool"
      \/ DriverCalls(r, Write(r, "finished")) /\ drive[r] = "closing"
  BY DEF DriverStep
<1> QED BY <1>2, <1>3, <1>4 DEF WriteTypes

LEMMA StartKeeps ==
  ASSUME HostInv, Start
  PROVE  HostInv'
<1>1. /\ phase = "down" /\ phase' = "starting" /\ worker' = "fresh" /\ cause' = "none" /\ Post(Opening)
      /\ UNCHANGED <<db, outbox, drive>>
  BY DEF Start, Opening
<1>2. inbox = <<>> /\ outbox = <<>> /\ pending = {}
  BY <1>1 DEF HostInv, Starting
<1>3. DOMAIN inbox = {} /\ DOMAIN outbox' = {}
  BY <1>1, <1>2, Nothing
<1>4. InFlight' /\ \A i \in DOMAIN inbox' : inbox'[i] = Opening
  <2>1. InFlight /\ IsRequest(Opening) /\ Opening.from \notin pending /\ outbox' = outbox
    BY <1>1, <1>2 DEF HostInv, IsRequest
  <2>2. /\ InFlight'
        /\ \A i \in DOMAIN inbox' : inbox'[i] = Opening \/ \E j \in DOMAIN inbox : inbox'[i] = inbox[j]
    BY <1>1, <2>1, SentOne, Zenon
  <2> QED BY <1>3, <2>2
<1>5. Sound(db') /\ Pool(db') /\ HostType' /\ cause' # "started"
  BY <1>1 DEF HostInv, HostType
<1>6. Starting'
  BY <1>1, <1>3, <1>4 DEF Starting
<1>7. DriversWait'
  <2>1. Opening.from \notin Runs
    BY UsersAssumption DEF Opening, Runs, Sessions, Host
  <2> QED BY <1>3, <1>4, <2>1 DEF DriversWait
<1>8. RepliesHold'
  BY <1>1, <1>3 DEF HostInv, RepliesHold
<1>9. BegunIsDriven' /\ ActiveIsAccepted'
  BY <1>1, NotReady
<1> QED BY <1>4, <1>5, <1>6, <1>7, <1>8, <1>9 DEF HostInv

LEMMA HostClosesKeeps ==
  ASSUME HostInv, HostCloses
  PROVE  HostInv'
<1>1. /\ phase \in {"ready", "failed"} /\ phase' = "stopping"
      /\ UNCHANGED <<db, worker, inbox, outbox, closed, pending, cause, drive, starts>>
  BY DEF HostCloses
<1>2. Sound(db') /\ Pool(db') /\ HostType' /\ cause' # "started" /\ InFlight'
  BY <1>1 DEF HostInv, HostType, InFlight
<1>3. Starting'
  BY <1>1, BusyHost DEF HostInv
<1>4. DriversWait'
  BY <1>1 DEF HostInv, DriversWait
<1>5. RepliesHold'
  BY <1>1, RepliesStay, SameQueue DEF HostInv
<1>6. BegunIsDriven' /\ ActiveIsAccepted'
  BY <1>1, NotReady
<1> QED BY <1>2, <1>3, <1>4, <1>5, <1>6 DEF HostInv

LEMMA StoreClosesKeeps ==
  ASSUME HostInv, StoreCloses
  PROVE  HostInv'
<1>1. CASE Down
  BY <1>1, DownKeeps
<1>2. CASE ~Down
  <2>1. /\ phase = "stopping" /\ phase' = "closing" /\ pending = {} /\ Post(Closing)
        /\ UNCHANGED <<db, worker, outbox, cause, drive, starts>>
    BY <1>2 DEF StoreCloses, Closing
  <2>2. /\ InFlight'
        /\ \A i \in DOMAIN inbox' : inbox'[i] = Closing \/ \E j \in DOMAIN inbox : inbox'[i] = inbox[j]
    <3>1. InFlight /\ IsRequest(Closing) /\ Closing.from \notin pending /\ outbox' = outbox
      BY <2>1 DEF HostInv, IsRequest
    <3> QED BY <2>1, <3>1, SentOne, Zenon
  <2>3. Sound(db') /\ Pool(db') /\ HostType' /\ cause' # "started"
    BY <2>1 DEF HostInv, HostType
  <2>4. Starting'
    BY <2>1, BusyHost DEF HostInv
  <2>5. DriversWait'
    <3>1. Closing.from \notin Runs
      BY UsersAssumption DEF Closing, Runs, Sessions, Host
    <3> QED BY <2>1, <2>2, <3>1 DEF HostInv, DriversWait
  <2>6. RepliesHold'
    BY <2>1, RepliesStay, SameQueue DEF HostInv
  <2>7. BegunIsDriven' /\ ActiveIsAccepted'
    BY <2>1, NotReady
  <2> QED BY <2>2, <2>3, <2>4, <2>5, <2>6, <2>7 DEF HostInv
<1> QED BY <1>1, <1>2

LEMMA HostStarts == HostInit => HostInv
<1> SUFFICES ASSUME HostInit PROVE HostInv
  OBVIOUS
<1>1. db = NewStore /\ inbox = <<>> /\ outbox = <<>> /\ worker = "dead" /\ pending = {}
      /\ phase = "down" /\ cause = "none" /\ drive = NoDrives
  BY DEF HostInit
<1>2. Sound(db)
  BY <1>1, NewStoreIsSound
<1>3. Pool(db)
  BY <1>1, BoundsAssumption DEF Pool, NewStore, Empty
<1>4. IsSequence(<<>>) /\ DOMAIN <<>> = {}
  BY Nothing
<1>5. InFlight
  BY <1>1, <1>4 DEF InFlight
<1>6. HostType /\ Starting /\ cause # "started"
  BY <1>1 DEF HostType, NoDrives, Starting
<1>7. DriversWait /\ RepliesHold
  BY <1>1, <1>4 DEF DriversWait, RepliesHold, NoDrives
<1>8. BegunIsDriven /\ ActiveIsAccepted
  BY <1>1 DEF BegunIsDriven, ActiveIsAccepted
<1> QED BY <1>2, <1>3, <1>5, <1>6, <1>7, <1>8 DEF HostInv

LEMMA HostSteps == HostInv /\ [HostNext]_vars => HostInv'
<1> SUFFICES ASSUME HostInv, [HostNext]_vars PROVE HostInv'
  OBVIOUS
<1>1. CASE UNCHANGED vars
  BY <1>1 DEF vars, HostInv, HostType, InFlight, Starting, AllAtRest, DriversWait, RepliesHold, BegunIsDriven, ActiveIsAccepted, Accepted
<1>2. CASE HostNext
  <2>1. ASSUME NEW u \in Users, UserAsks(u) PROVE HostInv'
    BY <2>1, UserAsksKeeps
  <2>2. CASE UserRefused
    BY <2>2, UserRefusedKeeps
  <2>3. CASE WorkerTreats
    BY <2>3, WorkerTreatsKeeps
  <2>4. CASE WorkerFails
    BY <2>4, WorkerFailsKeeps
  <2>5. CASE WorkerExits
    BY <2>5, WorkerExitsKeeps
  <2>6. CASE Deliver
    BY <2>6, DeliverKeeps
  <2>7. CASE HostLearns
    BY <2>7, HostLearnsKeeps
  <2>8. CASE ClientFails
    BY <2>8, ClientFailsKeeps
  <2>9. ASSUME NEW r \in Runs, DriverStops(r) PROVE HostInv'
    BY <2>9, DriverStopsKeeps
  <2>10. ASSUME NEW r \in Runs, DriverStep(r) PROVE HostInv'
    BY <2>10, DriverStepKeeps
  <2>11. CASE Start
    BY <2>11, StartKeeps
  <2>12. CASE HostCloses
    BY <2>12, HostClosesKeeps
  <2>13. CASE StoreCloses
    BY <2>13, StoreClosesKeeps
  <2>14. CASE Crash
    BY <2>14, DownKeeps DEF Crash
  <2> QED BY <1>2, <2>1, <2>2, <2>3, <2>4, <2>5, <2>6, <2>7, <2>8, <2>9, <2>10, <2>11, <2>12, <2>13, <2>14 DEF HostNext
<1> QED BY <1>1, <1>2

-----------------------------------------------------------------------------
(***************************************************************************)
(* HostInv holds of every reachable state: every message under way comes   *)
(* from a caller that waits for it, every driver is where its call left    *)
(* it, and what a reply reports of a run is still so when it is read.      *)
(***************************************************************************)
THEOREM HostInvariant == HostSpec => []HostInv
BY HostStarts, HostSteps, PTL DEF HostSpec

(***************************************************************************)
(* A ready host owes every accepted run a driver: it has one, or its       *)
(* submission's acknowledgement is about to start one, or the store has    *)
(* ended, which the next call finds out (execute and AgentLoopService.run).*)
(***************************************************************************)
THEOREM NoOrphanCorrect == HostSpec => []NoOrphan
<1>1. HostInv => NoOrphan
  BY DEF HostInv, ActiveIsAccepted, Accepted, Submitted, NoOrphan, Awaited
<1> QED BY <1>1, HostInvariant, PTL

(***************************************************************************)
(* No host fails because a driver met work that it had not begun: run()    *)
(* joins the live driver, and open's recovery ends what a former process   *)
(* left.                                                                   *)
(***************************************************************************)
THEOREM NeverResumedCorrect == HostSpec => []NeverResumed
<1>1. HostInv => NeverResumed
  BY DEF HostInv, NeverResumed
<1> QED BY <1>1, HostInvariant, PTL
=============================================================================
