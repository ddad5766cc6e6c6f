------------------------------ MODULE StoreProofs ------------------------------
(***************************************************************************)
(* What the event store keeps, proved of StoreWorker for every set of      *)
(* commands, every budget and every size of the caches: the caches agree   *)
(* with the rows, the workspace gate, deletion at rest, an atomic startup, *)
(* and the promises of CommandLedger.                                      *)
(*                                                                         *)
(* A property speaks of the committed rows, the code reads its caches, so  *)
(* everything rests on one invariant (StoreInv): between two messages each *)
(* cached value is what the rows say (Agree), a session's runs are         *)
(* numbered from one without a gap (so a fresh run is new), and a receipt  *)
(* belongs to the session its acknowledgement names, which has one         *)
(* (ReceiptsSound).  One lemma per message then says what it does to       *)
(* rows and receipts, and each theorem follows from those.                 *)
(***************************************************************************)
EXTENDS StoreWorker, FiniteSetTheorems, WellFoundedInduction, TLAPS

RunIds == Nat \X Nat

Row == [root : {c.root : c \in Commands}, runs : SUBSET RunIds, active : RunIds, started : BOOLEAN, busy : BOOLEAN,
        cancelled : BOOLEAN, blocked : BOOLEAN, size : Nat]

Fields == {"rows", "receipts", "states", "recent", "summaries", "sizes", "sessions"}

\* The runs of session s are its first n.
Numbered(runs, s) == \E n \in Nat : runs = {<<s, i>> : i \in 1..n}

RowsSound(d) ==
  /\ d.sessions \in Nat
  /\ DOMAIN d.rows \subseteq 1..d.sessions
  /\ \A s \in DOMAIN d.rows : d.rows[s] \in Row /\ Numbered(d.rows[s].runs, s)

\* Every receipt is of the session its acknowledgement names, and every session has the receipt of its creation.
ReceiptsSound(d) ==
  /\ \A k \in DOMAIN d.receipts :
       /\ d.receipts[k] = [command |-> d.receipts[k].command, ack |-> d.receipts[k].ack]
       /\ k[1] # 0 => d.receipts[k].ack.session = k[1]
  /\ \A s \in DOMAIN d.rows : \E k \in DOMAIN d.receipts : d.receipts[k].ack.session = s

Agree(d) ==
  /\ \A s \in DOMAIN d.states : s \in DOMAIN d.rows /\ d.states[s] = d.rows[s]
  /\ \A s \in DOMAIN d.summaries : s \in DOMAIN d.rows /\ d.summaries[s] = Summary(d.rows[s])
  /\ \A s \in DOMAIN d.sizes : s \in DOMAIN d.rows /\ d.sizes[s] = d.rows[s].size

Shape(d) == DOMAIN d = Fields

Sound(d) == Shape(d) /\ RowsSound(d) /\ Agree(d)

StoreInv == Sound(db) /\ ReceiptsSound(db)

-----------------------------------------------------------------------------
(***************************************************************************)
(* The caches.                                                             *)
(***************************************************************************)
\* f overrides g.
LEMMA Overridden ==
  ASSUME NEW f, NEW g
  PROVE  /\ DOMAIN Override(f, g) = DOMAIN f \cup DOMAIN g
         /\ \A x \in DOMAIN f : Override(f, g)[x] = f[x]
         /\ \A x \in DOMAIN g \ DOMAIN f : Override(f, g)[x] = g[x]
BY DEF Override

LEMMA Single == ASSUME NEW x, NEW v PROVE DOMAIN Only(x, v) = {x} /\ Only(x, v)[x] = v
BY DEF Only

\* cacheState leaves what is committed, and writes exactly the states it is given.
LEMMA CacheStatesIs ==
  ASSUME NEW d, Shape(d), NEW rows
  PROVE  LET c == CacheStates(d, rows)
         IN /\ Shape(c)
            /\ c.rows = d.rows /\ c.receipts = d.receipts /\ c.sizes = d.sizes /\ c.sessions = d.sessions
            /\ \A s \in DOMAIN c.states : IF s \in DOMAIN rows THEN c.states[s] = rows[s]
                                     ELSE s \in DOMAIN d.states /\ c.states[s] = d.states[s]
            /\ DOMAIN c.summaries = DOMAIN rows \cup DOMAIN d.summaries
            /\ \A s \in DOMAIN rows : c.summaries[s] = Summary(rows[s])
            /\ \A s \in DOMAIN d.summaries \ DOMAIN rows : c.summaries[s] = d.summaries[s]
<1> DEFINE c == CacheStates(d, rows)
           states == Override(rows, d.states)
           new == [s \in DOMAIN rows |-> Summary(rows[s])]
<1>1. PICK recent : c = [d EXCEPT !.recent = recent, !.states = Without(states, DOMAIN states \ Range(recent)),
                                  !.summaries = Override(new, d.summaries)]
  BY DEF CacheStates
<1>2. Shape(c) /\ c.rows = d.rows /\ c.receipts = d.receipts /\ c.sizes = d.sizes /\ c.sessions = d.sessions
  BY <1>1 DEF Shape, Fields
<1>3. c.states = Without(states, DOMAIN states \ Range(recent)) /\ c.summaries = Override(new, d.summaries)
  BY <1>1 DEF Shape, Fields
<1>4. \A s \in DOMAIN c.states : s \in DOMAIN states /\ c.states[s] = states[s]
  BY <1>3 DEF Without
<1>5. \A s \in DOMAIN c.states : IF s \in DOMAIN rows THEN c.states[s] = rows[s]
                                     ELSE s \in DOMAIN d.states /\ c.states[s] = d.states[s]
  <2>1. /\ DOMAIN states = DOMAIN rows \cup DOMAIN d.states
        /\ \A x \in DOMAIN rows : states[x] = rows[x]
        /\ \A x \in DOMAIN d.states \ DOMAIN rows : states[x] = d.states[x]
    BY Overridden
  <2> HIDE DEF states, c
  <2> QED BY <1>4, <2>1
<1>6. DOMAIN new = DOMAIN rows /\ \A s \in DOMAIN rows : new[s] = Summary(rows[s])
  OBVIOUS
<1>7. /\ DOMAIN c.summaries = DOMAIN rows \cup DOMAIN d.summaries
      /\ \A s \in DOMAIN rows : c.summaries[s] = Summary(rows[s])
      /\ \A s \in DOMAIN d.summaries \ DOMAIN rows : c.summaries[s] = d.summaries[s]
  <2> DEFINE summaries == Override(new, d.summaries)
  <2> HIDE DEF new
  <2>1. /\ DOMAIN summaries = DOMAIN new \cup DOMAIN d.summaries
        /\ \A x \in DOMAIN new : summaries[x] = new[x]
        /\ \A x \in DOMAIN d.summaries \ DOMAIN new : summaries[x] = d.summaries[x]
    BY Overridden
  <2>2. c.summaries = summaries
    BY <1>3
  <2> HIDE DEF summaries, c
  <2> QED BY <1>6, <2>1, <2>2
<1> QED BY <1>2, <1>5, <1>7

\* What leaves the committed rows and receipts as they are.
Same(d, e) == e.rows = d.rows /\ e.receipts = d.receipts /\ e.sessions = d.sessions

\* Caching committed rows keeps the caches right.
LEMMA CachingKeeps ==
  ASSUME NEW d, Sound(d), NEW rows, \A s \in DOMAIN rows : s \in DOMAIN d.rows /\ rows[s] = d.rows[s]
  PROVE  /\ Sound(CacheStates(d, rows)) /\ Same(d, CacheStates(d, rows))
         /\ DOMAIN CacheStates(d, rows).summaries = DOMAIN rows \cup DOMAIN d.summaries
<1> DEFINE c == CacheStates(d, rows)
<1>1. /\ Shape(c) /\ Same(d, c) /\ c.sizes = d.sizes
      /\ \A s \in DOMAIN c.states : IF s \in DOMAIN rows THEN c.states[s] = rows[s]
                                     ELSE s \in DOMAIN d.states /\ c.states[s] = d.states[s]
      /\ DOMAIN c.summaries = DOMAIN rows \cup DOMAIN d.summaries
      /\ \A s \in DOMAIN rows : c.summaries[s] = Summary(rows[s])
      /\ \A s \in DOMAIN d.summaries \ DOMAIN rows : c.summaries[s] = d.summaries[s]
  BY CacheStatesIs DEF Same, Sound
<1> HIDE DEF c
<1>2. RowsSound(c)
  BY <1>1 DEF Sound, RowsSound, Same
<1>3. Agree(c)
  BY <1>1 DEF Sound, Agree, Same
<1> QED BY <1>1, <1>2, <1>3 DEF Sound, c

LEMMA InvalidateKeeps ==
  ASSUME NEW d, Sound(d)
  PROVE  Sound(InvalidateDerived(d)) /\ Same(d, InvalidateDerived(d))
<1> DEFINE c == InvalidateDerived(d)
<1>1. Shape(c) /\ Same(d, c) /\ c.states = Empty /\ c.summaries = Empty /\ c.sizes = Empty
  BY DEF InvalidateDerived, Sound, Shape, Same, Fields
<1> HIDE DEF c
<1>2. DOMAIN Empty = {}
  BY DEF Empty
<1>3. RowsSound(c)
  BY <1>1 DEF Sound, RowsSound, Same
<1>4. Agree(c)
  BY <1>1, <1>2 DEF Agree
<1> QED BY <1>1, <1>3, <1>4 DEF Sound, c

\* The cached replay is the committed one.
LEMMA StateIsRow ==
  ASSUME NEW d, Sound(d), NEW s
  PROVE  StateOf(d, s) = d.rows[s]
BY DEF StateOf, Sound, Agree

LEMMA TouchKeeps ==
  ASSUME NEW d, Sound(d), NEW s
  PROVE  Sound(Touched(d, s)) /\ Same(d, Touched(d, s))
<1>1. CASE s \notin DOMAIN d.rows
  BY <1>1 DEF Touched, Same
<1>2. CASE s \in DOMAIN d.rows /\ s \in DOMAIN d.states
  <2> DEFINE c == Touched(d, s)
  <2>1. PICK recent : c = [d EXCEPT !.recent = recent]
    BY <1>2 DEF Touched
  <2>2. Shape(c) /\ Same(d, c) /\ c.states = d.states /\ c.summaries = d.summaries /\ c.sizes = d.sizes
    BY <2>1 DEF Sound, Shape, Same, Fields
  <2> HIDE DEF c
  <2>3. RowsSound(c)
    BY <2>2 DEF Sound, RowsSound, Same
  <2>4. Agree(c)
    BY <2>2 DEF Sound, Agree, Same
  <2> QED BY <2>2, <2>3, <2>4 DEF Sound, c
<1>3. CASE s \in DOMAIN d.rows /\ s \notin DOMAIN d.states
  <2>1. Touched(d, s) = CacheStates(d, Only(s, d.rows[s]))
    BY <1>3 DEF Touched
  <2>2. \A t \in DOMAIN Only(s, d.rows[s]) : t \in DOMAIN d.rows /\ Only(s, d.rows[s])[t] = d.rows[t]
    BY <1>3 DEF Only
  <2> QED BY <2>1, <2>2, CachingKeeps
<1> QED BY <1>1, <1>2, <1>3

\* After requireSafeWorkspace every session has a summary.
LEMMA SummarisedKeeps ==
  ASSUME NEW d, Sound(d)
  PROVE  /\ Sound(Summarised(d)) /\ Same(d, Summarised(d))
         /\ \A s \in DOMAIN d.rows : Summarised(d).summaries[s] = Summary(d.rows[s])
<1> DEFINE rows == [s \in DOMAIN d.rows \ DOMAIN d.summaries |-> d.rows[s]]
           c == CacheStates(d, rows)
<1>1. c = Summarised(d)
  BY DEF Summarised
<1>2. \A s \in DOMAIN rows : s \in DOMAIN d.rows /\ rows[s] = d.rows[s]
  OBVIOUS
<1>3. DOMAIN rows = DOMAIN d.rows \ DOMAIN d.summaries
  OBVIOUS
<1> HIDE DEF rows
<1>4. Sound(c) /\ Same(d, c) /\ DOMAIN c.summaries = DOMAIN rows \cup DOMAIN d.summaries
  BY <1>2, CachingKeeps
<1> HIDE DEF c
<1>5. \A s \in DOMAIN d.rows : c.summaries[s] = Summary(d.rows[s])
  BY <1>3, <1>4 DEF Sound, Agree, Same
<1> QED BY <1>1, <1>4, <1>5

LEMMA BlockedIs ==
  ASSUME NEW d, Sound(d), NEW root
  PROVE  WorkspaceBlocked(Summarised(d), root) <=> \E t \in DOMAIN d.rows : d.rows[t].blocked /\ Overlaps(root, d.rows[t].root)
<1>1. DOMAIN Summarised(d).rows = DOMAIN d.rows
  BY SummarisedKeeps DEF Same
<1>2. \A t \in DOMAIN d.rows : Summarised(d).summaries[t].blocked = d.rows[t].blocked
                             /\ Summarised(d).summaries[t].root = d.rows[t].root
  <2>1. \A t \in DOMAIN d.rows : Summarised(d).summaries[t] = Summary(d.rows[t])
    BY SummarisedKeeps
  <2>2. \A row : Summary(row).blocked = row.blocked /\ Summary(row).root = row.root
    BY DEF Summary
  <2> QED BY <2>1, <2>2
<1> QED BY <1>1, <1>2 DEF WorkspaceBlocked
-----------------------------------------------------------------------------
(***************************************************************************)
(* One event.                                                              *)
(***************************************************************************)
EventTypes == {"run.started", "user.message", "work", "settled", "cleanup_failed", "cancel", "finished", "resolved"}

\* A run that starts is the session's next.
EventFits(s, row, e) ==
  /\ e.type \in EventTypes /\ e.run \in RunIds
  /\ e.type = "run.started" => e.run = <<s, 1 + Cardinality(row.runs)>>

LEMMA NumberedCount ==
  ASSUME NEW s, NEW n \in Nat
  PROVE  Cardinality({<<s, i>> : i \in 1..n}) = n
<1> DEFINE runs == {<<s, i>> : i \in 1..n}
           f == [i \in 1..n |-> <<s, i>>]
<1>1. f \in Bijection(1..n, runs)
  BY DEF Bijection, Injection, Surjection, IsInjective
<1>2. IsFiniteSet(1..n) /\ Cardinality(1..n) = n
  BY FS_Interval
<1> QED BY <1>1, <1>2, FS_Bijection DEF ExistsBijection

\* The next run of a session is none of its runs, and keeps them numbered.
LEMMA NextNumber ==
  ASSUME NEW s, NEW runs, Numbered(runs, s)
  PROVE  LET run == <<s, 1 + Cardinality(runs)>> IN run \notin runs /\ Numbered(runs \cup {run}, s)
<1>1. PICK n \in Nat : runs = {<<s, i>> : i \in 1..n}
  BY DEF Numbered
<1>2. Cardinality(runs) = n
  BY <1>1, NumberedCount
<1>3. <<s, 1 + n>> \notin runs
  BY <1>1
<1>4. 1..(n + 1) = 1..n \cup {n + 1}
  OBVIOUS
<1>5. runs \cup {<<s, 1 + n>>} = {<<s, i>> : i \in 1..(n + 1)}
  BY <1>1, <1>4
<1> QED BY <1>2, <1>3, <1>5 DEF Numbered

LEMMA AppliedIs ==
  ASSUME NEW row \in Row, NEW e, e.type \in EventTypes, e.run \in RunIds
  PROVE  LET next == Applied(row, e)
         IN /\ next \in Row /\ next.root = row.root
            /\ next.runs = (IF e.type = "run.started" THEN row.runs \cup {e.run} ELSE row.runs)
            /\ next.busy /\ ~row.busy => e.type \in Gated
            /\ next.active # NoRun /\ row.active = NoRun => e.type \in Gated
            /\ e.type = "finished" => next.active = NoRun
<1> DEFINE grown == [row EXCEPT !.size = @ + 1]
<1>0. /\ grown \in Row /\ grown.root = row.root /\ grown.runs = row.runs
      /\ grown.busy = row.busy /\ grown.active = row.active
  BY DEF Row
<1>10. NoRun \in RunIds
  BY DEF NoRun, RunIds
<1>1. CASE e.type = "run.started"
  <2>1. Applied(row, e) = [grown EXCEPT !.runs = @ \cup {e.run}, !.active = e.run, !.started = FALSE, !.cancelled = FALSE]
    BY <1>1 DEF Applied
  <2> HIDE DEF grown
  <2>2. row.runs \cup {e.run} \in SUBSET RunIds
    BY DEF Row
  <2>3. Applied(row, e) \in Row
    BY <1>0, <2>1, <2>2 DEF Row
  <2>4. Applied(row, e).root = row.root /\ Applied(row, e).runs = row.runs \cup {e.run}
    BY <1>0, <2>1 DEF Row
  <2>5. Applied(row, e).busy = row.busy
    BY <1>0, <2>1 DEF Row
  <2> QED BY <1>1, <2>3, <2>4, <2>5 DEF Gated
<1>2. CASE e.type = "work"
  <2>1. Applied(row, e) = [grown EXCEPT !.started = TRUE, !.busy = TRUE]
    BY <1>2 DEF Applied
  <2> HIDE DEF grown
  <2> QED BY <1>0, <1>10, <1>2, <2>1 DEF Row, Gated
<1>3. CASE e.type = "settled"
  <2>1. Applied(row, e) = [grown EXCEPT !.busy = FALSE]
    BY <1>3 DEF Applied
  <2> HIDE DEF grown
  <2> QED BY <1>0, <1>10, <1>3, <2>1 DEF Row, Gated
<1>4. CASE e.type = "cleanup_failed"
  <2>1. Applied(row, e) = [grown EXCEPT !.busy = FALSE, !.blocked = TRUE]
    BY <1>4 DEF Applied
  <2> HIDE DEF grown
  <2> QED BY <1>0, <1>10, <1>4, <2>1 DEF Row, Gated
<1>5. CASE e.type = "cancel"
  <2>1. Applied(row, e) = [grown EXCEPT !.cancelled = TRUE]
    BY <1>5 DEF Applied
  <2> HIDE DEF grown
  <2> QED BY <1>0, <1>10, <1>5, <2>1 DEF Row, Gated
<1>6. CASE e.type = "finished"
  <2>1. Applied(row, e) = [grown EXCEPT !.active = NoRun, !.cancelled = FALSE]
    BY <1>6 DEF Applied
  <2> HIDE DEF grown
  <2> QED BY <1>0, <1>10, <1>6, <2>1 DEF Row, Gated
<1>7. CASE e.type = "resolved"
  <2>1. Applied(row, e) = [grown EXCEPT !.blocked = FALSE]
    BY <1>7 DEF Applied
  <2> HIDE DEF grown
  <2> QED BY <1>0, <1>10, <1>7, <2>1 DEF Row, Gated
<1>8. CASE e.type = "user.message"
  <2>1. Applied(row, e) = grown
    BY <1>8 DEF Applied
  <2> HIDE DEF grown
  <2> QED BY <1>0, <1>10, <1>8, <2>1 DEF Row, Gated
<1> QED BY <1>1, <1>2, <1>3, <1>4, <1>5, <1>6, <1>7, <1>8 DEF EventTypes

\* Saving a session's row.
LEMMA StoredIs ==
  ASSUME NEW d, Sound(d), NEW s \in 1..d.sessions, NEW row \in Row, Numbered(row.runs, s)
  PROVE  LET c == Stored(d, s, row)
         IN /\ Sound(c) /\ c.rows = Override(Only(s, row), d.rows)
            /\ c.receipts = d.receipts /\ c.sessions = d.sessions
<1> DEFINE new == Only(s, row)
           sizes == Override(Only(s, row.size), d.sizes)
           rows == Override(new, d.rows)
           b == [d EXCEPT !.rows = rows, !.sizes = sizes]
           c == CacheStates(b, new)
<1>1. c = Stored(d, s, row)
  BY DEF Stored
<1>2. /\ Shape(b) /\ b.rows = rows /\ b.sizes = sizes
      /\ b.receipts = d.receipts /\ b.sessions = d.sessions /\ b.states = d.states /\ b.summaries = d.summaries
  BY DEF Sound, Shape, Fields
<1>3. DOMAIN new = {s} /\ new[s] = row
  BY Single
<1>4. /\ DOMAIN rows = {s} \cup DOMAIN d.rows /\ rows[s] = row
      /\ \A t \in DOMAIN d.rows \ {s} : rows[t] = d.rows[t]
  BY <1>3 DEF Override
<1>5. /\ DOMAIN sizes = {s} \cup DOMAIN d.sizes /\ sizes[s] = row.size
      /\ \A t \in DOMAIN d.sizes \ {s} : sizes[t] = d.sizes[t]
  BY DEF Override, Only
<1> HIDE DEF b, new, sizes, rows
<1>6. /\ Shape(c) /\ c.rows = b.rows /\ c.receipts = b.receipts /\ c.sizes = b.sizes /\ c.sessions = b.sessions
      /\ \A t \in DOMAIN c.states : IF t \in DOMAIN new THEN c.states[t] = new[t]
                                   ELSE t \in DOMAIN b.states /\ c.states[t] = b.states[t]
      /\ DOMAIN c.summaries = DOMAIN new \cup DOMAIN b.summaries
      /\ \A t \in DOMAIN new : c.summaries[t] = Summary(new[t])
      /\ \A t \in DOMAIN b.summaries \ DOMAIN new : c.summaries[t] = b.summaries[t]
  BY <1>2, CacheStatesIs
<1> HIDE DEF c
<1>7. RowsSound(c)
  BY <1>2, <1>4, <1>6 DEF Sound, RowsSound
<1>8. Agree(c)
  <2>1. \A t \in DOMAIN c.states : t \in DOMAIN c.rows /\ c.states[t] = c.rows[t]
    BY <1>2, <1>3, <1>4, <1>6 DEF Sound, Agree
  <2>2. \A t \in DOMAIN c.summaries : t \in DOMAIN c.rows /\ c.summaries[t] = Summary(c.rows[t])
    BY <1>2, <1>3, <1>4, <1>6 DEF Sound, Agree
  <2>3. \A t \in DOMAIN c.sizes : t \in DOMAIN c.rows /\ c.sizes[t] = c.rows[t].size
    BY <1>2, <1>4, <1>5, <1>6 DEF Sound, Agree
  <2> QED BY <2>1, <2>2, <2>3 DEF Agree
<1> QED BY <1>1, <1>2, <1>6, <1>7, <1>8 DEF Sound, rows, new

(***************************************************************************)
(* appendWithinTransaction of one event: an error, or the event's effect   *)
(* on its session, which the gate allowed.                                 *)
(***************************************************************************)
GateOpen(d, root) == \A t \in DOMAIN d.rows : d.rows[t].blocked => ~Overlaps(root, d.rows[t].root)

LEMMA AppendOneIs ==
  ASSUME NEW acc, DOMAIN acc = {"d", "error"}, acc.error = "none", Sound(acc.d),
         NEW s \in DOMAIN acc.d.rows, NEW e, EventFits(s, acc.d.rows[s], e),
         NEW res, res = AppendOne(s, acc, e), res.error = "none"
  PROVE  LET row == Applied(acc.d.rows[s], e)
         IN /\ DOMAIN res = {"d", "error"} /\ Sound(res.d) /\ CanApply(acc.d.rows[s], e)
            /\ res.d.rows = Override(Only(s, row), acc.d.rows)
            /\ res.d.receipts = acc.d.receipts /\ res.d.sessions = acc.d.sessions
            /\ e.type \in Gated => GateOpen(acc.d, acc.d.rows[s].root)
<1> DEFINE d == acc.d
           row == d.rows[s]
           seen == IF e.type \in Gated THEN Summarised(Touched(d, s)) ELSE Touched(d, s)
           next == Stored(seen, s, Applied(row, e))
<1>1. StateOf(d, s) = row
  BY StateIsRow
<1>2. Sound(Touched(d, s)) /\ Same(d, Touched(d, s))
  BY TouchKeeps
<1>3. Sound(seen) /\ Same(d, seen)
  BY <1>2, SummarisedKeeps DEF Same
<1>4. e.type \in Gated => (WorkspaceBlocked(seen, row.root) <=> ~GateOpen(d, row.root))
  <2>1. SUFFICES ASSUME e.type \in Gated PROVE WorkspaceBlocked(seen, row.root) <=> ~GateOpen(d, row.root)
    OBVIOUS
  <2>2. Touched(d, s).rows = d.rows
    BY <1>2 DEF Same
  <2>3. WorkspaceBlocked(seen, row.root) <=>
          \E t \in DOMAIN Touched(d, s).rows : Touched(d, s).rows[t].blocked /\ Overlaps(row.root, Touched(d, s).rows[t].root)
    BY <1>2, <2>1, BlockedIs
  <2> QED BY <2>2, <2>3 DEF GateOpen
<1> DEFINE Fail(code) == [acc EXCEPT !.error = code]
<1>5. res = IF e.type \in Gated /\ WorkspaceBlocked(seen, row.root) THEN Fail("workspace_blocked")
            ELSE IF ~CanApply(row, e) THEN Fail("late-event")
            ELSE IF OverBudget(e.type, SizeOf(seen, s) + 1) THEN Fail("session_capacity")
            ELSE [acc EXCEPT !.d = next]
  BY <1>1 DEF AppendOne, AppendTo, Consulted
<1>6. \A code : Fail(code).error = code
  OBVIOUS
<1> HIDE DEF seen, next, row, d, Fail
<1>7. ~(e.type \in Gated /\ WorkspaceBlocked(seen, row.root)) /\ CanApply(row, e) /\ res = [acc EXCEPT !.d = next]
  BY <1>5, <1>6
<1>8. DOMAIN res = {"d", "error"} /\ res.d = next
  BY <1>7
<1>9. row \in Row /\ s \in 1..seen.sessions /\ s \in Nat /\ Numbered(row.runs, s)
  BY <1>3 DEF Sound, RowsSound, Same, d, row
<1>10. Applied(row, e) \in Row /\ Numbered(Applied(row, e).runs, s)
  <2>1. e.type \in EventTypes /\ e.run \in RunIds /\ (e.type = "run.started" => e.run = <<s, 1 + Cardinality(row.runs)>>)
    BY DEF EventFits, row, d
  <2>2. Applied(row, e) \in Row
        /\ Applied(row, e).runs = (IF e.type = "run.started" THEN row.runs \cup {e.run} ELSE row.runs)
    BY <1>9, <2>1, AppliedIs
  <2> QED BY <1>9, <2>1, <2>2, NextNumber
<1>11. Sound(next) /\ next.rows = Override(Only(s, Applied(row, e)), seen.rows)
       /\ next.receipts = seen.receipts /\ next.sessions = seen.sessions
  BY <1>3, <1>9, <1>10, StoredIs DEF next
<1> QED BY <1>3, <1>4, <1>7, <1>8, <1>11 DEF Same, d, row
-----------------------------------------------------------------------------
(***************************************************************************)
(* A transaction of one event or two.                                      *)
(***************************************************************************)
\* e is d with session s's row replaced, and caches that agree.
Wrote(d, e, s, row) ==
  /\ Sound(e) /\ e.receipts = d.receipts /\ e.sessions = d.sessions
  /\ DOMAIN e.rows = DOMAIN d.rows /\ e.rows[s] = row
  /\ \A t \in DOMAIN d.rows \ {s} : e.rows[t] = d.rows[t]

LEMMA WroteOne ==
  ASSUME NEW d, Sound(d), NEW s \in DOMAIN d.rows, NEW a, EventFits(s, d.rows[s], a),
         NEW acc, acc = [d |-> d, error |-> "none"], NEW res, res = AppendOne(s, acc, a), res.error = "none"
  PROVE  /\ DOMAIN res = {"d", "error"} /\ CanApply(d.rows[s], a)
         /\ Wrote(d, res.d, s, Applied(d.rows[s], a))
         /\ a.type \in Gated => GateOpen(d, d.rows[s].root)
<1>1. DOMAIN acc = {"d", "error"} /\ acc.error = "none" /\ acc.d = d
  OBVIOUS
<1> DEFINE row == Applied(d.rows[s], a)
<1>2. /\ DOMAIN res = {"d", "error"} /\ Sound(res.d) /\ CanApply(d.rows[s], a)
      /\ res.d.rows = Override(Only(s, row), d.rows)
      /\ res.d.receipts = d.receipts /\ res.d.sessions = d.sessions
      /\ a.type \in Gated => GateOpen(d, d.rows[s].root)
  BY <1>1, AppendOneIs
<1> HIDE DEF row
<1>3. DOMAIN res.d.rows = DOMAIN d.rows /\ res.d.rows[s] = row /\ \A t \in DOMAIN d.rows \ {s} : res.d.rows[t] = d.rows[t]
  BY <1>2 DEF Override, Only
<1> QED BY <1>2, <1>3 DEF Wrote, row

LEMMA AppendedOne ==
  ASSUME NEW d, Sound(d), NEW s \in DOMAIN d.rows, NEW a, EventFits(s, d.rows[s], a),
         NEW res, res = Appended(d, s, <<a>>), res.error = "none"
  PROVE  /\ CanApply(d.rows[s], a)
         /\ Wrote(d, res.d, s, Applied(d.rows[s], a))
         /\ a.type \in Gated => GateOpen(d, d.rows[s].root)
<1> DEFINE acc == [d |-> d, error |-> "none"]
<1>1. res = AppendOne(s, acc, a)
  BY DEF Appended, AppendRest
<1> QED BY <1>1, WroteOne

LEMMA AppendedTwo ==
  ASSUME NEW d, Sound(d), NEW s \in DOMAIN d.rows, NEW a, EventFits(s, d.rows[s], a),
         NEW b, EventFits(s, Applied(d.rows[s], a), b),
         NEW res, res = Appended(d, s, <<a, b>>), res.error = "none"
  PROVE  /\ CanApply(d.rows[s], a) /\ CanApply(Applied(d.rows[s], a), b)
         /\ Wrote(d, res.d, s, Applied(Applied(d.rows[s], a), b))
         /\ a.type \in Gated => GateOpen(d, d.rows[s].root)
<1> DEFINE acc == [d |-> d, error |-> "none"]
           first == AppendOne(s, acc, a)
<1>1. res = AppendOne(s, first, b)
  BY DEF Appended, AppendRest
<1> HIDE DEF first
<1>2. first.error = "none"
  BY <1>1 DEF AppendOne
<1>3. /\ DOMAIN first = {"d", "error"} /\ CanApply(d.rows[s], a)
      /\ Wrote(d, first.d, s, Applied(d.rows[s], a))
      /\ a.type \in Gated => GateOpen(d, d.rows[s].root)
  BY <1>2, WroteOne DEF first
<1> DEFINE e == first.d
           row == Applied(d.rows[s], a)
           next == Applied(row, b)
<1>4. Sound(e) /\ s \in DOMAIN e.rows /\ e.rows[s] = row
  BY <1>3 DEF Wrote
<1>5. EventFits(s, e.rows[s], b)
  BY <1>4
<1>6. Sound(res.d) /\ CanApply(e.rows[s], b) /\ res.d.rows = Override(Only(s, Applied(e.rows[s], b)), e.rows)
      /\ res.d.receipts = e.receipts /\ res.d.sessions = e.sessions
  BY <1>1, <1>2, <1>3, <1>4, <1>5, AppendOneIs
<1>7. Sound(res.d) /\ CanApply(row, b) /\ res.d.rows = Override(Only(s, next), e.rows)
      /\ res.d.receipts = d.receipts /\ res.d.sessions = d.sessions
  BY <1>3, <1>4, <1>6 DEF Wrote
<1>8. DOMAIN e.rows = DOMAIN d.rows /\ \A t \in DOMAIN d.rows \ {s} : e.rows[t] = d.rows[t]
  BY <1>3 DEF Wrote
<1> HIDE DEF e, row, next
<1>9. DOMAIN res.d.rows = DOMAIN d.rows /\ res.d.rows[s] = next /\ \A t \in DOMAIN d.rows \ {s} : res.d.rows[t] = d.rows[t]
  BY <1>7, <1>8 DEF Override, Only
<1> QED BY <1>3, <1>7, <1>9 DEF Wrote, row, next

LEMMA WroteRuns ==
  ASSUME NEW d, NEW e, NEW s \in DOMAIN d.rows, NEW row, Wrote(d, e, s, row), d.rows[s].runs \subseteq row.runs
  PROVE  RunsOf(e) = RunsOf(d) \cup row.runs
<1>1. \A r : r \in RunsOf(e) <=> \E t \in DOMAIN d.rows : r \in e.rows[t].runs
  BY DEF RunsOf, Wrote
<1>2. \A r : r \in RunsOf(d) <=> \E t \in DOMAIN d.rows : r \in d.rows[t].runs
  BY DEF RunsOf
<1>3. e.rows[s] = row /\ \A t \in DOMAIN d.rows \ {s} : e.rows[t] = d.rows[t]
  BY DEF Wrote
<1>4. \A r : r \in RunsOf(e) => r \in RunsOf(d) \cup row.runs
  BY <1>1, <1>2, <1>3
<1>5. \A r : r \in RunsOf(d) \cup row.runs => r \in RunsOf(e)
  BY <1>1, <1>2, <1>3
<1> QED BY <1>4, <1>5

LEMMA WroteNoRun ==
  ASSUME NEW d, NEW e, NEW s \in DOMAIN d.rows, NEW row, Wrote(d, e, s, row), row.runs = d.rows[s].runs
  PROVE  RunsOf(e) = RunsOf(d)
<1>1. \A r : r \in RunsOf(e) <=> \E t \in DOMAIN d.rows : r \in e.rows[t].runs
  BY DEF RunsOf, Wrote
<1>2. \A r : r \in RunsOf(d) <=> \E t \in DOMAIN d.rows : r \in d.rows[t].runs
  BY DEF RunsOf
<1>3. e.rows[s] = row /\ \A t \in DOMAIN d.rows \ {s} : e.rows[t] = d.rows[t]
  BY DEF Wrote
<1>4. \A r : r \in RunsOf(e) => r \in RunsOf(d)
  BY <1>1, <1>2, <1>3
<1>5. \A r : r \in RunsOf(d) => r \in RunsOf(e)
  BY <1>1, <1>2, <1>3
<1> QED BY <1>4, <1>5

-----------------------------------------------------------------------------
(***************************************************************************)
(* What every message keeps.                                               *)
(***************************************************************************)
Begins(row, next) ==
  \/ next.busy /\ ~row.busy
  \/ next.active # NoRun /\ row.active = NoRun

\* A session whose run starts, or that dispatches, found the gate open.
Gates(d, e) == \A s \in DOMAIN d.rows \cap DOMAIN e.rows : Begins(d.rows[s], e.rows[s]) => GateOpen(d, d.rows[s].root)

\* Sessions, runs and receipts are what they were.
KeepsLedger(d, e) == DOMAIN e.rows = DOMAIN d.rows /\ e.receipts = d.receipts /\ RunsOf(e) = RunsOf(d)

LEMMA SameKeeps ==
  ASSUME NEW d, Sound(d), NEW e, Same(d, e)
  PROVE  Gates(d, e) /\ KeepsLedger(d, e)
BY DEF Same, Gates, Begins, KeepsLedger, RunsOf

LEMMA RefusedKeeps ==
  ASSUME NEW d, Sound(d), NEW code, NEW result, result = Refused(d, code)
  PROVE  result.code = code /\ Sound(result.d) /\ Same(d, result.d) /\ Gates(d, result.d) /\ KeepsLedger(d, result.d)
<1>1. result.code = code /\ result.d = InvalidateDerived(d)
  BY DEF Refused, Reply
<1> QED BY <1>1, InvalidateKeeps, SameKeeps

\* An event that starts no run.
LEMMA OneEventKeeps ==
  ASSUME NEW d, Sound(d), NEW s \in DOMAIN d.rows, NEW a, a.type \in EventTypes \ {"run.started"}, a.run \in RunIds,
         NEW res, res = Appended(d, s, <<a>>), res.error = "none"
  PROVE  Sound(res.d) /\ Gates(d, res.d) /\ KeepsLedger(d, res.d)
<1> DEFINE row == d.rows[s]
           next == Applied(row, a)
<1>1. EventFits(s, row, a)
  BY DEF EventFits
<1>2. Wrote(d, res.d, s, next) /\ (a.type \in Gated => GateOpen(d, row.root))
  BY <1>1, AppendedOne
<1>3. row \in Row
  BY DEF Sound, RowsSound
<1>4. next.runs = row.runs /\ (next.busy /\ ~row.busy => a.type \in Gated)
      /\ (next.active # NoRun /\ row.active = NoRun => a.type \in Gated)
  BY <1>3, AppliedIs
<1> HIDE DEF next
<1>5. Gates(d, res.d)
  BY <1>2, <1>4 DEF Gates, Begins, Wrote
<1>6. RunsOf(res.d) = RunsOf(d)
  BY <1>2, <1>4, WroteNoRun
<1> QED BY <1>2, <1>5, <1>6 DEF Wrote, KeepsLedger
LEMMA AppendBatchKeeps ==
  ASSUME NEW d, Sound(d), NEW s, NEW a, a.type \in EventTypes \ {"run.started"}, a.run \in RunIds,
         NEW result, result = AppendBatch(d, s, <<a>>)
  PROVE  Sound(result.d) /\ Gates(d, result.d) /\ KeepsLedger(d, result.d)
<1> DEFINE res == Appended(d, s, <<a>>)
<1>1. CASE s \notin DOMAIN d.rows
  BY <1>1, RefusedKeeps DEF AppendBatch
<1>2. CASE s \in DOMAIN d.rows /\ res.error # "none"
  BY <1>2, RefusedKeeps DEF AppendBatch, Ended, RolledBack
<1>3. CASE s \in DOMAIN d.rows /\ res.error = "none"
  <2>1. result.d = res.d
    BY <1>3 DEF AppendBatch, Ended, Reply
  <2> QED BY <1>3, <2>1, OneEventKeeps
<1> QED BY <1>1, <1>2, <1>3

LEMMA ReadStateKeeps ==
  ASSUME NEW d, Sound(d), NEW s, NEW r, NEW result, result = ReadState(d, s, r)
  PROVE  Sound(result.d) /\ Gates(d, result.d) /\ KeepsLedger(d, result.d)
<1>1. result.d = Touched(d, s)
  BY DEF ReadState, Reply
<1> QED BY <1>1, TouchKeeps, SameKeeps

-----------------------------------------------------------------------------
(***************************************************************************)
(* Deletion.                                                               *)
(***************************************************************************)
\* The sessions of S are at rest, and e is d without them.
Deletes(d, e, S) ==
  /\ S # {} /\ S \subseteq DOMAIN d.rows
  /\ \A s \in S : d.rows[s].active = NoRun /\ ~d.rows[s].blocked
  /\ e.rows = Without(d.rows, S) /\ e.receipts = Without(d.receipts, ReceiptsOf(d, S))

LEMMA DeleteIs ==
  ASSUME NEW d, Sound(d), NEW S, NEW result, result = DeleteSessions(d, S)
  PROVE  /\ Sound(result.d)
         /\ Same(d, result.d) \/ Deletes(d, result.d, S)
<1>1. CASE DeletionError(d, S) # "none"
  BY <1>1, RefusedKeeps DEF DeleteSessions
<1>2. CASE DeletionError(d, S) = "none"
  <2> DEFINE e == result.d
  <2>1. S # {} /\ S \subseteq DOMAIN d.rows /\ \A s \in S : d.rows[s].active = NoRun /\ ~d.rows[s].blocked
    BY <1>2, StateIsRow DEF DeletionError
  <2> DEFINE b == [d EXCEPT !.rows = Without(@, S), !.receipts = Without(@, ReceiptsOf(d, S))]
  <2>2. e = DropCached(b, S)
    BY <1>2 DEF DeleteSessions, Reply
  <2>3. /\ Shape(b) /\ b.rows = Without(d.rows, S) /\ b.receipts = Without(d.receipts, ReceiptsOf(d, S))
        /\ b.sessions = d.sessions /\ b.states = d.states /\ b.summaries = d.summaries /\ b.sizes = d.sizes
    BY DEF Sound, Shape, Fields
  <2> HIDE DEF b
  <2>4. PICK recent : e = [b EXCEPT !.states = Without(@, S), !.recent = recent, !.summaries = Without(@, S),
                                    !.sizes = Without(@, S)]
    BY <2>2 DEF DropCached
  <2> HIDE DEF e
  <2>5. /\ Shape(e) /\ e.rows = b.rows /\ e.receipts = b.receipts /\ e.sessions = b.sessions
        /\ e.states = Without(b.states, S) /\ e.summaries = Without(b.summaries, S) /\ e.sizes = Without(b.sizes, S)
    BY <2>3, <2>4 DEF Shape, Fields
  <2>6. e.rows = Without(d.rows, S) /\ e.sessions = d.sessions /\ e.receipts = Without(d.receipts, ReceiptsOf(d, S))
    BY <2>3, <2>5
  <2>7. DOMAIN e.rows = DOMAIN d.rows \ S /\ \A s \in DOMAIN e.rows : e.rows[s] = d.rows[s]
    BY <2>6 DEF Without
  <2>8. RowsSound(e)
    BY <2>6, <2>7 DEF Sound, RowsSound
  <2>9. Agree(e)
    <3>1. \A s \in DOMAIN e.states : s \in DOMAIN e.rows /\ e.states[s] = e.rows[s]
      BY <2>3, <2>5, <2>7 DEF Sound, Agree, Without
    <3>2. \A s \in DOMAIN e.summaries : s \in DOMAIN e.rows /\ e.summaries[s] = Summary(e.rows[s])
      BY <2>3, <2>5, <2>7 DEF Sound, Agree, Without
    <3>3. \A s \in DOMAIN e.sizes : s \in DOMAIN e.rows /\ e.sizes[s] = e.rows[s].size
      BY <2>3, <2>5, <2>7 DEF Sound, Agree, Without
    <3> QED BY <3>1, <3>2, <3>3 DEF Agree
  <2> QED BY <2>1, <2>5, <2>6, <2>8, <2>9 DEF Sound, Deletes, e
<1> QED BY <1>1, <1>2

-----------------------------------------------------------------------------
(***************************************************************************)
(* Startup.                                                                *)
(***************************************************************************)
\* A session that could be recovered is at rest, with the runs it had.
LEMMA RecoveredIs ==
  ASSUME NEW d, Sound(d), NEW s \in DOMAIN d.rows, NEW res, res = Recovered(d, s), res.error = "none"
  PROVE  LET row == res.d.rows[s]
         IN /\ row \in Row /\ row.runs = d.rows[s].runs /\ row.active = NoRun
            /\ row.busy => d.rows[s].busy
<1> DEFINE row == d.rows[s]
           a == Fact("cleanup_failed", row.active)
           b == Fact("finished", row.active)
           plan == RecoveryPlan(row)
<1>1. row \in Row /\ row.active \in RunIds
  BY DEF Sound, RowsSound, Row
<1>2. CASE row.active = NoRun
  <2>1. res.d = d
    BY <1>2 DEF Recovered, RecoveryPlan
  <2> QED BY <1>1, <1>2, <2>1
<1>3. CASE row.active # NoRun /\ ~row.busy
  <2>1. plan = <<b>>
    BY <1>3 DEF RecoveryPlan
  <2>2. res = Appended(d, s, <<b>>)
    BY <2>1 DEF Recovered
  <2>3. b.type = "finished" /\ b.run = row.active
    BY DEF Fact
  <2>4. EventFits(s, row, b) /\ b.type \in EventTypes
    BY <1>1, <2>3 DEF EventFits, EventTypes
  <2>5. res.d.rows[s] = Applied(row, b)
    BY <2>2, <2>4, AppendedOne DEF Wrote
  <2> HIDE DEF b
  <2>6. Applied(row, b) \in Row /\ Applied(row, b).runs = row.runs /\ Applied(row, b).active = NoRun
        /\ (Applied(row, b).busy => row.busy)
    BY <1>1, <2>3, <2>4, AppliedIs DEF Gated
  <2> QED BY <2>5, <2>6
<1>4. CASE row.active # NoRun /\ row.busy
  <2>1. plan = <<a, b>>
    BY <1>4 DEF RecoveryPlan
  <2>2. res = Appended(d, s, <<a, b>>)
    BY <2>1 DEF Recovered
  <2>3. b.type = "finished" /\ b.run = row.active /\ a.type = "cleanup_failed" /\ a.run = row.active
    BY DEF Fact
  <2> HIDE DEF a, b
  <2>4. EventFits(s, row, a) /\ EventFits(s, Applied(row, a), b) /\ a.type \in EventTypes /\ b.type \in EventTypes
    BY <1>1, <2>3 DEF EventFits, EventTypes
  <2>5. res.d.rows[s] = Applied(Applied(row, a), b)
    BY <2>2, <2>4, AppendedTwo DEF Wrote
  <2>6. Applied(row, a) \in Row /\ Applied(row, a).runs = row.runs
    BY <1>1, <2>3, <2>4, AppliedIs
  <2>7. Applied(Applied(row, a), b) \in Row /\ Applied(Applied(row, a), b).runs = row.runs
        /\ Applied(Applied(row, a), b).active = NoRun
    BY <1>1, <2>3, <2>4, <2>6, AppliedIs
  <2> QED BY <1>4, <2>5, <2>7
<1> QED BY <1>1, <1>2, <1>3, <1>4

LEMMA Smallest ==
  ASSUME NEW S, S \subseteq Nat, S # {}
  PROVE  Min(S) \in S
<1>1. PICK m \in S : \A k \in S : <<k, m>> \notin OpToRel(<, Nat)
  BY WFMin, NatLessThanWellFounded, Zenon
<1>2. \A k \in S : ~(k < m)
  BY <1>1, Zenon DEF OpToRel
<1>3. \A k \in S : m <= k
  BY <1>2
<1> QED BY <1>3 DEF Min

LEMMA OpenIs ==
  ASSUME NEW d, Sound(d), NEW result, result = OpenStore(d)
  PROVE  /\ Sound(result.d) /\ Gates(d, result.d) /\ KeepsLedger(d, result.d)
         /\ result.d.sessions = d.sessions /\ \A s \in DOMAIN d.rows : result.d.rows[s].runs = d.rows[s].runs
         /\ \/ result.code \notin {"ok", "started"} /\ result.d.rows = d.rows
            \/ result.code = "ok" /\ \A s \in DOMAIN result.d.rows : result.d.rows[s].active = NoRun
<1>1. CASE Unrecovered(Recovery(d)) # {}
  <2> DEFINE recovery == Recovery(d)
             first == Min(Unrecovered(recovery))
  <2>1. result = Refused(d, recovery[first].error)
    BY <1>1 DEF OpenStore, Opened
  <2>2. first \in Unrecovered(recovery)
    <3>1. Unrecovered(recovery) \subseteq Nat
      BY DEF Unrecovered, Recovery, Sound, RowsSound
    <3>2. Unrecovered(recovery) # {}
      BY <1>1
    <3> QED BY <3>1, <3>2, Smallest
  <2>3. PICK s \in DOMAIN d.rows : recovery[first].error = Recovered(InvalidateDerived(d), s).error
    BY <2>2 DEF Unrecovered, Recovery
  <2>4. recovery[first].error \notin {"ok", "started"}
    <3>1. Recovered(InvalidateDerived(d), s).error \notin {"ok", "started"}
      BY DEF Recovered, Appended, AppendRest, AppendOne, AppendTo
    <3> QED BY <2>3, <3>1
  <2> HIDE DEF recovery, first
  <2> QED BY <2>1, <2>4, RefusedKeeps DEF Same
<1>2. CASE Unrecovered(Recovery(d)) = {}
  <2> DEFINE c == InvalidateDerived(d)
             rows == RecoveredRows(d, Recovery(d), DOMAIN d.rows)
  <2>1. PICK appended : /\ appended \subseteq DOMAIN d.rows
                        /\ result.d = CacheStates([c EXCEPT !.rows = rows, !.sizes = [s \in appended |-> rows[s].size]], rows)
    BY <1>2 DEF OpenStore, Opened, Replayed, Reply
  <2> DEFINE sizes == [s \in appended |-> rows[s].size]
             b == [c EXCEPT !.rows = rows, !.sizes = sizes]
  <2>2. Sound(c) /\ Same(d, c)
    BY InvalidateKeeps
  <2>3. DOMAIN rows = DOMAIN d.rows /\ \A s \in DOMAIN d.rows : rows[s] = Recovered(c, s).d.rows[s]
    BY DEF RecoveredRows, Recovery
  <2>4. \A s \in DOMAIN d.rows : Recovered(c, s).error = "none"
    BY <1>2 DEF Unrecovered, Recovery
  <2>5. DOMAIN c.states = {} /\ DOMAIN c.summaries = {}
    BY DEF InvalidateDerived, Empty, Sound, Shape, Fields
  <2>6. DOMAIN sizes = appended /\ \A s \in appended : sizes[s] = rows[s].size
    OBVIOUS
  <2> HIDE DEF c, rows, sizes
  <2>7. /\ Shape(b) /\ b.rows = rows /\ b.sizes = sizes /\ b.receipts = d.receipts /\ b.sessions = d.sessions
        /\ b.states = c.states /\ b.summaries = c.summaries
    BY <2>2 DEF Sound, Shape, Fields, Same
  <2> HIDE DEF b
  <2>8. ASSUME NEW s \in DOMAIN d.rows
        PROVE  rows[s] \in Row /\ rows[s].runs = d.rows[s].runs /\ rows[s].active = NoRun /\ (rows[s].busy => d.rows[s].busy)
    BY <2>2, <2>3, <2>4, RecoveredIs DEF Same
  <2>9. Sound(b)
    <3>1. RowsSound(b)
      BY <2>3, <2>7, <2>8 DEF RowsSound, Sound
    <3>2. Agree(b)
      BY <2>1, <2>3, <2>5, <2>6, <2>7 DEF Agree
    <3> QED BY <2>7, <3>1, <3>2 DEF Sound
  <2>10. result.d = CacheStates(b, rows)
    BY <2>1 DEF b, sizes
  <2>11. Sound(result.d) /\ Same(b, result.d)
    BY <2>7, <2>9, <2>10, CachingKeeps
  <2>12. result.d.rows = rows /\ result.d.receipts = d.receipts
    BY <2>7, <2>11 DEF Same
  <2>13. RunsOf(result.d) = RunsOf(d)
    BY <2>3, <2>8, <2>12 DEF RunsOf
  <2>14. Gates(d, result.d)
    BY <2>3, <2>8, <2>12 DEF Gates, Begins
  <2>15. result.code = "ok" /\ result.d.sessions = d.sessions
    BY <1>2, <2>7, <2>11 DEF OpenStore, Opened, Reply, Same
  <2> QED BY <2>3, <2>8, <2>11, <2>12, <2>13, <2>14, <2>15 DEF KeepsLedger
<1> QED BY <1>1, <1>2
-----------------------------------------------------------------------------
(***************************************************************************)
(* Commands.                                                               *)
(***************************************************************************)
\* The receipt is all that the insertion adds to the transaction's effects.
LEMMA ReceiptedIs ==
  ASSUME NEW c, Sound(c), NEW command, NEW ack, NEW result, result = Receipted(c, command, ack)
  PROVE  /\ result.code = "ok" /\ result.ack = ack
         /\ Sound(result.d) /\ result.d.rows = c.rows /\ result.d.sessions = c.sessions
         /\ result.d.receipts = Override(Only(ReceiptKey(command), [command |-> command, ack |-> ack]), c.receipts)
<1> DEFINE receipts == Override(Only(ReceiptKey(command), [command |-> command, ack |-> ack]), c.receipts)
           e == [c EXCEPT !.receipts = receipts]
<1>1. result.code = "ok" /\ result.ack = ack /\ result.d = e
  BY DEF Receipted, Reply
<1> HIDE DEF receipts
<1>2. /\ Shape(e) /\ e.rows = c.rows /\ e.receipts = receipts /\ e.sessions = c.sessions
      /\ e.states = c.states /\ e.summaries = c.summaries /\ e.sizes = c.sizes
  BY DEF Sound, Shape, Fields
<1> HIDE DEF e
<1>3. RowsSound(e)
  BY <1>2 DEF Sound, RowsSound
<1>4. Agree(e)
  BY <1>2 DEF Sound, Agree
<1> QED BY <1>1, <1>2, <1>3, <1>4 DEF Sound, receipts

\* What an admitted command has done: its receipt is new, and only a submission makes a run, a new one.
Admits(d, e, command, ack) ==
  /\ ReceiptKey(command) \notin DOMAIN d.receipts
  /\ e.receipts = Override(Only(ReceiptKey(command), [command |-> command, ack |-> ack]), d.receipts)
  /\ RunsOf(e) = IF command.type = "run.submit" THEN RunsOf(d) \cup {ack.run} ELSE RunsOf(d)
  /\ command.type = "run.submit" => ack.run \notin RunsOf(d)
  /\ DOMAIN e.rows \subseteq DOMAIN d.rows \cup {ack.session} /\ DOMAIN d.rows \subseteq DOMAIN e.rows
  /\ Scope(command) # 0 => ack.session = Scope(command)

LEMMA CreateIs ==
  ASSUME NEW d, Sound(d), NEW command \in Commands, command.type = "session.create",
         ReceiptKey(command) \notin DOMAIN d.receipts, NEW result, result = Admit(d, command)
  PROVE  /\ result.code = "ok" /\ Sound(result.d) /\ Gates(d, result.d)
         /\ Admits(d, result.d, command, result.ack)
<1> DEFINE s == d.sessions + 1
           b == [d EXCEPT !.sessions = s]
           row == Created(command.root)
           c == Stored(b, s, row)
           ack == [session |-> s, run |-> NoRun]
           e == result.d
<1>1. result = Receipted(c, command, ack)
  BY DEF Admit
<1>2. /\ Shape(b) /\ b.rows = d.rows /\ b.receipts = d.receipts /\ b.sessions = s
      /\ b.states = d.states /\ b.summaries = d.summaries /\ b.sizes = d.sizes
  BY DEF Sound, Shape, Fields
<1>3. d.sessions \in Nat /\ s \in 1..s /\ s \notin DOMAIN d.rows /\ 1..d.sessions \subseteq 1..s
  BY DEF Sound, RowsSound
<1> HIDE DEF b
<1>4. Sound(b)
  <2>1. RowsSound(b)
    BY <1>2, <1>3 DEF Sound, RowsSound
  <2>2. Agree(b)
    BY <1>2 DEF Sound, Agree
  <2> QED BY <1>2, <2>1, <2>2 DEF Sound
<1>5. row \in Row /\ row.runs = {} /\ Numbered(row.runs, s)
  <2>1. row.runs = {} /\ NoRun \in RunIds /\ command.root \in {x.root : x \in Commands}
    BY DEF Created, NoRun, RunIds
  <2>2. row \in Row
    BY <2>1 DEF Created, Row
  <2>3. {} = {<<s, i>> : i \in 1..0}
    OBVIOUS
  <2> QED BY <2>1, <2>2, <2>3 DEF Numbered
<1>6. Sound(c) /\ c.rows = Override(Only(s, row), d.rows) /\ c.receipts = d.receipts
  <2> HIDE DEF s, row
  <2>1. s \in 1..b.sessions
    BY <1>2, <1>3
  <2>2. Sound(c) /\ c.rows = Override(Only(s, row), b.rows) /\ c.receipts = b.receipts
    BY <1>4, <1>5, <2>1, StoredIs
  <2> QED BY <1>2, <2>2
<1> HIDE DEF c, row, s
<1>7. DOMAIN c.rows = DOMAIN d.rows \cup {s} /\ c.rows[s] = row /\ \A t \in DOMAIN d.rows : c.rows[t] = d.rows[t]
  BY <1>3, <1>6 DEF Override, Only
<1>8. /\ result.code = "ok" /\ result.ack = ack /\ Sound(e) /\ e.rows = c.rows
      /\ e.receipts = Override(Only(ReceiptKey(command), [command |-> command, ack |-> ack]), d.receipts)
  BY <1>1, <1>6, ReceiptedIs
<1> HIDE DEF e
<1>9. RunsOf(e) = RunsOf(d)
  <2>1. \A r : r \in RunsOf(e) <=> \E t \in DOMAIN d.rows \cup {s} : r \in e.rows[t].runs
    BY <1>7, <1>8 DEF RunsOf
  <2>2. \A r : r \in RunsOf(d) <=> \E t \in DOMAIN d.rows : r \in d.rows[t].runs
    BY DEF RunsOf
  <2> QED BY <1>5, <1>7, <1>8, <2>1, <2>2
<1>10. Gates(d, e)
  BY <1>3, <1>7, <1>8 DEF Gates, Begins
<1>11. ack.session = s /\ Scope(command) = 0
  BY DEF Scope
<1>12. Admits(d, e, command, ack)
  BY <1>7, <1>8, <1>9, <1>11 DEF Admits
<1> QED BY <1>8, <1>10, <1>12 DEF e

\* The run a submission starts is new to the whole store.
LEMMA FreshRunIs ==
  ASSUME NEW d, Sound(d), NEW s \in DOMAIN d.rows, NEW run, run = FreshRun(d, s)
  PROVE  run \in RunIds /\ run = <<s, 1 + Cardinality(d.rows[s].runs)>> /\ run \notin RunsOf(d)
<1>1. run = <<s, 1 + Cardinality(d.rows[s].runs)>>
  BY StateIsRow DEF FreshRun
<1>2. s \in Nat /\ \A t \in DOMAIN d.rows : Numbered(d.rows[t].runs, t)
  BY DEF Sound, RowsSound
<1>3. PICK n \in Nat : d.rows[s].runs = {<<s, i>> : i \in 1..n}
  BY <1>2 DEF Numbered
<1>4. run = <<s, 1 + n>> /\ run \in RunIds
  <2>1. Cardinality(d.rows[s].runs) = n
    BY <1>3, NumberedCount
  <2>2. 1 + n \in Nat
    OBVIOUS
  <2> QED BY <1>1, <1>2, <2>1, <2>2 DEF RunIds
<1>5. ASSUME NEW t \in DOMAIN d.rows, run \in d.rows[t].runs PROVE FALSE
  <2>1. PICK m \in Nat : d.rows[t].runs = {<<t, i>> : i \in 1..m}
    BY <1>2 DEF Numbered
  <2>2. t = s
    BY <1>4, <1>5, <2>1
  <2> QED BY <1>3, <1>4, <1>5, <2>2
<1> QED BY <1>1, <1>4, <1>5 DEF RunsOf

LEMMA SubmitIs ==
  ASSUME NEW d, Sound(d), NEW command \in Commands, command.type = "run.submit", command.session \in DOMAIN d.rows,
         ReceiptKey(command) \notin DOMAIN d.receipts, NEW result, result = Admit(d, command)
  PROVE  /\ Sound(result.d) /\ Gates(d, result.d)
         /\ IF result.code = "ok" THEN Admits(d, result.d, command, result.ack) ELSE KeepsLedger(d, result.d)
<1> DEFINE s == command.session
           run == FreshRun(d, s)
           a == Fact("run.started", run)
           b == Fact("user.message", run)
           res == Appended(d, s, <<a, b>>)
           ack == [session |-> s, run |-> run]
           e == result.d
           row == d.rows[s]
           next == Applied(Applied(row, a), b)
<1>1. CommandEvents(command, run) = <<a, b>>
  BY DEF CommandEvents
<1>2. result = IF res.error # "none" THEN RolledBack(d, res) ELSE Receipted(res.d, command, ack)
  BY <1>1 DEF Admit, Admitted
<1>3. run \in RunIds /\ run = <<s, 1 + Cardinality(row.runs)>> /\ run \notin RunsOf(d)
  BY FreshRunIs
<1>4. a.type = "run.started" /\ a.run = run /\ b.type = "user.message" /\ b.run = run
  BY DEF Fact
<1> HIDE DEF run, a, b
<1>5. EventFits(s, row, a) /\ EventFits(s, Applied(row, a), b)
  BY <1>3, <1>4 DEF EventFits, EventTypes
<1>6. row \in Row
  BY DEF Sound, RowsSound
<1>7. CASE res.error # "none"
  <2>1. result.code = res.error /\ Sound(result.d) /\ Gates(d, result.d) /\ KeepsLedger(d, result.d)
    BY <1>2, <1>7, RefusedKeeps DEF RolledBack
  <2>2. res.error # "ok"
    BY DEF Appended, AppendRest, AppendOne, AppendTo
  <2> QED BY <2>1, <2>2
<1>8. CASE res.error = "none"
  <2>1. Wrote(d, res.d, s, next) /\ (a.type \in Gated => GateOpen(d, row.root))
    BY <1>5, <1>8, AppendedTwo
  <2>2. next.runs = row.runs \cup {run}
    <3>1. Applied(row, a) \in Row /\ Applied(row, a).runs = row.runs \cup {run}
      <4>1. a.type \in EventTypes /\ a.run \in RunIds
        BY <1>3, <1>4 DEF EventTypes
      <4>2. /\ Applied(row, a) \in Row
            /\ Applied(row, a).runs = IF a.type = "run.started" THEN row.runs \cup {a.run} ELSE row.runs
        BY <1>6, <4>1, AppliedIs
      <4> QED BY <1>4, <4>2
    <3>2. b.type \in EventTypes /\ b.run \in RunIds /\ b.type # "run.started"
      BY <1>3, <1>4 DEF EventTypes
    <3>3. Applied(Applied(row, a), b).runs = Applied(row, a).runs
      BY <3>1, <3>2, AppliedIs
    <3> QED BY <3>1, <3>3
  <2> HIDE DEF next, res
  <2>3. RunsOf(res.d) = RunsOf(d) \cup {run}
    <3>1. RunsOf(res.d) = RunsOf(d) \cup next.runs
      BY <2>1, <2>2, WroteRuns
    <3>2. d.rows[s].runs \subseteq RunsOf(d)
      BY DEF RunsOf
    <3> QED BY <2>2, <3>1, <3>2
  <2>4. GateOpen(d, row.root)
    BY <1>4, <2>1 DEF Gated
  <2>5. result = Receipted(res.d, command, ack) /\ Sound(res.d)
    BY <1>2, <1>8, <2>1 DEF Wrote
  <2>6. /\ result.code = "ok" /\ result.ack = ack /\ Sound(e) /\ e.rows = res.d.rows
        /\ e.receipts = Override(Only(ReceiptKey(command), [command |-> command, ack |-> ack]), res.d.receipts)
    BY <2>5, ReceiptedIs
  <2> HIDE DEF e
  <2>7. RunsOf(e) = RunsOf(d) \cup {run}
    BY <2>3, <2>6 DEF RunsOf
  <2>8. ack.session = s /\ ack.run = run /\ Scope(command) = s
    BY DEF Scope
  <2>9. Gates(d, e)
    BY <2>1, <2>4, <2>6 DEF Gates, Begins, Wrote
  <2>10. DOMAIN e.rows = DOMAIN d.rows /\ res.d.receipts = d.receipts
    BY <2>1, <2>6 DEF Wrote
  <2>11. Admits(d, e, command, ack)
    BY <1>3, <2>6, <2>7, <2>8, <2>10 DEF Admits
  <2> QED BY <2>6, <2>9, <2>11 DEF e
<1> QED BY <1>7, <1>8

LEMMA ControlIs ==
  ASSUME NEW d, Sound(d), NEW command \in Commands, command.type \in {"run.cancel", "workspace.blocker.resolve"},
         command.session \in DOMAIN d.rows,
         ReceiptKey(command) \notin DOMAIN d.receipts, NEW result, result = Admit(d, command)
  PROVE  /\ Sound(result.d) /\ Gates(d, result.d)
         /\ IF result.code = "ok" THEN Admits(d, result.d, command, result.ack) ELSE KeepsLedger(d, result.d)
<1> DEFINE s == command.session
           run == command.run
           ack == [session |-> s, run |-> run]
           e == result.d
<1>1. PICK a : /\ a.type \in EventTypes \ {"run.started"} /\ a.run = run
               /\ CommandEvents(command, run) = <<a>>
  <2>1. CASE command.type = "run.cancel"
    BY <2>1 DEF CommandEvents, Fact, EventTypes
  <2>2. CASE command.type = "workspace.blocker.resolve"
    BY <2>2 DEF CommandEvents, Fact, EventTypes
  <2> QED BY <2>1, <2>2
<1> DEFINE res == Appended(d, s, <<a>>)
<1>2. result = IF res.error # "none" THEN RolledBack(d, res) ELSE Receipted(res.d, command, ack)
  BY <1>1 DEF Admit, Admitted
<1>3. a.run \in RunIds
  BY <1>1, CommandsAssumption DEF RunIds
<1>4. CASE res.error # "none"
  <2>1. result.code = res.error /\ Sound(result.d) /\ Gates(d, result.d) /\ KeepsLedger(d, result.d)
    BY <1>2, <1>4, RefusedKeeps DEF RolledBack
  <2>2. res.error # "ok"
    BY DEF Appended, AppendRest, AppendOne, AppendTo
  <2> QED BY <2>1, <2>2
<1>5. CASE res.error = "none"
  <2>1. Sound(res.d) /\ Gates(d, res.d) /\ KeepsLedger(d, res.d)
    BY <1>1, <1>3, <1>5, OneEventKeeps
  <2>2. result = Receipted(res.d, command, ack)
    BY <1>2, <1>5
  <2>3. /\ result.code = "ok" /\ result.ack = ack /\ Sound(e) /\ e.rows = res.d.rows
        /\ e.receipts = Override(Only(ReceiptKey(command), [command |-> command, ack |-> ack]), res.d.receipts)
    BY <2>1, <2>2, ReceiptedIs
  <2> HIDE DEF e, res
  <2>4. Gates(d, e) /\ RunsOf(e) = RunsOf(d) /\ DOMAIN e.rows = DOMAIN d.rows /\ res.d.receipts = d.receipts
    BY <2>1, <2>3 DEF Gates, KeepsLedger, RunsOf
  <2>5. ack.session = s /\ Scope(command) = s
    BY DEF Scope
  <2>6. Admits(d, e, command, ack)
    BY <2>3, <2>4, <2>5 DEF Admits
  <2> QED BY <2>3, <2>4, <2>6 DEF e
<1> QED BY <1>4, <1>5
LEMMA ExecuteIs ==
  ASSUME NEW d, Sound(d), NEW command \in Commands, NEW result, result = Execute(d, command)
  PROVE  /\ Sound(result.d) /\ Gates(d, result.d)
         /\ \/ /\ KeepsLedger(d, result.d)
               /\ result.code = "ok" =>
                    \E k \in DOMAIN d.receipts : /\ d.receipts[k].command = command
                                                /\ d.receipts[k].ack = result.ack
            \/ result.code = "ok" /\ Admits(d, result.d, command, result.ack)
<1> DEFINE k == ReceiptKey(command)
           receipt == d.receipts[k]
<1>1. CASE k \in DOMAIN d.receipts /\ receipt.command # command
  <2>1. result = Refused(d, "command_conflict")
    BY <1>1 DEF Execute, HasReceipt
  <2> QED BY <2>1, RefusedKeeps
<1>2. CASE k \in DOMAIN d.receipts /\ receipt.command = command
  <2>1. result = Reply(Touched(d, receipt.ack.session), "ok", receipt.ack)
    BY <1>2 DEF Execute, HasReceipt
  <2>2. result.d = Touched(d, receipt.ack.session) /\ result.ack = receipt.ack
    BY <2>1 DEF Reply
  <2>3. Sound(result.d) /\ Gates(d, result.d) /\ KeepsLedger(d, result.d)
    BY <2>2, TouchKeeps, SameKeeps
  <2> QED BY <1>2, <2>2, <2>3
<1>3. CASE k \notin DOMAIN d.receipts /\ AdmissionError(d, command) # "none"
  <2>1. result = Refused(d, AdmissionError(d, command))
    BY <1>3 DEF Execute, HasReceipt
  <2>2. AdmissionError(d, command) # "ok"
    BY CommandsAssumption DEF AdmissionError, CommandTypes
  <2> QED BY <2>1, <2>2, RefusedKeeps
<1>4. CASE k \notin DOMAIN d.receipts /\ AdmissionError(d, command) = "none"
  <2>1. result = Admit(d, command)
    BY <1>4 DEF Execute, HasReceipt
  <2>2. command.type \in CommandTypes
    BY CommandsAssumption
  <2>3. CASE command.type = "session.create"
    BY <1>4, <2>1, <2>3, CreateIs
  <2>4. CASE command.type # "session.create"
    <3>1. command.session \in DOMAIN d.rows
      BY <1>4, <2>4 DEF AdmissionError
    <3>2. CASE command.type = "run.submit"
      BY <1>4, <2>1, <3>1, <3>2, SubmitIs
    <3>3. CASE command.type \in {"run.cancel", "workspace.blocker.resolve"}
      BY <1>4, <2>1, <3>1, <3>3, ControlIs
    <3> QED BY <2>2, <2>4, <3>2, <3>3 DEF CommandTypes
  <2> QED BY <2>3, <2>4
<1> QED BY <1>1, <1>2, <1>3, <1>4

-----------------------------------------------------------------------------
(***************************************************************************)
(* The receipts.                                                           *)
(***************************************************************************)
LEMMA KeepingIsSound ==
  ASSUME NEW d, ReceiptsSound(d), NEW e, KeepsLedger(d, e)
  PROVE  ReceiptsSound(e)
BY DEF ReceiptsSound, KeepsLedger

LEMMA AdmittedReceipts ==
  ASSUME NEW d, NEW e, NEW command, NEW ack, Admits(d, e, command, ack)
  PROVE  LET k == ReceiptKey(command)
         IN /\ k \notin DOMAIN d.receipts /\ DOMAIN e.receipts = DOMAIN d.receipts \cup {k}
            /\ e.receipts[k] = [command |-> command, ack |-> ack]
            /\ \A j \in DOMAIN d.receipts : e.receipts[j] = d.receipts[j]
            /\ k[1] = Scope(command)
<1> DEFINE k == ReceiptKey(command)
           receipt == [command |-> command, ack |-> ack]
<1>1. k \notin DOMAIN d.receipts /\ e.receipts = Override(Only(k, receipt), d.receipts)
  BY DEF Admits
<1>2. k[1] = Scope(command)
  BY DEF ReceiptKey
<1> HIDE DEF k, receipt
<1>3. /\ DOMAIN e.receipts = DOMAIN d.receipts \cup {k} /\ e.receipts[k] = receipt
      /\ \A j \in DOMAIN d.receipts : e.receipts[j] = d.receipts[j]
  BY <1>1 DEF Override, Only
<1> QED BY <1>1, <1>2, <1>3 DEF k, receipt

LEMMA AdmittingIsSound ==
  ASSUME NEW d, ReceiptsSound(d), NEW e, NEW command, NEW ack, Admits(d, e, command, ack)
  PROVE  ReceiptsSound(e)
<1> DEFINE k == ReceiptKey(command)
           receipt == [command |-> command, ack |-> ack]
<1>1. /\ k \notin DOMAIN d.receipts /\ DOMAIN e.receipts = DOMAIN d.receipts \cup {k} /\ e.receipts[k] = receipt
      /\ \A j \in DOMAIN d.receipts : e.receipts[j] = d.receipts[j]
      /\ k[1] = Scope(command)
  BY AdmittedReceipts
<1>2. Scope(command) # 0 => ack.session = Scope(command)
  BY DEF Admits
<1>3. DOMAIN e.rows \subseteq DOMAIN d.rows \cup {ack.session}
  BY DEF Admits
<1>4. receipt.ack = ack /\ receipt = [command |-> receipt.command, ack |-> receipt.ack]
  OBVIOUS
<1> HIDE DEF k, receipt
<1>5. \A j \in DOMAIN e.receipts : e.receipts[j] = [command |-> e.receipts[j].command, ack |-> e.receipts[j].ack]
  BY <1>1, <1>4 DEF ReceiptsSound
<1>6. \A j \in DOMAIN e.receipts : j[1] # 0 => e.receipts[j].ack.session = j[1]
  BY <1>1, <1>2, <1>4 DEF ReceiptsSound
<1>7. \A s \in DOMAIN e.rows : \E j \in DOMAIN e.receipts : e.receipts[j].ack.session = s
  BY <1>1, <1>3, <1>4 DEF ReceiptsSound
<1> QED BY <1>5, <1>6, <1>7 DEF ReceiptsSound

\* What a deletion leaves of the receipts: those of the other sessions.
LEMMA DeletedReceipts ==
  ASSUME NEW d, Sound(d), ReceiptsSound(d), NEW e, NEW S, Deletes(d, e, S)
  PROVE  e.receipts = [k \in {k \in DOMAIN d.receipts : d.receipts[k].ack.session \notin S} |-> d.receipts[k]]
<1>1. 0 \notin S
  BY DEF Deletes, Sound, RowsSound
<1>2. \A k \in DOMAIN d.receipts : k \in ReceiptsOf(d, S) <=> d.receipts[k].ack.session \in S
  BY <1>1 DEF ReceiptsOf, ReceiptsSound
<1>3. DOMAIN d.receipts \ ReceiptsOf(d, S) = {k \in DOMAIN d.receipts : d.receipts[k].ack.session \notin S}
  BY <1>2
<1> QED BY <1>3 DEF Deletes, Without

LEMMA DeletingIsSound ==
  ASSUME NEW d, Sound(d), ReceiptsSound(d), NEW e, NEW S, Deletes(d, e, S)
  PROVE  ReceiptsSound(e) /\ Gates(d, e) /\ RunsOf(e) = {run \in RunsOf(d) : run[1] \notin S}
<1>1. e.receipts = [k \in {k \in DOMAIN d.receipts : d.receipts[k].ack.session \notin S} |-> d.receipts[k]]
  BY DeletedReceipts
<1>2. DOMAIN e.rows = DOMAIN d.rows \ S /\ \A s \in DOMAIN e.rows : e.rows[s] = d.rows[s]
  BY DEF Deletes, Without
<1>3. ReceiptsSound(e)
  BY <1>1, <1>2 DEF ReceiptsSound
<1>4. Gates(d, e)
  BY <1>2 DEF Gates, Begins
<1>5. \A s \in DOMAIN d.rows : \A run \in d.rows[s].runs : run[1] = s
  BY DEF Sound, RowsSound, Numbered
<1>6. \A run : run \in RunsOf(d) <=> \E s \in DOMAIN d.rows : run \in d.rows[s].runs
  BY DEF RunsOf
<1>7. \A run : run \in RunsOf(e) <=> \E s \in DOMAIN d.rows \ S : run \in d.rows[s].runs
  BY <1>2 DEF RunsOf
<1>8. RunsOf(e) = {run \in RunsOf(d) : run[1] \notin S}
  BY <1>5, <1>6, <1>7
<1> QED BY <1>3, <1>4, <1>8
-----------------------------------------------------------------------------
(***************************************************************************)
(* The steps.                                                              *)
(***************************************************************************)
\* The acknowledgements posted and not read.
Replies ==
  {[command |-> outbox[i].request.command, ack |-> outbox[i].ack] :
     i \in {j \in DOMAIN outbox : outbox[j].request.op = "command" /\ outbox[j].code = "ok"}}

\* What a step does to the sessions, the runs and the receipts.
Quiet ==
  /\ KeepsLedger(db, db')
  /\ \A reply \in Replies' : \E k \in DOMAIN db.receipts : db.receipts[k] = reply

Admitting ==
  \E command, ack : Admits(db, db', command, ack) /\ Replies' \subseteq {[command |-> command, ack |-> ack]}

Deleting == \E S : Deletes(db, db', S) /\ Replies' = {}

Stepped == Sound(db') /\ Gates(db, db') /\ (Quiet \/ Admitting \/ Deleting)

LEMMA NoReplies == outbox' = <<>> => Replies' = {}
BY DEF Replies

LEMMA OpenStep ==
  ASSUME StoreInv, Open
  PROVE  Stepped /\ (db'.rows = db.rows \/ AllAtRest')
<1> DEFINE result == OpenStore(db)
<1>1. db' = result.d /\ outbox' = <<>>
  BY DEF Open, Treat, Commit, Treated
<1>2. Sound(db)
  BY DEF StoreInv
<1>3. /\ Sound(result.d) /\ Gates(db, result.d) /\ KeepsLedger(db, result.d)
      /\ result.d.rows = db.rows \/ \A s \in DOMAIN result.d.rows : result.d.rows[s].active = NoRun
  BY <1>2, OpenIs
<1> HIDE DEF result
<1>4. Quiet
  BY <1>1, <1>3, NoReplies DEF Quiet
<1> QED BY <1>1, <1>3, <1>4 DEF Stepped, AllAtRest

LEMMA UserStep ==
  ASSUME StoreInv, UserMessage
  PROVE  Stepped
<1>1. PICK request \in UserRequests({Host}) :
        /\ Treat(request)
        /\ outbox' = IF request.op = "command" /\ Treated(request).code = "ok"
                     THEN <<ReplyTo(request, Treated(request))>> ELSE <<>>
  BY DEF UserMessage
<1>2. Sound(db)
  BY DEF StoreInv
<1> DEFINE result == Treated(request)
<1>3. db' = result.d
  BY <1>1 DEF Treat, Commit
<1>4. CASE request.op = "command" /\ request.command \in Commands
  <2> DEFINE command == request.command
             receipt == [command |-> command, ack |-> result.ack]
  <2>1. result = Execute(db, command)
    BY <1>4 DEF Treated
  <2>2. /\ Sound(result.d) /\ Gates(db, result.d)
        /\ \/ /\ KeepsLedger(db, result.d)
              /\ result.code = "ok" =>
                   \E k \in DOMAIN db.receipts : db.receipts[k].command = command /\ db.receipts[k].ack = result.ack
           \/ result.code = "ok" /\ Admits(db, result.d, command, result.ack)
    BY <1>2, <1>4, <2>1, ExecuteIs
  <2>3. Replies' = IF result.code = "ok" THEN {receipt} ELSE {}
    <3>1. CASE result.code = "ok"
      <4> DEFINE reply == ReplyTo(request, result)
      <4>1. outbox' = <<reply>> /\ reply.request = request /\ reply.code = "ok" /\ reply.ack = result.ack
        BY <1>1, <1>4, <3>1 DEF ReplyTo
      <4> HIDE DEF reply, result
      <4>2. {j \in DOMAIN outbox' : outbox'[j].request.op = "command" /\ outbox'[j].code = "ok"} = {1}
        BY <1>4, <4>1
      <4> QED BY <3>1, <4>1, <4>2 DEF Replies
    <3>2. CASE result.code # "ok"
      BY <1>1, <3>2, NoReplies
    <3> QED BY <3>1, <3>2
  <2> HIDE DEF result
  <2>4. CASE /\ KeepsLedger(db, result.d)
             /\ result.code = "ok" =>
                  \E k \in DOMAIN db.receipts : db.receipts[k].command = command /\ db.receipts[k].ack = result.ack
    <3>1. \A k \in DOMAIN db.receipts :
            db.receipts[k] = [command |-> db.receipts[k].command, ack |-> db.receipts[k].ack]
      BY DEF StoreInv, ReceiptsSound
    <3>2. Quiet
      BY <1>3, <2>3, <2>4, <3>1 DEF Quiet
    <3> QED BY <1>3, <2>2, <3>2 DEF Stepped
  <2>5. CASE result.code = "ok" /\ Admits(db, result.d, command, result.ack)
    <3>1. Admitting
      BY <1>3, <2>3, <2>5 DEF Admitting
    <3> QED BY <1>3, <2>2, <3>1 DEF Stepped
  <2> QED BY <2>2, <2>4, <2>5
<1>5. CASE request.op \in {"delete_session", "delete_workspace"}
  <2>1. PICK S : result = DeleteSessions(db, S)
    BY <1>5 DEF Treated
  <2>2. Sound(result.d) /\ (Same(db, result.d) \/ Deletes(db, result.d, S))
    BY <1>2, <2>1, DeleteIs
  <2>3. Replies' = {}
    BY <1>1, <1>5, NoReplies
  <2> HIDE DEF result
  <2>4. CASE Same(db, result.d)
    <3>1. Gates(db, result.d) /\ KeepsLedger(db, result.d)
      BY <1>2, <2>4, SameKeeps
    <3> QED BY <1>3, <2>2, <2>3, <3>1 DEF Stepped, Quiet
  <2>5. CASE Deletes(db, result.d, S)
    <3>1. Gates(db, result.d)
      BY <1>2, <2>5, DeletingIsSound DEF StoreInv
    <3> QED BY <1>3, <2>2, <2>3, <2>5, <3>1 DEF Stepped, Deleting
  <2> QED BY <2>2, <2>4, <2>5
<1> QED BY <1>4, <1>5 DEF UserRequests

LEMMA DriverMessageStep ==
  ASSUME StoreInv, DriverMessage
  PROVE  Stepped
<1>1. PICK r \in RunsOf(db) : \E request \in DriverRequests(r) : Treat(request)
  BY DEF DriverMessage
<1>2. PICK request \in DriverRequests(r) : Treat(request)
  BY <1>1
<1>3. outbox' = <<>> /\ Sound(db)
  BY DEF DriverMessage, StoreInv
<1>4. r \in RunIds
  BY <1>3 DEF RunsOf, Sound, RowsSound, Row
<1> DEFINE result == Treated(request)
<1>5. db' = result.d
  BY <1>2 DEF Treat, Commit
<1>6. Sound(result.d) /\ Gates(db, result.d) /\ KeepsLedger(db, result.d)
  <2>1. CASE request.op = "read_state"
    BY <1>3, <2>1, ReadStateKeeps DEF Treated
  <2>2. CASE request \in [from : {r}, op : {"append_batch"}, session : {r[1]},
                          events : {<<Fact(type, r)>> : type \in {"work", "settled", "cleanup_failed", "finished"}}]
    <3>1. PICK type \in {"work", "settled", "cleanup_failed", "finished"} : request.events = <<Fact(type, r)>>
      BY <2>2
    <3> DEFINE a == Fact(type, r)
    <3>2. a.type \in EventTypes \ {"run.started"} /\ a.run \in RunIds
      BY <1>4 DEF Fact, EventTypes
    <3>3. result = AppendBatch(db, request.session, <<a>>)
      BY <2>2, <3>1 DEF Treated
    <3> HIDE DEF a
    <3> QED BY <1>3, <3>2, <3>3, AppendBatchKeeps
  <2> QED BY <2>1, <2>2 DEF DriverRequests
<1> HIDE DEF result
<1>7. Quiet
  BY <1>3, <1>5, <1>6, NoReplies DEF Quiet
<1> QED BY <1>5, <1>6, <1>7 DEF Stepped

LEMMA DiesStep ==
  ASSUME StoreInv, Dies
  PROVE  Stepped
<1>1. db' = InvalidateDerived(db) /\ outbox' = <<>> /\ Sound(db)
  BY DEF Dies, StoreInv
<1>2. Sound(db') /\ Same(db, db')
  BY <1>1, InvalidateKeeps
<1>3. Gates(db, db') /\ KeepsLedger(db, db')
  BY <1>1, <1>2, SameKeeps
<1> QED BY <1>1, <1>2, <1>3, NoReplies DEF Stepped, Quiet

LEMMA EveryStep == ASSUME StoreInv, Next PROVE Stepped
BY OpenStep, UserStep, DriverMessageStep, DiesStep DEF Next

\* The invariant survives every step.
LEMMA StoreStep == ASSUME StoreInv, [Next]_store PROVE StoreInv'
<1>1. CASE UNCHANGED store
  BY <1>1 DEF store, StoreInv, Sound, Shape, RowsSound, Agree, ReceiptsSound
<1>2. CASE Next
  <2>1. Sound(db') /\ (Quiet \/ Admitting \/ Deleting)
    BY <1>2, EveryStep DEF Stepped
  <2>2. Sound(db) /\ ReceiptsSound(db)
    BY DEF StoreInv
  <2>3. ReceiptsSound(db')
    BY <2>1, <2>2, KeepingIsSound, AdmittingIsSound, DeletingIsSound DEF Quiet, Admitting, Deleting
  <2>4. StoreInv' <=> Sound(db') /\ ReceiptsSound(db')
    BY DEF StoreInv, Sound, Shape, RowsSound, Agree, ReceiptsSound
  <2> QED BY <2>1, <2>3, <2>4
<1> QED BY <1>1, <1>2

LEMMA NewStoreIsSound == ASSUME NEW d, d = NewStore PROVE Sound(d) /\ ReceiptsSound(d)
<1>1. DOMAIN Empty = {}
  BY DEF Empty
<1>2. /\ Shape(d) /\ d.sessions = 0 /\ DOMAIN d.rows = {} /\ DOMAIN d.receipts = {}
      /\ DOMAIN d.states = {} /\ DOMAIN d.summaries = {} /\ DOMAIN d.sizes = {}
  BY <1>1 DEF NewStore, Shape, Fields
<1> QED BY <1>2 DEF Sound, RowsSound, Agree, ReceiptsSound

LEMMA StoreInitial == ASSUME Init PROVE StoreInv
BY NewStoreIsSound DEF Init, StoreInv

(***************************************************************************)
(* The invariant itself: the rows are typed and their runs numbered, every *)
(* cached value agrees, every receipt belongs to the session it names.     *)
(***************************************************************************)
THEOREM StoreInvariant == Spec => []StoreInv
<1>1. Init => StoreInv
  BY StoreInitial
<1>2. StoreInv /\ [Next]_store => StoreInv'
  BY StoreStep
<1> QED BY <1>1, <1>2, PTL DEF Spec

(***************************************************************************)
(* Between messages the caches say what the committed rows say             *)
(* (storage-database.ts cacheState, dropCached, invalidateDerived).        *)
(***************************************************************************)
THEOREM CachesAgreeCorrect == Spec => []CachesAgree
<1>1. StoreInv => CachesAgree
  BY DEF StoreInv, Sound, Agree, CachesAgree
<1> QED BY <1>1, StoreInvariant, PTL

(***************************************************************************)
(* No run starts and no work is dispatched while a session on an           *)
(* overlapping root, or itself, holds an unresolved blocker                *)
(* (requireSafeWorkspace, which reads the summaries it keeps).             *)
(***************************************************************************)
THEOREM WorkspaceGateCorrect == Spec => WorkspaceGate
<1> DEFINE Gate == \A s \in Sessions : Dispatched(s) =>
                     \A t \in DOMAIN db.rows : db.rows[t].blocked => ~Overlaps(db.rows[s].root, db.rows[t].root)
<1>1. StoreInv /\ [Next]_store => [Gate]_store
  <2>1. SUFFICES ASSUME StoreInv, Next PROVE Gate
    OBVIOUS
  <2>2. Gates(db, db')
    BY <2>1, EveryStep DEF Stepped
  <2>3. ASSUME NEW s, Dispatched(s)
        PROVE  \A t \in DOMAIN db.rows : db.rows[t].blocked => ~Overlaps(db.rows[s].root, db.rows[t].root)
    <3>1. s \in DOMAIN db.rows \cap DOMAIN db'.rows /\ Begins(db.rows[s], db'.rows[s])
      BY <2>3 DEF Dispatched, Begins
    <3>2. GateOpen(db, db.rows[s].root)
      BY <2>2, <3>1 DEF Gates
    <3> QED BY <3>2 DEF GateOpen
  <2> QED BY <2>3
<1> QED BY <1>1, StoreInvariant, PTL DEF Spec, WorkspaceGate

(***************************************************************************)
(* A session is forgotten only at rest: no run of it in progress, nothing  *)
(* of its workspace unresolved (requireDeletable, which asks the cache).   *)
(***************************************************************************)
THEOREM DeletedAtRestCorrect == Spec => DeletedAtRest
<1> DEFINE Rest == \A s \in DOMAIN db.rows \ DOMAIN db'.rows : db.rows[s].active = NoRun /\ ~db.rows[s].blocked
<1>1. StoreInv /\ [Next]_store => [Rest]_store
  <2>1. SUFFICES ASSUME StoreInv, Next PROVE Rest
    OBVIOUS
  <2>2. Quiet \/ Admitting \/ Deleting
    BY <2>1, EveryStep DEF Stepped
  <2>3. CASE Quiet \/ Admitting
    BY <2>3 DEF Quiet, Admitting, KeepsLedger, Admits
  <2>4. CASE Deleting
    BY <2>4 DEF Deleting, Deletes, Without
  <2> QED BY <2>2, <2>3, <2>4
<1> QED BY <1>1, StoreInvariant, PTL DEF Spec, DeletedAtRest

(***************************************************************************)
(* Startup closes the runs of every session or changes nothing             *)
(* (recoverOnOpen, in one transaction).                                    *)
(***************************************************************************)
THEOREM StartupIsAtomicCorrect == Spec => StartupIsAtomic
<1> DEFINE Atomic == worker = "fresh" => db'.rows = db.rows \/ AllAtRest'
<1>1. StoreInv /\ [Next]_store => [Atomic]_store
  <2>1. SUFFICES ASSUME StoreInv, Next, worker = "fresh" PROVE db'.rows = db.rows \/ AllAtRest'
    OBVIOUS
  <2>2. Open
    BY <2>1 DEF Next, UserMessage, DriverMessage, Dies
  <2> QED BY <2>1, <2>2, OpenStep
<1> QED BY <1>1, StoreInvariant, PTL DEF Spec, StartupIsAtomic
-----------------------------------------------------------------------------
(***************************************************************************)
(* The refinement of CommandLedger: what a step does to sessions, runs and *)
(* receipts is an action of the ledger.                                    *)
(***************************************************************************)
LEMMA QuietReports ==
  ASSUME Quiet
  PROVE  Ledger!Report
<1>1. db'.receipts = db.receipts /\ RunsOf(db') = RunsOf(db)
  BY DEF Quiet, KeepsLedger
<1>2. Replies' \subseteq {db.receipts[k] : k \in DOMAIN db.receipts}
  BY DEF Quiet
<1> QED BY <1>1, <1>2 DEF Ledger!Report, Ledger!Reported, Replies

LEMMA AdmittingTakes ==
  ASSUME Admitting
  PROVE  \E k \in DOMAIN db'.receipts : Ledger!Take(k, db'.receipts[k])
<1>1. PICK command, ack : Admits(db, db', command, ack) /\ Replies' \subseteq {[command |-> command, ack |-> ack]}
  BY DEF Admitting
<1> DEFINE k == ReceiptKey(command)
           receipt == [command |-> command, ack |-> ack]
<1>2. /\ k \notin DOMAIN db.receipts /\ k \in DOMAIN db'.receipts
      /\ db'.receipts = Override(Only(k, receipt), db.receipts) /\ db'.receipts[k] = receipt
  BY <1>1, AdmittedReceipts DEF Admits
<1>3. receipt.command = command /\ receipt.ack = ack
  OBVIOUS
<1>4. /\ RunsOf(db') = IF command.type = "run.submit" THEN RunsOf(db) \cup {ack.run} ELSE RunsOf(db)
      /\ command.type = "run.submit" => ack.run \notin RunsOf(db)
  BY <1>1 DEF Admits
<1> HIDE DEF k, receipt
<1>5. db'.receipts = [key \in DOMAIN db.receipts \cup {k} |-> IF key = k THEN receipt ELSE db.receipts[key]]
  BY <1>2 DEF Override, Only
<1>6. Ledger!Take(k, db'.receipts[k])
  <2>1. db'.receipts = [key \in DOMAIN db.receipts \cup {k} |-> IF key = k THEN db'.receipts[k] ELSE db.receipts[key]]
    BY <1>2, <1>5
  <2>2. RunsOf(db') = IF db'.receipts[k].command.type = "run.submit" THEN RunsOf(db) \cup {db'.receipts[k].ack.run}
                      ELSE RunsOf(db)
    BY <1>2, <1>3, <1>4
  <2>3. db'.receipts[k].command.type = "run.submit" => db'.receipts[k].ack.run \notin RunsOf(db)
    BY <1>2, <1>3, <1>4
  <2>4. Ledger!Reported({db'.receipts[k]})
    BY <1>1, <1>2 DEF Ledger!Reported, Replies, receipt
  <2> QED BY <1>2, <2>1, <2>2, <2>3, <2>4 DEF Ledger!Take
<1> QED BY <1>2, <1>6

LEMMA DeletingForgets ==
  ASSUME StoreInv, Deleting
  PROVE  \E S \in SUBSET {db.receipts[k].ack.session : k \in DOMAIN db.receipts} : Ledger!Forget(S)
<1>1. PICK S : Deletes(db, db', S) /\ Replies' = {}
  BY DEF Deleting
<1>2. Sound(db) /\ ReceiptsSound(db)
  BY DEF StoreInv
<1>3. S \in SUBSET {db.receipts[k].ack.session : k \in DOMAIN db.receipts}
  BY <1>1, <1>2 DEF Deletes, ReceiptsSound
<1>4. db'.receipts = [k \in {k \in DOMAIN db.receipts : db.receipts[k].ack.session \notin S} |-> db.receipts[k]]
  BY <1>1, <1>2, DeletedReceipts
<1>5. RunsOf(db') = {run \in RunsOf(db) : run[1] \notin S}
  BY <1>1, <1>2, DeletingIsSound
<1>6. Ledger!Reported({})
  BY <1>1 DEF Ledger!Reported, Replies
<1>7. Ledger!Forget(S)
  BY <1>4, <1>5, <1>6 DEF Ledger!Forget, Ledger!Restrict
<1> QED BY <1>3, <1>7

(***************************************************************************)
(* The store implements CommandLedger: a command identity takes effect at  *)
(* most once in its scope together with its receipt, every answer is the   *)
(* recorded one, a run exists because one submission made it, deletion     *)
(* forgets sessions whole (storage-database.ts execute, deleteSessions).   *)
(***************************************************************************)
THEOREM LedgerCorrect == Spec => LedgerSpec
<1>1. Init => Ledger!Init
  <2>1. SUFFICES ASSUME Init PROVE Ledger!Init
    OBVIOUS
  <2>2. db = NewStore /\ outbox = <<>>
    BY <2>1 DEF Init
  <2>3. db.receipts = Empty /\ DOMAIN db.rows = {}
    BY <2>2 DEF NewStore, Empty
  <2>4. RunsOf(db) = {}
    BY <2>3 DEF RunsOf
  <2>5. {[command |-> outbox[i].request.command, ack |-> outbox[i].ack] :
           i \in {j \in DOMAIN outbox : outbox[j].request.op = "command" /\ outbox[j].code = "ok"}} = {}
    BY <2>2
  <2> QED BY <2>3, <2>4, <2>5 DEF Ledger!Init, Empty
<1>2. StoreInv /\ [Next]_store => [Ledger!Next]_(Ledger!vars)
  <2>1. CASE UNCHANGED store
    BY <2>1 DEF store, Ledger!vars, RunsOf
  <2>2. ASSUME StoreInv, Next PROVE Ledger!Next
    <3>1. Quiet \/ Admitting \/ Deleting
      BY <2>2, EveryStep DEF Stepped
    <3> QED BY <2>2, <3>1, QuietReports, AdmittingTakes, DeletingForgets DEF Ledger!Next
  <2> QED BY <2>1, <2>2
<1> QED BY <1>1, <1>2, StoreInvariant, PTL DEF Spec, LedgerSpec, Ledger!Spec
=============================================================================
