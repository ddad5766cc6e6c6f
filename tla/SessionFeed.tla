------------------------------ MODULE SessionFeed ------------------------------
(***************************************************************************)
(* How a browser tab follows one session: useSessionStream loads the       *)
(* committed history in pages of one fixed prefix, then opens an event     *)
(* stream after its last event; ExecutionHttpServer.stream polls the store *)
(* and sends one frame per event.  Events are appended and sessions        *)
(* deleted meanwhile, the host or its store fails or the process dies and  *)
(* comes back, streams are refused or cut, frames in flight are lost, and  *)
(* the operator selects another session, or drafts one, at any moment.     *)
(*                                                                         *)
(* An event is its session and sequence number.  A deleted session has no  *)
(* events, and its identity never returns.  Of a stream the client has     *)
(* closed nothing is kept: what is left of it only reads.  The Chat and    *)
(* Trace views are functions of the shown events.                          *)
(***************************************************************************)
EXTENDS Integers, SequencesExt

CONSTANTS
  Sessions, NoSession,
  Large,         \* events whose frame exceeds maxFrameBytes
  PageLimit,     \* events of one history page
  Backlog,       \* frames in flight before the writable holds back
  MaxSeq,        \* bound: events of a session
  MaxRestarts,   \* bound: times the service dies and starts again
  MaxRefusals    \* bound: history reads a busy store refuses

ASSUME BoundsAssumption == PageLimit \in Nat \ {0} /\ Backlog \in Nat \ {0} /\ MaxSeq \in Nat \ {0}
ASSUME LargeAssumption == Large \subseteq Sessions \X (1..MaxSeq)

VARIABLES
  committed,  \* session -> its last sequence number, 0 once deleted
  phase,      \* the host: "ready", "failed" or "down"
  storage,    \* the client of the store: "open" or "closed"
  restarts, refusals,
  stream,     \* the server's side of the connection
  wire,       \* frames sent and not received
  selected,   \* the session the tab shows
  tab,        \* "idle", "loading", "connecting", "live" or "waiting" (for the retry timer)
  load,       \* the history read so far and the cursor of its next page
  events,     \* eventsRef
  eventsOf    \* eventsSessionId

server == <<committed, phase, storage, restarts>>
view   == <<events, eventsOf>>
vars   == <<committed, phase, storage, restarts, refusals, stream, wire, selected, tab, load, events, eventsOf>>

NoLoad   == [after |-> 0, through |-> 0, events |-> <<>>]
NoStream == [state |-> "none", after |-> 0, through |-> 0]
Stopped  == [NoStream EXCEPT !.state = "stopped"]

Existing == {s \in Sessions : committed[s] > 0}
Serving  == phase \in {"ready", "failed"}

\* A client that has closed refuses every call.
Readable == storage = "open"

Init ==
  /\ committed = [s \in Sessions |-> 1] /\ phase = "ready" /\ storage = "open" /\ restarts = 0 /\ refusals = 0
  /\ stream = NoStream /\ wire = <<>>
  /\ selected = NoSession /\ tab = "idle" /\ load = NoLoad /\ events = <<>> /\ eventsOf = NoSession

-----------------------------------------------------------------------------
(***************************************************************************)
(* Reading.  A first page fixes the prefix; "done" says it is read.        *)
(***************************************************************************)

\* A read that takes a full page for the last one.
FaultyReadPage(s, after, through, limit) ==
  LET last == IF after + limit < through THEN after + limit ELSE through
  IN [events |-> [i \in 1..(last - after) |-> <<s, after + i>>], after |-> last, through |-> through, done |-> TRUE]

\* readPage: at most "limit" events of the prefix "through", after the cursor.
ReadPage(s, after, through, limit) ==
  LET last == IF after + limit < through THEN after + limit ELSE through
  IN [events |-> [i \in 1..(last - after) |-> <<s, after + i>>],
      after  |-> last, through |-> through, done |-> last = through]

\* appendCanonicalEvent: an exact repetition is dropped; anything else must be the next event.
Canonical(current, event) ==
  IF current = <<>> THEN event[2] = 1
  ELSE /\ event[1] = current[1][1]
       /\ IF event[2] <= Len(current) THEN current[event[2]] = event ELSE event[2] = Len(current) + 1

Extended(current, event) == IF event[2] <= Len(current) THEN current ELSE Append(current, event)

\* loadHistory: the events of a page in turn; a page is in order, so its repetitions come first.
Joined(current, page) ==
  LET repeated == {i \in DOMAIN page : page[i][2] <= Len(current)}
  IN current \o SubSeq(page, 1 + Cardinality(repeated), Len(page))

-----------------------------------------------------------------------------
(***************************************************************************)
(* The service.                                                            *)
(***************************************************************************)
Append1(s) ==
  /\ Readable /\ committed[s] \in 1..(MaxSeq - 1)
  /\ committed' = [committed EXCEPT ![s] = @ + 1]
  /\ UNCHANGED <<phase, storage, restarts, refusals, stream, wire, selected, tab, load, view>>

Delete(s) ==
  /\ phase = "ready" /\ Readable /\ committed[s] > 0
  /\ committed' = [committed EXCEPT ![s] = 0]
  /\ UNCHANGED <<phase, storage, restarts, refusals, stream, wire, selected, tab, load, view>>

\* The worker ends or answers that it cannot go on; the host learns of it from its next call.
StoreFails ==
  /\ Readable
  /\ storage' = "closed"
  /\ UNCHANGED <<committed, phase, restarts, refusals, stream, wire, selected, tab, load, view>>

Cut == stream' = IF stream.state = "none" THEN stream ELSE Stopped

\* fail() and close() abort every stream; a failed host still reads what its store lets it.
HostFails ==
  /\ phase = "ready"
  /\ phase' = "failed" /\ Cut
  /\ UNCHANGED <<committed, storage, restarts, refusals, wire, selected, tab, load, view>>

\* An answer the closed client refused fails the host.
AfterRead == IF phase = "ready" /\ ~Readable THEN "failed" ELSE phase

HostEnds ==
  /\ Serving /\ restarts < MaxRestarts
  /\ phase' = "down" /\ storage' = "closed" /\ Cut
  /\ UNCHANGED <<committed, restarts, refusals, wire, selected, tab, load, view>>

HostStarts ==
  /\ phase = "down"
  /\ phase' = "ready" /\ storage' = "open" /\ restarts' = restarts + 1
  /\ UNCHANGED <<committed, refusals, stream, wire, selected, tab, load, view>>

-----------------------------------------------------------------------------
(***************************************************************************)
(* The stream.  Requests for one may be refused: too many are open, the    *)
(* host is not ready, the store is closed, the session is gone, or it      *)
(* starts beyond the end.                                                  *)
(***************************************************************************)
Admissible == phase = "ready" /\ Readable /\ committed[selected] > 0 /\ stream.after <= committed[selected]

\* A stream of what is committed from now on.
FaultyStreamBegins == [state |-> "sending", after |-> committed[selected], through |-> committed[selected]]

StreamBegins == [state |-> "sending", after |-> stream.after, through |-> committed[selected]]

StreamOpens ==
  /\ tab = "connecting" /\ stream.state = "opening"
  /\ stream' = IF Admissible THEN StreamBegins ELSE Stopped
  /\ tab' = IF Admissible THEN "live" ELSE tab
  /\ phase' = AfterRead
  /\ UNCHANGED <<committed, storage, restarts, refusals, wire, selected, load, view>>

\* Too many streams, a network failure, a reader that does not drain in time.
StreamCut ==
  /\ stream.state \in {"opening", "sending"}
  /\ stream' = Stopped
  /\ UNCHANGED <<server, refusals, wire, selected, tab, load, view>>

\* One event: read from the store as it is now, then written, unless its frame is too large.
StreamSends ==
  /\ stream.state = "sending" /\ stream.after < stream.through /\ Len(wire) < Backlog
  /\ LET page  == ReadPage(selected, stream.after, stream.through, 1)
         event == page.events[1]
     IN IF ~Readable \/ committed[selected] = 0 \/ event \in Large
        THEN stream' = Stopped /\ UNCHANGED wire
        ELSE stream' = [stream EXCEPT !.after = event[2]] /\ wire' = Append(wire, event)
  /\ phase' = AfterRead
  /\ UNCHANGED <<committed, storage, restarts, refusals, selected, tab, load, view>>

StreamPolls ==
  /\ stream.state = "sending" /\ stream.after = stream.through
  /\ ~Readable \/ committed[selected] # stream.through
  /\ stream' = IF ~Readable \/ committed[selected] = 0
               THEN Stopped ELSE [stream EXCEPT !.through = committed[selected]]
  /\ phase' = AfterRead
  /\ UNCHANGED <<committed, storage, restarts, refusals, wire, selected, tab, load, view>>

-----------------------------------------------------------------------------
(***************************************************************************)
(* The tab.                                                                *)
(***************************************************************************)

\* The hook hands out the events of another session until the new history is there.
FaultyShown == events

Shown == IF eventsOf = selected THEN events ELSE <<>>

NoConnection == stream' = NoStream /\ wire' = <<>>

\* The effect of another selection: the old load is aborted and the old source closed.
Follow(s) ==
  /\ selected' = s /\ NoConnection /\ load' = NoLoad
  /\ IF s = NoSession
     THEN tab' = "idle" /\ events' = <<>> /\ eventsOf' = NoSession
     ELSE tab' = "loading" /\ UNCHANGED view

\* The operator selects a session, or drafts a new one and shows none meanwhile.
Select ==
  /\ \E s \in (Existing \cup {NoSession}) \ {selected} : Follow(s)
  /\ UNCHANGED <<server, refusals>>

\* A catalogue without the selected session selects its first, if it has one.
CatalogRefreshes ==
  /\ Readable /\ selected \notin Existing
  /\ IF Existing = {} THEN selected # NoSession /\ Follow(NoSession) ELSE \E s \in Existing : Follow(s)
  /\ UNCHANGED <<server, refusals>>

Wait == tab' = "waiting" /\ NoConnection /\ load' = NoLoad

\* A page arrives; the last one shows the history and opens the stream after it.
PageArrives ==
  /\ tab = "loading" /\ Readable /\ committed[selected] > 0
  /\ LET through == IF load.through = 0 THEN committed[selected] ELSE load.through
         page    == ReadPage(selected, load.after, through, PageLimit)
         history == Joined(load.events, page.events)
     IN IF page.done
        THEN /\ events' = history /\ eventsOf' = selected /\ load' = NoLoad
             /\ tab' = "connecting"
             /\ stream' = [NoStream EXCEPT !.state = "opening", !.after = Len(history)]
        ELSE /\ load' = [after |-> page.after, through |-> page.through, events |-> history]
             /\ UNCHANGED <<tab, stream, view>>
  /\ UNCHANGED <<server, refusals, wire, selected>>

\* No service, a store that has closed, no session, or a store whose queue is full.
LoadFails ==
  /\ tab = "loading"
  /\ \/ (~Readable \/ committed[selected] = 0) /\ UNCHANGED refusals
     \/ Readable /\ refusals < MaxRefusals /\ refusals' = refusals + 1
  /\ phase' = AfterRead
  /\ Wait
  /\ UNCHANGED <<committed, storage, restarts, selected, view>>

FrameArrives ==
  /\ tab = "live" /\ wire # <<>>
  /\ IF Canonical(events, Head(wire))
     THEN events' = Extended(events, Head(wire)) /\ wire' = Tail(wire) /\ UNCHANGED <<tab, stream, load>>
     ELSE Wait /\ UNCHANGED events
  /\ UNCHANGED <<server, refusals, selected, eventsOf>>

\* A source that ends like a finished download.
FaultyReconnect == tab' = "idle" /\ NoConnection /\ load' = NoLoad

Reconnect == Wait

\* The connection is gone; frames the tab has not received go with it.
SourceFails ==
  /\ tab \in {"connecting", "live"} /\ stream.state = "stopped"
  /\ Reconnect
  /\ UNCHANGED <<server, refusals, selected, view>>

TimerFires ==
  /\ tab = "waiting"
  /\ tab' = "loading"
  /\ UNCHANGED <<server, refusals, stream, wire, selected, load, view>>

Next ==
  \/ \E s \in Sessions : Append1(s) \/ Delete(s)
  \/ StoreFails \/ HostFails \/ HostEnds \/ HostStarts
  \/ StreamOpens \/ StreamCut \/ StreamSends \/ StreamPolls
  \/ Select \/ CatalogRefreshes
  \/ PageArrives \/ LoadFails \/ FrameArrives \/ SourceFails \/ TimerFires

\* Timers fire, requests are answered and frames arrive.  Nobody has to append, fail, cut or select.
Fairness ==
  /\ WF_vars(StreamOpens) /\ WF_vars(StreamSends) /\ WF_vars(StreamPolls)
  /\ WF_vars(PageArrives) /\ WF_vars(LoadFails /\ (~Readable \/ committed[selected] = 0))
  /\ WF_vars(FrameArrives) /\ WF_vars(SourceFails) /\ WF_vars(TimerFires)

Spec == Init /\ [][Next]_vars /\ Fairness

-----------------------------------------------------------------------------
(***************************************************************************)
(* Properties.                                                             *)
(***************************************************************************)

(***************************************************************************)
(* What is shown is the beginning of the selected session's committed      *)
(* history, event by event, whatever was shown before.                     *)
(***************************************************************************)
ShowsPrefix ==
  /\ \A i \in DOMAIN Shown : Shown[i] = <<selected, i>>
  /\ selected \in Existing => Len(Shown) <= committed[selected]

(***************************************************************************)
(* While a session stays selected no shown event disappears: a reload      *)
(* after a lost stream brings at least what the stream had brought.        *)
(***************************************************************************)
NeverShrinks == [][selected' = selected => IsPrefix(Shown, Shown')]_vars

(***************************************************************************)
(* The stream joins the history without a gap or a repetition, so that no  *)
(* frame of an undisturbed stream makes the tab start over.                *)
(***************************************************************************)
JoinIsExact == tab = "live" => \A i \in DOMAIN wire : wire[i] = <<selected, Len(events) + i>>

(***************************************************************************)
(* While the store remains usable, a committed event is shown in the end,  *)
(* also one too large for a frame and also by a failed host, unless the    *)
(* session is left or deleted or the service goes down.                    *)
(***************************************************************************)
Due(s, n)   == selected = s /\ committed[s] >= n /\ Readable
CatchesUp   == \A s \in Sessions, n \in 1..MaxSeq : Due(s, n) ~> ~Due(s, n) \/ Len(Shown) >= n
=============================================================================
