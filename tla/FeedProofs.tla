------------------------------ MODULE FeedProofs ------------------------------
(***************************************************************************)
(* Proofs about how a tab follows a session: what it shows, what it is     *)
(* loading and what is on the wire are consecutive pieces of one committed *)
(* history, whoever appends, deletes, cuts or selects in between.          *)
(***************************************************************************)
EXTENDS SessionFeed, FiniteSetTheorems, TLAPS

Event   == Sessions \X Nat
Chosen  == Sessions \cup {NoSession}

Connection == [state : {"none", "opening", "sending", "stopped"}, after : Nat, through : Nat]
History == [after : Nat, through : Nat, events : Seq(Event)]

FeedType ==
  /\ committed \in [Sessions -> Nat]
  /\ phase \in {"ready", "failed", "down"}
  /\ stream \in Connection
  /\ wire \in Seq(Event)
  /\ selected \in Chosen
  /\ tab \in {"idle", "loading", "connecting", "live", "waiting"}
  /\ load \in History
  /\ events \in Seq(Event)
  /\ eventsOf \in Chosen

\* The first n events of a session.
Prefix(s, n) == [i \in 1..n |-> <<s, i>>]

\* A session that exists has at least n events; one that was deleted never has any again.
Holds(s, n) == s \in Sessions => committed[s] = 0 \/ n <= committed[s]

\* What was shown last, of whichever session.
EventsArePrefix ==
  /\ eventsOf \in Sessions => events = Prefix(eventsOf, Len(events))
  /\ eventsOf = NoSession => events = <<>>
  /\ Holds(eventsOf, Len(events))

\* The selection and what the tab does about it.
TabFollows ==
  /\ tab = "idle" <=> selected = NoSession
  /\ tab # "loading" => load = NoLoad
  /\ tab \in {"connecting", "live"} => eventsOf = selected
  /\ tab \in {"idle", "loading", "waiting"} => stream = NoStream /\ wire = <<>>
  /\ tab = "connecting" => stream.state \in {"opening", "stopped"} /\ wire = <<>>
  /\ tab = "live" => stream.state \in {"sending", "stopped"}

\* The history read so far, and the prefix that the first page fixed.
LoadIsPrefix ==
  /\ selected \in Sessions => load.events = Prefix(selected, load.after)
  /\ load.after <= load.through
  /\ Holds(selected, load.through)
  /\ eventsOf = selected /\ load.through > 0 => Len(events) <= load.through

\* The stream goes on where the frames end, and the frames where the events do.
StreamFollows ==
  /\ stream.state = "opening" => stream.after = Len(events)
  /\ stream.state = "sending" => stream.after = Len(events) + Len(wire) /\ stream.after <= stream.through
  /\ stream.state = "sending" => Holds(selected, stream.through)
  /\ tab = "live" => Holds(selected, Len(events) + Len(wire))
  /\ \A i \in 1..Len(wire) : wire[i] = <<selected, Len(events) + i>>

FeedInv == FeedType /\ EventsArePrefix /\ TabFollows /\ LoadIsPrefix /\ StreamFollows

-----------------------------------------------------------------------------
(***************************************************************************)
(* Pages and prefixes.                                                     *)
(***************************************************************************)

\* A page goes on after its cursor, and ends no later than the prefix it belongs to.
LEMMA PageRead ==
  ASSUME NEW s \in Sessions, NEW after \in Nat, NEW through \in Nat, NEW limit \in Nat \ {0}, after <= through,
         NEW page, page = ReadPage(s, after, through, limit)
  PROVE  /\ page.after \in Nat /\ after <= page.after /\ page.after <= through /\ page.through = through
         /\ page.events \in Seq(Event) /\ Len(page.events) = page.after - after
         /\ \A i \in 1..(page.after - after) : page.events[i] = <<s, after + i>>
         /\ page.done => page.after = through
         /\ after < through => after < page.after /\ page.events[1] = <<s, after + 1>>
<1> DEFINE last == IF after + limit < through THEN after + limit ELSE through
           found == [i \in 1..(last - after) |-> <<s, after + i>>]
<1>1. last \in Nat /\ after <= last /\ last <= through /\ (after < through => after < last) /\ last - after \in Nat
  OBVIOUS
<1> HIDE DEF last
<1>2. \A i \in 1..(last - after) : <<s, after + i>> \in Event
  BY <1>1 DEF Event
<1>3. found \in Seq(Event) /\ Len(found) = last - after /\ \A i \in 1..(last - after) : found[i] = <<s, after + i>>
  BY <1>1, <1>2
<1> HIDE DEF found
<1>4. page.events = found /\ page.after = last /\ page.through = through /\ (page.done => last = through)
  BY DEF ReadPage, found, last
<1>5. after < through => found[1] = <<s, after + 1>>
  BY <1>1, <1>3
<1> QED BY <1>1, <1>3, <1>4, <1>5

LEMMA PrefixIs ==
  ASSUME NEW s \in Sessions, NEW n \in Nat
  PROVE  /\ Prefix(s, n) \in Seq(Event) /\ Len(Prefix(s, n)) = n
         /\ \A i \in 1..n : Prefix(s, n)[i] = <<s, i>>
<1>1. \A i \in 1..n : <<s, i>> \in Event
  BY DEF Event
<1> QED BY <1>1 DEF Prefix

\* What holds one event after the other is a prefix.
LEMMA IsThePrefix ==
  ASSUME NEW s \in Sessions, NEW n \in Nat, NEW f \in Seq(Event), Len(f) = n, \A i \in 1..n : f[i] = <<s, i>>
  PROVE  f = Prefix(s, n)
<1>1. DOMAIN f = 1..n /\ f = [i \in DOMAIN f |-> f[i]]
  OBVIOUS
<1> QED BY <1>1 DEF Prefix

LEMMA AppendedFields ==
  \A f \in Seq(Event), e \in Event :
    /\ Append(f, e) \in Seq(Event) /\ Len(Append(f, e)) = Len(f) + 1 /\ Append(f, e)[Len(f) + 1] = e
    /\ \A i \in 1..Len(f) : Append(f, e)[i] = f[i]
OBVIOUS

LEMMA JoinedLength == \A f, g \in Seq(Event) : f \o g \in Seq(Event) /\ Len(f \o g) = Len(f) + Len(g)
OBVIOUS

\* A page that follows a prefix makes a longer one; none of its events is a repetition.
LEMMA JoinedPage ==
  ASSUME NEW s \in Sessions, NEW after \in Nat, NEW last \in Nat, after <= last, NEW page \in Seq(Event),
         Len(page) = last - after, \A i \in 1..(last - after) : page[i] = <<s, after + i>>
  PROVE  Joined(Prefix(s, after), page) = Prefix(s, last)
<1> DEFINE current == Prefix(s, after)
           repeated == {i \in DOMAIN page : page[i][2] <= Len(current)}
<1>1. current \in Seq(Event) /\ Len(current) = after /\ \A i \in 1..after : current[i] = <<s, i>>
  BY PrefixIs
<1> HIDE DEF current
<1>2. repeated = {}
  <2>1. ASSUME NEW i \in DOMAIN page PROVE ~(page[i][2] <= Len(current))
    <3>1. i \in 1..(last - after) /\ page[i][2] = after + i
      OBVIOUS
    <3> QED BY <1>1, <3>1
  <2> QED BY <2>1
<1>3. Cardinality(repeated) = 0
  BY <1>2, FS_EmptySet
<1> HIDE DEF repeated
<1>4. SubSeq(page, 1 + Cardinality(repeated), Len(page)) = page
  BY <1>3
<1>5. Joined(current, page) = current \o page
  BY <1>4 DEF Joined, repeated
<1>6. current \o page \in Seq(Event) /\ Len(current \o page) = last
  <2>1. Len(current \o page) = Len(current) + Len(page)
    BY <1>1, JoinedLength
  <2>2. after + (last - after) = last
    OBVIOUS
  <2> QED BY <1>1, <2>1, <2>2, JoinedLength
<1>7. ASSUME NEW i \in 1..last PROVE (current \o page)[i] = <<s, i>>
  <2>1. CASE i \in 1..after
    BY <1>1, <2>1
  <2>2. CASE i - after \in 1..(last - after)
    <3>1. (current \o page)[i] = page[i - after]
      BY <1>1, <2>2
    <3>2. after + (i - after) = i
      OBVIOUS
    <3> QED BY <2>2, <3>1, <3>2
  <2>3. i \in 1..after \/ i - after \in 1..(last - after)
    OBVIOUS
  <2> QED BY <2>1, <2>2, <2>3
<1> QED BY <1>5, <1>6, <1>7, IsThePrefix DEF current

-----------------------------------------------------------------------------
(***************************************************************************)
(* The invariant.                                                          *)
(***************************************************************************)
LEMMA FeedInitial == Init => FeedInv
<1> SUFFICES ASSUME Init PROVE FeedInv
  OBVIOUS
<1>1. FeedType
  BY DEF Init, FeedType, Connection, History, NoStream, NoLoad, Chosen
<1>2. Prefix(selected, 0) = <<>> /\ Prefix(eventsOf, 0) = <<>>
  BY DEF Prefix
<1>3. EventsArePrefix /\ LoadIsPrefix
  BY <1>2 DEF Init, EventsArePrefix, LoadIsPrefix, Holds, NoLoad
<1>4. TabFollows /\ StreamFollows
  BY DEF Init, TabFollows, StreamFollows, NoStream
<1> QED BY <1>1, <1>3, <1>4 DEF FeedInv

\* A history only grows, or is gone for good.
LEMMA StoreStep ==
  ASSUME FeedInv, NEW s \in Sessions, Append1(s) \/ Delete(s) PROVE FeedInv'
<1>1. UNCHANGED <<phase, stream, wire, selected, tab, load, events, eventsOf>>
  BY DEF Append1, Delete, view
<1>2. /\ committed' \in [Sessions -> Nat]
      /\ \A x \in Sessions : committed'[x] = 0 \/ (committed[x] # 0 /\ committed[x] <= committed'[x])
  <2>1. CASE Append1(s)
    BY <2>1 DEF Append1, FeedInv, FeedType, Connection, History
  <2>2. CASE Delete(s)
    BY <2>2 DEF Delete, FeedInv, FeedType, Connection, History
  <2> QED BY <2>1, <2>2
<1>3. ASSUME NEW x, NEW n \in Nat, Holds(x, n)
      PROVE  x \in Sessions => committed'[x] = 0 \/ n <= committed'[x]
  BY <1>2, <1>3 DEF Holds, FeedInv, FeedType, Connection, History
<1>4. Len(events) \in Nat /\ Len(wire) \in Nat /\ load.through \in Nat /\ stream.through \in Nat
  BY DEF FeedInv, FeedType, Connection, History
<1>5. FeedType'
  BY <1>1, <1>2 DEF FeedInv, FeedType, Connection, History
<1>6. EventsArePrefix'
  BY <1>1, <1>3, <1>4 DEF FeedInv, EventsArePrefix, Holds
<1>7. TabFollows'
  BY <1>1 DEF FeedInv, TabFollows
<1>8. LoadIsPrefix'
  BY <1>1, <1>3, <1>4 DEF FeedInv, LoadIsPrefix, Holds
<1>9. StreamFollows'
  <2>1. /\ (stream.state = "sending" => Holds(selected, stream.through))
        /\ (tab = "live" => Holds(selected, Len(events) + Len(wire)))
    BY DEF FeedInv, StreamFollows
  <2>2. Len(events) + Len(wire) \in Nat
    BY <1>4
  <2>3. /\ (stream.state = "sending" => (selected \in Sessions => committed'[selected] = 0 \/ stream.through <= committed'[selected]))
        /\ (tab = "live" => (selected \in Sessions => committed'[selected] = 0 \/ Len(events) + Len(wire) <= committed'[selected]))
    BY <1>3, <1>4, <2>1, <2>2
  <2> QED BY <1>1, <2>3 DEF FeedInv, StreamFollows, Holds
<1> QED BY <1>5, <1>6, <1>7, <1>8, <1>9 DEF FeedInv

\* A stream that stops delivers nothing more; what is on the wire may still arrive.
LEMMA StopStep ==
  ASSUME FeedInv, UNCHANGED <<committed, wire, selected, tab, load, view>>, stream' \in {stream, Stopped},
         stream' = Stopped => stream.state # "none", phase' \in {"ready", "failed", "down"}
  PROVE  FeedInv'
<1>1. Stopped \in Connection
      /\ Stopped.state = "stopped"
  BY DEF Stopped, NoStream, Connection
<1>2. FeedType'
  BY <1>1 DEF FeedInv, FeedType, Connection, History, view
<1>3. EventsArePrefix' /\ LoadIsPrefix'
  BY DEF FeedInv, EventsArePrefix, LoadIsPrefix, Holds, view
<1>4. TabFollows'
  BY <1>1 DEF FeedInv, TabFollows, view, NoStream
<1>5. StreamFollows'
  BY <1>1 DEF FeedInv, StreamFollows, Holds, view
<1> QED BY <1>2, <1>3, <1>4, <1>5 DEF FeedInv

\* A refused read fails a ready host, and nothing else happens to it.
LEMMA ReadKeepsPhase == FeedInv => AfterRead \in {"ready", "failed", "down"}
BY DEF FeedInv, FeedType, AfterRead

LEMMA HostStep == ASSUME FeedInv, StoreFails \/ HostFails \/ HostEnds \/ HostStarts \/ StreamCut PROVE FeedInv'
<1>1. /\ UNCHANGED <<committed, wire, selected, tab, load, view>>
      /\ phase' \in {"ready", "failed", "down"}
      /\ stream' = stream \/ (stream' = Stopped /\ stream.state # "none")
  BY DEF StoreFails, HostFails, HostEnds, HostStarts, StreamCut, Cut, server, FeedInv, FeedType, Connection, History
<1> QED BY <1>1, StopStep DEF Stopped, NoStream

\* A stream begins after the last event that was shown.
LEMMA OpensStep == ASSUME FeedInv, StreamOpens PROVE FeedInv'
<1>0. phase' \in {"ready", "failed", "down"}
  BY ReadKeepsPhase DEF StreamOpens
<1>1. UNCHANGED <<committed, wire, selected, load, events, eventsOf>> /\ tab = "connecting" /\ stream.state = "opening"
  BY DEF StreamOpens, view
<1>2. CASE ~Admissible
  <2>1. stream' = Stopped /\ tab' = tab
    BY <1>2 DEF StreamOpens
  <2> QED BY <1>0, <1>1, <2>1, StopStep DEF view
<1>3. CASE Admissible
  <2>1. tab' = "live" /\ stream' = [state |-> "sending", after |-> stream.after, through |-> committed[selected]]
    BY <1>3 DEF StreamOpens, StreamBegins
  <2>2. selected \in Sessions /\ eventsOf = selected /\ committed[selected] \in Nat /\ stream.after \in Nat
    <3>1. selected \in Chosen /\ selected # NoSession
      BY <1>1 DEF FeedInv, TabFollows, FeedType, Connection, History
    <3> QED BY <1>1, <3>1 DEF FeedInv, TabFollows, FeedType, Connection, History, Chosen
  <2>3. stream.after = Len(events) /\ wire = <<>> /\ stream.after <= committed[selected]
    BY <1>1, <1>3 DEF FeedInv, TabFollows, StreamFollows, Admissible
  <2>4. Len(wire) = 0 /\ Len(events) \in Nat
    BY <2>3 DEF FeedInv, FeedType, Connection, History
  <2>5. FeedType'
    BY <1>0, <1>1, <2>1, <2>2 DEF FeedInv, FeedType, Connection, History
  <2>6. EventsArePrefix' /\ LoadIsPrefix'
    BY <1>1 DEF FeedInv, EventsArePrefix, LoadIsPrefix, Holds
  <2>7. TabFollows'
    BY <1>1, <2>1, <2>2 DEF FeedInv, TabFollows
  <2>8. StreamFollows'
    BY <1>1, <2>1, <2>2, <2>3, <2>4 DEF StreamFollows, Holds
  <2> QED BY <2>5, <2>6, <2>7, <2>8 DEF FeedInv
<1> QED BY <1>2, <1>3

\* The next event of the history is the next frame of the stream.
LEMMA SendsStep == ASSUME FeedInv, StreamSends PROVE FeedInv'
<1> DEFINE page == ReadPage(selected, stream.after, stream.through, 1)
<1>0. phase' \in {"ready", "failed", "down"}
  BY ReadKeepsPhase DEF StreamSends
<1>1. /\ UNCHANGED <<committed, selected, tab, load, events, eventsOf>>
      /\ stream.state = "sending" /\ stream.after < stream.through
      /\ IF ~Readable \/ committed[selected] = 0 \/ page.events[1] \in Large
         THEN stream' = Stopped /\ wire' = wire
         ELSE stream' = [stream EXCEPT !.after = page.events[1][2]] /\ wire' = Append(wire, page.events[1])
  BY DEF StreamSends, view
<1>2. /\ tab = "live" /\ selected \in Sessions /\ stream.after \in Nat /\ stream.through \in Nat
      /\ Len(events) \in Nat /\ Len(wire) \in Nat /\ wire \in Seq(Event)
  <2>1. tab = "live" /\ selected # NoSession
    BY <1>1 DEF FeedInv, TabFollows, FeedType, Connection, History, NoStream
  <2> QED BY <2>1 DEF FeedInv, FeedType, Connection, History, Chosen
<1>3. page.events[1] = <<selected, stream.after + 1>>
  BY <1>1, <1>2, PageRead
<1> HIDE DEF page
<1>4. CASE ~Readable \/ committed[selected] = 0 \/ page.events[1] \in Large
  <2>1. stream' = Stopped /\ wire' = wire /\ phase' \in {"ready", "failed", "down"}
    BY <1>0, <1>1, <1>4
  <2> QED BY <1>1, <2>1, StopStep DEF view
<1>5. CASE ~(~Readable \/ committed[selected] = 0 \/ page.events[1] \in Large)
  <2> DEFINE event == <<selected, stream.after + 1>>
  <2>1. stream' = [stream EXCEPT !.after = stream.after + 1] /\ wire' = Append(wire, event) /\ event \in Event
    BY <1>1, <1>2, <1>3, <1>5 DEF Event
  <2>2. /\ stream'.state = "sending" /\ stream'.after = stream.after + 1 /\ stream'.through = stream.through
        /\ stream' \in Connection
    <3>1. stream \in Connection
      BY DEF FeedInv, FeedType, Connection, History
    <3> QED BY <1>1, <1>2, <2>1, <3>1 DEF Connection
  <2>3. /\ wire' \in Seq(Event) /\ Len(wire') = Len(wire) + 1 /\ wire'[Len(wire) + 1] = event
        /\ \A i \in 1..Len(wire) : wire'[i] = wire[i]
    BY <1>2, <2>1
  <2>4. stream.after = Len(events) + Len(wire) /\ Holds(selected, stream.through)
    BY <1>1 DEF FeedInv, StreamFollows
  <2>5. FeedType'
    BY <1>0, <1>1, <2>2, <2>3 DEF FeedInv, FeedType, Connection, History
  <2>6. EventsArePrefix' /\ LoadIsPrefix'
    BY <1>1 DEF FeedInv, EventsArePrefix, LoadIsPrefix, Holds
  <2>7. TabFollows'
    BY <1>1, <1>2, <2>2 DEF FeedInv, TabFollows
  <2>8. StreamFollows'
    <3>1. stream'.after = Len(events) + Len(wire') /\ stream'.after <= stream'.through
      BY <1>1, <1>2, <2>2, <2>3, <2>4
    <3>2. Holds(selected, stream.through)'
      BY <1>1, <2>2, <2>4 DEF Holds
    <3>3. Holds(selected, Len(events) + Len(wire))'
      BY <1>1, <1>2, <2>2, <2>3, <3>1, <3>2 DEF Holds, FeedInv, FeedType, Connection, History
    <3>4. ASSUME NEW i \in 1..Len(wire') PROVE wire'[i] = <<selected, Len(events) + i>>
      <4>1. CASE i = Len(wire) + 1
        <5>1. Len(events) + i = stream.after + 1
          BY <1>2, <2>4, <4>1
        <5> QED BY <2>3, <4>1, <5>1
      <4>2. CASE i \in 1..Len(wire)
        BY <2>3, <4>2 DEF FeedInv, StreamFollows
      <4>3. i = Len(wire) + 1 \/ i \in 1..Len(wire)
        BY <1>2, <2>3
      <4> QED BY <4>1, <4>2, <4>3
    <3> QED BY <1>1, <2>2, <3>1, <3>2, <3>3, <3>4 DEF StreamFollows
  <2> QED BY <2>5, <2>6, <2>7, <2>8 DEF FeedInv
<1> QED BY <1>4, <1>5

LEMMA PollsStep == ASSUME FeedInv, StreamPolls PROVE FeedInv'
<1>0. phase' \in {"ready", "failed", "down"}
  BY ReadKeepsPhase DEF StreamPolls
<1>1. /\ UNCHANGED <<committed, wire, selected, tab, load, events, eventsOf>>
      /\ stream.state = "sending"
      /\ stream' = IF ~Readable \/ committed[selected] = 0 THEN Stopped ELSE [stream EXCEPT !.through = committed[selected]]
  BY DEF StreamPolls, view
<1>2. CASE ~Readable \/ committed[selected] = 0
  <2>1. stream' = Stopped /\ phase' \in {"ready", "failed", "down"}
    BY <1>0, <1>1, <1>2
  <2> QED BY <1>1, <2>1, StopStep DEF view
<1>3. CASE Readable /\ committed[selected] # 0
  <2>1. tab = "live" /\ selected \in Sessions /\ committed[selected] \in Nat
    <3>1. tab = "live" /\ selected # NoSession
      BY <1>1 DEF FeedInv, TabFollows, FeedType, Connection, History, NoStream
    <3> QED BY <3>1 DEF FeedInv, FeedType, Connection, History, Chosen
  <2>2. /\ stream'.state = "sending" /\ stream'.after = stream.after /\ stream'.through = committed[selected]
        /\ stream' \in Connection
    <3>1. stream \in Connection
      BY DEF FeedInv, FeedType, Connection, History
    <3> QED BY <1>1, <1>3, <2>1, <3>1 DEF Connection
  <2>3. stream.after = Len(events) + Len(wire) /\ stream.after <= committed[selected]
    BY <1>1, <1>3, <2>1 DEF FeedInv, StreamFollows, Holds
  <2>4. FeedType'
    BY <1>0, <1>1, <2>2 DEF FeedInv, FeedType, Connection, History
  <2>5. EventsArePrefix' /\ LoadIsPrefix'
    BY <1>1 DEF FeedInv, EventsArePrefix, LoadIsPrefix, Holds
  <2>6. TabFollows'
    BY <1>1, <2>1, <2>2 DEF FeedInv, TabFollows
  <2>7. StreamFollows'
    <3>1. Holds(selected, stream.through)'
      BY <1>1, <2>1, <2>2 DEF Holds
    <3> QED BY <1>1, <2>2, <2>3, <3>1 DEF FeedInv, StreamFollows, Holds
  <2> QED BY <2>4, <2>5, <2>6, <2>7 DEF FeedInv
<1> QED BY <1>2, <1>3

\* Without a connection there is nothing to join.
LEMMA Disconnected ==
  ASSUME FeedInv, UNCHANGED committed, phase' \in {"ready", "failed", "down"}, NoConnection, load' = NoLoad,
         \/ events' = events /\ eventsOf' = eventsOf
         \/ events' = <<>> /\ eventsOf' = NoSession,
         selected' \in Chosen, tab' \in {"idle", "loading", "waiting"}, tab' = "idle" <=> selected' = NoSession
  PROVE  FeedInv'
<1>1. /\ stream' = NoStream /\ wire' = <<>> /\ Len(wire') = 0 /\ load' = NoLoad
      /\ load'.after = 0 /\ load'.through = 0 /\ load'.events = <<>>
  BY DEF NoConnection, NoLoad
<1>2. FeedType'
  <2>1. NoStream \in Connection /\ NoLoad \in History /\ <<>> \in Seq(Event)
    BY DEF NoStream, NoLoad, Connection, History
  <2>2. events' \in Seq(Event) /\ eventsOf' \in Chosen
    BY <2>1 DEF FeedInv, FeedType, Connection, History, Chosen
  <2> QED BY <1>1, <2>1, <2>2 DEF FeedInv, FeedType, Connection, History
<1>3. EventsArePrefix'
  <2>1. CASE events' = events /\ eventsOf' = eventsOf
    BY <2>1 DEF FeedInv, EventsArePrefix, Holds
  <2>2. CASE events' = <<>> /\ eventsOf' = NoSession
    <3>1. Len(events') = 0 /\ Prefix(eventsOf', 0) = <<>>
      BY <2>2 DEF Prefix
    <3> QED BY <2>2, <3>1, <1>2 DEF EventsArePrefix, Holds, FeedType, Connection, History
  <2> QED BY <2>1, <2>2
<1>4. TabFollows'
  BY <1>1 DEF TabFollows
<1>5. LoadIsPrefix'
  <2>1. Prefix(selected', 0) = <<>>
    BY DEF Prefix
  <2> QED BY <1>1, <1>2, <2>1 DEF LoadIsPrefix, Holds, FeedType, Connection, History
<1>6. StreamFollows'
  BY <1>1 DEF StreamFollows, NoStream
<1> QED BY <1>2, <1>3, <1>4, <1>5, <1>6 DEF FeedInv

LEMMA SelectStep ==
  ASSUME FeedInv, Select \/ CatalogRefreshes
  PROVE  FeedInv' /\ selected' # selected
<1>1. PICK s \in Chosen : Follow(s) /\ s # selected
  BY DEF Select, CatalogRefreshes, Chosen, Existing
<1>2. UNCHANGED committed /\ phase' \in {"ready", "failed", "down"}
  BY DEF Select, CatalogRefreshes, server, FeedInv, FeedType, Connection, History
<1> QED BY <1>1, <1>2, Disconnected DEF Follow, view

LEMMA WaitStep == ASSUME FeedInv, LoadFails \/ SourceFails PROVE FeedInv' /\ UNCHANGED <<selected, events, eventsOf>>
<1>1. /\ Wait /\ UNCHANGED <<committed, selected, events, eventsOf>> /\ selected \in Chosen
      /\ selected # NoSession /\ phase' \in {"ready", "failed", "down"}
  BY ReadKeepsPhase DEF LoadFails, SourceFails, Reconnect, server, view, FeedInv, FeedType, Connection, History, TabFollows
<1> QED BY <1>1, Disconnected DEF Wait

LEMMA RetryStep == ASSUME FeedInv, TimerFires PROVE FeedInv'
<1>1. /\ tab = "waiting" /\ tab' = "loading"
      /\ UNCHANGED <<committed, phase, stream, wire, selected, load, events, eventsOf>>
  BY DEF TimerFires, server, view
<1>2. FeedType' /\ EventsArePrefix' /\ LoadIsPrefix'
  BY <1>1 DEF FeedInv, FeedType, Connection, History, EventsArePrefix, LoadIsPrefix, Holds
<1>3. TabFollows' /\ StreamFollows'
  BY <1>1 DEF FeedInv, TabFollows, StreamFollows, Holds
<1> QED BY <1>2, <1>3 DEF FeedInv

\* A frame is the next event, so it is shown.
LEMMA FrameStep ==
  ASSUME FeedInv, FrameArrives
  PROVE  /\ FeedInv' /\ Canonical(events, Head(wire)) /\ UNCHANGED <<selected, eventsOf>>
         /\ eventsOf \in Sessions /\ events' = Prefix(eventsOf, Len(events) + 1)
<1>1. tab = "live" /\ wire # <<>> /\ UNCHANGED <<committed, phase, selected, eventsOf>>
  BY DEF FrameArrives, server
<1>2. /\ selected \in Sessions /\ eventsOf = selected /\ wire \in Seq(Event) /\ events \in Seq(Event)
      /\ events = Prefix(selected, Len(events)) /\ Len(events) \in Nat /\ Len(wire) \in Nat
  <2>1. selected # NoSession /\ eventsOf = selected
    BY <1>1 DEF FeedInv, TabFollows
  <2> QED BY <2>1 DEF FeedInv, FeedType, Connection, History, Chosen, EventsArePrefix
<1>3. /\ Len(wire) > 0 /\ Head(wire) = wire[1] /\ Tail(wire) \in Seq(Event) /\ Len(Tail(wire)) = Len(wire) - 1
      /\ \A i \in 1..(Len(wire) - 1) : Tail(wire)[i] = wire[i + 1]
  BY <1>1, <1>2
<1>4. Head(wire) = <<selected, Len(events) + 1>>
  BY <1>2, <1>3 DEF FeedInv, StreamFollows
<1>5. Canonical(events, Head(wire)) /\ Extended(events, Head(wire)) = Append(events, Head(wire))
  <2>1. Head(wire)[2] = Len(events) + 1 /\ Head(wire)[1] = selected /\ ~(Head(wire)[2] <= Len(events))
    BY <1>2, <1>4
  <2>2. events # <<>> => events[1][1] = selected
    <3>1. events # <<>> => 1 \in 1..Len(events)
      BY <1>2
    <3> QED BY <1>2, <3>1, PrefixIs
  <2>3. events = <<>> => Len(events) = 0
    OBVIOUS
  <2>4. Canonical(events, Head(wire))
    BY <2>1, <2>2, <2>3 DEF Canonical
  <2> QED BY <2>1, <2>4 DEF Extended
<1>6. events' = Append(events, Head(wire)) /\ wire' = Tail(wire) /\ UNCHANGED <<tab, stream, load>>
  BY <1>5 DEF FrameArrives
<1>7. events' \in Seq(Event) /\ Len(events') = Len(events) + 1 /\ events' = Prefix(selected, Len(events) + 1)
  <2>1. <<selected, Len(events) + 1>> \in Event
    BY <1>2 DEF Event
  <2>2. /\ events' \in Seq(Event) /\ Len(events') = Len(events) + 1
        /\ events'[Len(events) + 1] = <<selected, Len(events) + 1>>
        /\ \A i \in 1..Len(events) : events'[i] = events[i]
    BY <1>2, <1>4, <1>6, <2>1, AppendedFields
  <2>3. ASSUME NEW i \in 1..(Len(events) + 1) PROVE events'[i] = <<selected, i>>
    <3>1. i = Len(events) + 1 \/ i \in 1..Len(events)
      BY <1>2
    <3> QED BY <1>2, <2>2, <3>1, PrefixIs
  <2>4. Len(events) + 1 \in Nat
    BY <1>2
  <2> QED BY <1>2, <2>2, <2>3, <2>4, IsThePrefix
<1>8. FeedType'
  BY <1>1, <1>3, <1>6, <1>7 DEF FeedInv, FeedType, Connection, History
<1>9. Len(events') + Len(wire') = Len(events) + Len(wire)
  BY <1>2, <1>3, <1>6, <1>7
<1>10. EventsArePrefix'
  <2>1. Holds(selected, Len(events) + Len(wire))
    BY <1>1 DEF FeedInv, StreamFollows
  <2>2. Holds(eventsOf, Len(events))'
    BY <1>1, <1>2, <1>3, <1>7, <2>1 DEF Holds, FeedInv, FeedType, Connection, History
  <2>3. eventsOf = NoSession => FALSE
    BY <1>1, <1>2 DEF FeedInv, TabFollows
  <2> QED BY <1>1, <1>2, <1>7, <2>2, <2>3 DEF EventsArePrefix
<1>11. TabFollows'
  BY <1>1, <1>6 DEF FeedInv, TabFollows
<1>12. LoadIsPrefix'
  BY <1>1, <1>6 DEF FeedInv, LoadIsPrefix, TabFollows, NoLoad, Holds
<1>13. StreamFollows'
  <2>1. stream.state # "opening"
    BY <1>1 DEF FeedInv, TabFollows
  <2>2. ASSUME NEW i \in 1..Len(wire') PROVE wire'[i] = <<selected, Len(events') + i>>
    <3>1. i \in 1..(Len(wire) - 1) /\ i + 1 \in 1..Len(wire) /\ Len(events') + i = Len(events) + (i + 1)
      BY <1>2, <1>3, <1>6, <1>7
    <3>2. wire[i + 1] = <<selected, Len(events) + (i + 1)>>
      BY <3>1 DEF FeedInv, StreamFollows
    <3> QED BY <1>3, <1>6, <3>1, <3>2
  <2> QED BY <1>1, <1>6, <1>9, <2>1, <2>2 DEF FeedInv, StreamFollows, Holds
<1> QED BY <1>1, <1>2, <1>5, <1>7, <1>8, <1>10, <1>11, <1>12, <1>13 DEF FeedInv

\* A page continues the prefix; the last one shows all of it, and no less than was shown before.
LEMMA PageStep ==
  ASSUME FeedInv, PageArrives
  PROVE  /\ FeedInv' /\ selected' = selected
         /\ \/ UNCHANGED <<events, eventsOf>>
            \/ \E n \in Nat : /\ selected \in Sessions /\ eventsOf' = selected /\ events' = Prefix(selected, n)
                              /\ eventsOf = selected => Len(events) <= n
<1> DEFINE through == IF load.through = 0 THEN committed[selected] ELSE load.through
           page    == ReadPage(selected, load.after, through, PageLimit)
           history == Joined(load.events, page.events)
<1>1. /\ tab = "loading" /\ committed[selected] > 0 /\ UNCHANGED <<committed, phase, wire, selected>>
      /\ IF page.done
         THEN /\ events' = history /\ eventsOf' = selected /\ load' = NoLoad /\ tab' = "connecting"
              /\ stream' = [NoStream EXCEPT !.state = "opening", !.after = Len(history)]
         ELSE /\ load' = [after |-> page.after, through |-> page.through, events |-> history]
              /\ UNCHANGED <<tab, stream, events, eventsOf>>
  BY DEF PageArrives, server, view
<1>2. /\ selected \in Sessions /\ selected # NoSession /\ wire = <<>> /\ stream = NoStream
      /\ load.after \in Nat /\ load.through \in Nat /\ committed[selected] \in Nat /\ PageLimit \in Nat \ {0}
      /\ load.events = Prefix(selected, load.after) /\ load.after <= load.through
      /\ load.through <= committed[selected] /\ Len(events) \in Nat
  <2>1. selected # NoSession /\ wire = <<>> /\ stream = NoStream
    BY <1>1 DEF FeedInv, TabFollows
  <2>2. selected \in Sessions
    BY <2>1 DEF FeedInv, FeedType, Connection, History, Chosen
  <2> QED BY <1>1, <2>1, <2>2, BoundsAssumption DEF FeedInv, FeedType, Connection, History, LoadIsPrefix, Holds
<1>3. /\ through \in Nat /\ load.after <= through /\ through <= committed[selected] /\ through > 0
      /\ eventsOf = selected => Len(events) <= through
  BY <1>1, <1>2 DEF FeedInv, LoadIsPrefix, EventsArePrefix, Holds
<1>a. page = ReadPage(selected, load.after, through, PageLimit) /\ history = Joined(load.events, page.events)
  OBVIOUS
<1> HIDE DEF through, page, history
<1>4. /\ page.after \in Nat /\ load.after <= page.after /\ page.after <= through /\ page.through = through
      /\ page.events \in Seq(Event) /\ Len(page.events) = page.after - load.after
      /\ \A i \in 1..(page.after - load.after) : page.events[i] = <<selected, load.after + i>>
      /\ page.done => page.after = through
  <2>1. selected \in Sessions /\ load.after \in Nat /\ through \in Nat /\ PageLimit \in Nat \ {0} /\ load.after <= through
    BY <1>2, <1>3
  <2> QED BY <1>a, <2>1, PageRead
<1>5. history = Prefix(selected, page.after)
  <2>1. selected \in Sessions /\ load.after \in Nat /\ load.events = Prefix(selected, load.after)
    BY <1>2
  <2>2. Joined(Prefix(selected, load.after), page.events) = Prefix(selected, page.after)
    BY <1>4, <2>1, JoinedPage
  <2> QED BY <1>a, <2>1, <2>2
<1>6. history \in Seq(Event) /\ Len(history) = page.after
  BY <1>2, <1>4, <1>5, PrefixIs
<1>7. CASE page.done
  <2>1. /\ events' = history /\ eventsOf' = selected /\ load' = NoLoad /\ tab' = "connecting"
        /\ stream' = [NoStream EXCEPT !.state = "opening", !.after = Len(history)]
    BY <1>1, <1>7
  <2>2. /\ stream'.state = "opening" /\ stream'.after = page.after
        /\ stream' \in Connection
    BY <1>4, <1>6, <2>1 DEF NoStream, Connection
  <2>3. FeedType'
    BY <1>1, <1>2, <1>6, <2>1, <2>2 DEF FeedInv, FeedType, Connection, History, NoLoad, Chosen
  <2>4. EventsArePrefix'
    <3>1. page.after <= committed[selected]
      BY <1>2, <1>3, <1>4
    <3> QED BY <1>1, <1>2, <1>5, <1>6, <2>1, <3>1 DEF EventsArePrefix, Holds
  <2>5. TabFollows'
    BY <1>1, <1>2, <2>1, <2>2 DEF TabFollows
  <2>6. LoadIsPrefix'
    <3>1. Prefix(selected', 0) = <<>>
      BY DEF Prefix
    <3> QED BY <1>1, <1>2, <2>1, <3>1 DEF LoadIsPrefix, NoLoad, Holds
  <2>7. StreamFollows'
    <3>1. Len(wire') = 0
      BY <1>1, <1>2
    <3> QED BY <1>6, <2>1, <2>2, <3>1 DEF StreamFollows
  <2> QED BY <1>1, <1>2, <1>3, <1>4, <1>5, <1>7, <2>1, <2>3, <2>4, <2>5, <2>6, <2>7 DEF FeedInv
<1>8. CASE ~page.done
  <2>1. /\ load' = [after |-> page.after, through |-> page.through, events |-> history]
        /\ UNCHANGED <<tab, stream, events, eventsOf>>
    BY <1>1, <1>8
  <2>2. load'.after = page.after /\ load'.through = through /\ load'.events = history
    BY <1>4, <2>1
  <2>3. FeedType'
    BY <1>1, <1>3, <1>4, <1>6, <2>1 DEF FeedInv, FeedType, Connection, History
  <2>4. EventsArePrefix' /\ StreamFollows'
    BY <1>1, <2>1 DEF FeedInv, EventsArePrefix, StreamFollows, Holds
  <2>5. TabFollows'
    BY <1>1, <2>1 DEF FeedInv, TabFollows
  <2>6. LoadIsPrefix'
    BY <1>1, <1>2, <1>3, <1>4, <1>5, <2>1, <2>2 DEF LoadIsPrefix, Holds
  <2> QED BY <1>1, <2>1, <2>3, <2>4, <2>5, <2>6 DEF FeedInv
<1> QED BY <1>7, <1>8

LEMMA FeedStep == FeedInv /\ [Next]_vars => FeedInv'
<1> SUFFICES ASSUME FeedInv, [Next]_vars PROVE FeedInv'
  OBVIOUS
<1>1. CASE UNCHANGED vars
  BY <1>1 DEF vars, FeedInv, FeedType, EventsArePrefix, TabFollows, LoadIsPrefix, StreamFollows, Holds
<1> QED
  BY <1>1, StoreStep, HostStep, OpensStep, SendsStep, PollsStep, SelectStep, WaitStep, RetryStep, FrameStep, PageStep
  DEF Next

-----------------------------------------------------------------------------
(***************************************************************************)
(* What a step does to the events shown.                                   *)
(***************************************************************************)
LEMMA ShownIs ==
  ASSUME FeedInv
  PROVE  Shown \in Seq(Event) /\ (eventsOf \notin Sessions => Shown = <<>>)
BY DEF FeedInv, FeedType, EventsArePrefix, Shown, Chosen

\* A longer prefix begins with a shorter one.
LEMMA PrefixGrows ==
  ASSUME NEW s \in Sessions, NEW m \in Nat, NEW n \in Nat, m <= n
  PROVE  IsPrefix(Prefix(s, m), Prefix(s, n))
<1>1. /\ Prefix(s, m) \in Seq(Event) /\ Len(Prefix(s, m)) = m /\ (\A i \in 1..m : Prefix(s, m)[i] = <<s, i>>)
      /\ Prefix(s, n) \in Seq(Event) /\ Len(Prefix(s, n)) = n /\ (\A i \in 1..n : Prefix(s, n)[i] = <<s, i>>)
  BY PrefixIs
<1>2. SubSeq(Prefix(s, m), 1, m) = Prefix(s, m)
  BY <1>1
<1>3. SubSeq(Prefix(s, n), 1, m) \in Seq(Event) /\ Len(SubSeq(Prefix(s, n), 1, m)) = m
      /\ \A i \in 1..m : SubSeq(Prefix(s, n), 1, m)[i] = Prefix(s, n)[i]
  BY <1>1
<1>4. \A i \in 1..m : SubSeq(Prefix(s, n), 1, m)[i] = <<s, i>>
  BY <1>1, <1>3
<1>5. SubSeq(Prefix(s, n), 1, m) = Prefix(s, m)
  BY <1>3, <1>4, IsThePrefix
<1> QED BY <1>1, <1>2, <1>5 DEF IsPrefix

LEMMA PrefixOfAll ==
  ASSUME NEW f \in Seq(Event)
  PROVE  IsPrefix(<<>>, f) /\ IsPrefix(f, f)
<1>1. SubSeq(<<>>, 1, 0) = <<>> /\ SubSeq(f, 1, 0) = <<>> /\ Len(<<>>) = 0
  OBVIOUS
<1> QED BY <1>1 DEF IsPrefix

LEMMA ShownGrows ==
  ASSUME FeedInv, [Next]_vars, selected' = selected
  PROVE  IsPrefix(Shown, Shown')
<1>1. FeedInv' /\ Shown \in Seq(Event) /\ Shown' \in Seq(Event)
  <2>1. FeedInv'
    BY FeedStep
  <2>2. Shown' \in Seq(Event)
    BY <2>1 DEF FeedInv, FeedType, Shown
  <2> QED BY <2>1, <2>2, ShownIs
<1>2. CASE UNCHANGED <<events, eventsOf>>
  <2>1. Shown' = Shown
    BY <1>2 DEF Shown
  <2> QED BY <1>1, <2>1, PrefixOfAll
<1>3. ASSUME NEW n \in Nat, selected \in Sessions, eventsOf' = selected, events' = Prefix(selected, n),
             eventsOf = selected => Len(events) <= n
      PROVE  IsPrefix(Shown, Shown')
  <2>1. Shown' = Prefix(selected, n)
    BY <1>3 DEF Shown
  <2>2. CASE eventsOf = selected
    <3>1. Shown = Prefix(selected, Len(events)) /\ Len(events) \in Nat /\ Len(events) <= n
      BY <1>3, <2>2 DEF Shown, FeedInv, EventsArePrefix, FeedType
    <3> QED BY <1>3, <2>1, <3>1, PrefixGrows
  <2>3. CASE eventsOf # selected
    <3>1. Shown = <<>>
      BY <2>3 DEF Shown
    <3> QED BY <1>1, <3>1, PrefixOfAll
  <2> QED BY <2>2, <2>3
<1>4. CASE FrameArrives
  <2>1. /\ eventsOf \in Sessions /\ eventsOf' = eventsOf /\ events' = Prefix(eventsOf, Len(events) + 1)
        /\ Len(events) \in Nat /\ selected = eventsOf
    BY <1>4, FrameStep DEF FeedInv, FeedType, FrameArrives, TabFollows
  <2>2. Len(events) + 1 \in Nat /\ Len(events) <= Len(events) + 1
    BY <2>1
  <2> QED BY <1>3, <2>1, <2>2
<1>5. CASE PageArrives
  BY <1>2, <1>3, <1>5, PageStep
<1>6. CASE Select \/ CatalogRefreshes
  BY <1>6, SelectStep
<1>7. CASE LoadFails \/ SourceFails
  BY <1>2, <1>7, WaitStep
<1>8. CASE \/ \E s \in Sessions : Append1(s) \/ Delete(s)
           \/ StoreFails \/ HostFails \/ HostEnds \/ HostStarts \/ StreamOpens \/ StreamCut \/ StreamSends \/ StreamPolls
           \/ TimerFires \/ UNCHANGED vars
  <2>1. UNCHANGED <<events, eventsOf>>
    BY <1>8 DEF Append1, Delete, StoreFails, HostFails, HostEnds, HostStarts, StreamOpens, StreamCut, StreamSends, StreamPolls,
                TimerFires, vars, view
  <2> QED BY <1>2, <2>1
<1> QED BY <1>4, <1>5, <1>6, <1>7, <1>8 DEF Next

-----------------------------------------------------------------------------
(***************************************************************************)
(* What is shown is the beginning of the selected session's committed      *)
(* history, event by event, however often the tab changed its session,     *)
(* lost its stream or raced a deletion (useSessionStream).                 *)
(***************************************************************************)
THEOREM ShowsPrefixCorrect == Spec => []ShowsPrefix
<1>1. FeedInv => ShowsPrefix
  <2> SUFFICES ASSUME FeedInv PROVE ShowsPrefix
    OBVIOUS
  <2>1. CASE eventsOf = selected /\ selected \in Sessions
    <3>1. /\ Shown = events /\ events = Prefix(selected, Len(events)) /\ Len(events) \in Nat /\ DOMAIN events = 1..Len(events)
          /\ Holds(selected, Len(events)) /\ committed[selected] \in Nat
      BY <2>1 DEF Shown, FeedInv, FeedType, EventsArePrefix
    <3>2. \A i \in 1..Len(events) : events[i] = <<selected, i>>
      BY <2>1, <3>1, PrefixIs
    <3> QED BY <2>1, <3>1, <3>2 DEF ShowsPrefix, Holds, Existing
  <2>2. CASE ~(eventsOf = selected /\ selected \in Sessions)
    <3>1. Shown = <<>> /\ DOMAIN Shown = {} /\ Len(Shown) = 0
      BY <2>2, ShownIs DEF Shown
    <3> QED BY <3>1 DEF ShowsPrefix, Existing, FeedInv, FeedType
  <2> QED BY <2>1, <2>2
<1> QED BY <1>1, FeedInitial, FeedStep, PTL DEF Spec

(***************************************************************************)
(* The stream joins the loaded history without a gap or a repetition:      *)
(* every frame on the wire of a live connection is the next event.         *)
(***************************************************************************)
THEOREM JoinIsExactCorrect == Spec => []JoinIsExact
<1>1. FeedInv => JoinIsExact
  <2> SUFFICES ASSUME FeedInv PROVE JoinIsExact
    OBVIOUS
  <2>1. DOMAIN wire = 1..Len(wire)
    BY DEF FeedInv, FeedType
  <2> QED BY <2>1 DEF JoinIsExact, FeedInv, StreamFollows
<1> QED BY <1>1, FeedInitial, FeedStep, PTL DEF Spec

(***************************************************************************)
(* While a session stays selected no event it showed disappears: a history *)
(* that is loaded again is no shorter than what was shown.                 *)
(***************************************************************************)
THEOREM NeverShrinksCorrect == Spec => NeverShrinks
<1>1. FeedInv /\ [Next]_vars => [selected' = selected => IsPrefix(Shown, Shown')]_vars
  BY ShownGrows
<1> QED BY <1>1, FeedInitial, FeedStep, PTL DEF Spec, NeverShrinks
=============================================================================
