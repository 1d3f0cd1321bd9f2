----------------------------- MODULE StreamProofs -----------------------------
(***************************************************************************)
(* What TLAPS proves of Stream, for any number of tabs, connections, rows   *)
(* and slots, any contents of the queue and any sizes of batches and pages: *)
(* type correctness, that slots are handlers, that the badge is what the    *)
(* handler told, and that the feed misses no row.                           *)
(***************************************************************************)
EXTENDS Stream, FiniteSetTheorems, SequenceTheorems, TLAPS

-----------------------------------------------------------------------------
(* The inductive invariant *)

\* Where a handler is while its browser is there, and once it has said hello.
Attached == {"start", "session", "queue", "audit", "idle", "ended"}
Greeted == Attached \ {"start"}

\* The slots, as a set of connections.
Holders == {c \in Conns : conn[c].pc \notin {"none", "ended"}}

\* A tab and its handler know of each other, a handler nobody listens to has
\* nothing on its connection, and a cursor is never ahead of the table.
TabTied(t) ==
  es[t].conn # Null =>
    /\ es[t].pc \in {"connecting", "open"}
    /\ conn[es[t].conn].pc \in Attached /\ conn[es[t].conn].tab = t

ConnTied(c) ==
  /\ conn[c].pc \in Attached => es[conn[c].tab].conn = c
  /\ conn[c].pc \notin Greeted => wire[c] = <<>>

HandlerFits(c) ==
  conn[c].pc \in Attached => conn[c].cursor <= newest /\ conn[c].n < StreamCatchUp

\* A source has heard its first hello when it has an event id to resume from.
SourceFits(t) ==
  /\ es[t].fresh <=> es[t].lastId = Null
  /\ es[t].lastId # Null => es[t].lastId <= newest

\* The events of w with an id come in the order of the ids, none of them past
\* the cursor; hello is the first of all; the browser's last id is before the
\* rows still to come.
Marks == {"hello", "audit"}

Ordered(w, cursor, lastId) ==
  /\ \A i \in DOMAIN w : w[i].name = "hello" => i = 1
  /\ \A i \in DOMAIN w : w[i].name \in Marks => w[i].id <= cursor
  /\ \A i, j \in DOMAIN w : i < j /\ w[i].name \in Marks /\ w[j].name = "audit" => w[i].id < w[j].id
  /\ lastId # Null => lastId <= cursor /\ \A i \in DOMAIN w : w[i].name = "audit" => lastId < w[i].id
  /\ lastId = Null => w # <<>> /\ w[1].name = "hello"

WireFits(c) == conn[c].pc \in Greeted => Ordered(wire[c], conn[c].cursor, es[conn[c].tab].lastId)

\* The last approvals event on w is what was told; when there is none the
\* badge is.
Telling(w, told, b) ==
  LET news == {i \in DOMAIN w : w[i].name = "approvals"} IN
  /\ news = {} => b.heard /\ b.count = told
  /\ \A i \in news : (\A j \in news : j <= i) => w[i].queue = told

BadgeFits(c) ==
  conn[c].pc \in Attached /\ conn[c].told # Null => Telling(wire[c], conn[c].told, badge[conn[c].tab])

\* What a source that lives and has started misses of the rows past a point.
Alive(t) == es[t].pc \in {"connecting", "open"}
Started(t) == es[t].conn # Null /\ conn[es[t].conn].pc \in Greeted
Reached(t, have, from) == \A id \in 1 .. newest : id > from => id \in have \cup Coming(t) \cup skipped[t]

FeedFits(t) ==
  LET f == feed[t] IN
  /\ f.pc = "shown" => f.shown # Null
  /\ Alive(t) /\ es[t].fresh /\ Started(t) => Reached(t, {}, 0)
  /\ Alive(t) /\ ~es[t].fresh =>
       /\ f.pc = "shown" => Reached(t, f.shown \cup f.held, f.top)
       /\ f.pc = "loading" /\ f.page # Null => Reached(t, f.buffer, f.top)

TabFits(t) == TabTied(t) /\ SourceFits(t) /\ FeedFits(t)
ConnFits(c) == ConnTied(c) /\ HandlerFits(c) /\ WireFits(c) /\ BadgeFits(c)

StreamInv ==
  /\ TypeOK
  /\ SlotsAreHandlers
  /\ \A t \in Tabs : TabFits(t)
  /\ \A c \in Conns : ConnFits(c)

-----------------------------------------------------------------------------
(* The slots *)

\* The connections are finitely many, so a slot more or less is one holder
\* more or less.
LEMMA HoldersAreFinite == IsFiniteSet(Holders) /\ Cardinality(Holders) \in Nat
<1>1. Holders \subseteq Conns
  BY DEF Holders
<1> QED
  BY <1>1, BoundsAssumption, FS_Subset, FS_CardinalityType

\* A slot taken below the cap is one holder more.
LEMMA SlotTaken ==
  ASSUME SlotsAreHandlers, NEW c, c \notin Holders, Holders' = Holders \cup {c},
         slots' = slots + 1, slots < MaxStreams
  PROVE  SlotsAreHandlers' /\ slots' \in Nat
<1>1. slots = Cardinality(Holders)
  BY DEF SlotsAreHandlers, Holders
<1>2. slots' = Cardinality(Holders')
  BY <1>1, HoldersAreFinite, FS_AddElement
<1> QED
  BY <1>1, <1>2, HoldersAreFinite, BoundsAssumption DEF SlotsAreHandlers, Holders

\* A slot given back is one holder less.
LEMMA SlotGiven ==
  ASSUME SlotsAreHandlers, NEW c \in Holders, Holders' = Holders \ {c}, slots' = slots - 1
  PROVE  SlotsAreHandlers' /\ slots' \in Nat
<1>1. slots = Cardinality(Holders) /\ slots <= MaxStreams
  BY DEF SlotsAreHandlers, Holders
<1>2. slots' = Cardinality(Holders')
  BY <1>1, HoldersAreFinite, FS_RemoveElement
<1>3. Cardinality(Holders) # 0
  BY HoldersAreFinite, FS_EmptySet
<1> QED
  BY <1>1, <1>2, <1>3, HoldersAreFinite, BoundsAssumption DEF SlotsAreHandlers, Holders

\* While no handler comes or goes the slots stay right.
LEMMA SlotsKept ==
  ASSUME SlotsAreHandlers, Holders' = Holders, slots' = slots
  PROVE  SlotsAreHandlers' /\ slots' \in Nat
BY HoldersAreFinite DEF SlotsAreHandlers, Holders

-----------------------------------------------------------------------------
(* Types of parts *)

\* Where a connection's handler is tells what it is.
LEMMA HandlerTyped ==
  ASSUME TypeOK, NEW c \in Conns
  PROVE  /\ conn[c].pc \in Attached <=> conn[c] \in Handlers
         /\ conn[c] = NoConn <=> conn[c].pc = "none"
         /\ conn[c] = Left <=> conn[c].pc = "left"
BY DEF TypeOK, Handlers, NoConn, Left, Attached

\* What is on a connection, one event at a time.
LEMMA EventTyped ==
  ASSUME NEW w \in Seq(Events), NEW i \in DOMAIN w
  PROVE  /\ i \in Nat /\ w[i] \in Events
         /\ w[i].name \in {"hello", "audit", "approvals", "expired"}
         /\ w[i].name \in Marks => w[i].id \in 0 .. MaxRows
         /\ w[i].name = "approvals" => w[i].queue \in Queues
<1>1. i \in 1 .. Len(w) /\ w[i] \in Events
  OBVIOUS
<1> QED
  BY <1>1 DEF Events, Marks

-----------------------------------------------------------------------------
(* The steps of a handler that has said hello *)

\* The rows on a connection.
RowsOn(w) == {w[i].id : i \in {j \in DOMAIN w : w[j].name = "audit"}}

\* What a handler writes as its cursor goes from one row to another: every
\* row in between, in order, and the queue if it tells another one.
Speaks(events, from, to, told, next) ==
  /\ events \in Seq(Events)
  /\ \A i \in DOMAIN events : events[i].name # "hello"
  /\ \A i \in DOMAIN events : events[i].name = "audit" => from < events[i].id /\ events[i].id <= to
  /\ \A i, j \in DOMAIN events :
       i < j /\ events[i].name = "audit" /\ events[j].name = "audit" => events[i].id < events[j].id
  /\ \A id \in RowIds : id > from => id \in RowsOn(events) \/ id > to
  /\ \/ next = told /\ \A i \in DOMAIN events : events[i].name # "approvals"
     \/ events = <<[name |-> "approvals", queue |-> next]>>

Moves(c, new, events) ==
  /\ conn[c].pc \in Greeted \ {"ended"}
  /\ new.tab = conn[c].tab /\ new.pc \in Greeted
  /\ conn[c].cursor <= new.cursor /\ new.cursor <= newest /\ new.n < StreamCatchUp
  /\ Speaks(events, conn[c].cursor, new.cursor, conn[c].told, new.told)
  /\ conn' = [conn EXCEPT ![c] = new]
  /\ wire' = [wire EXCEPT ![c] = @ \o events]
  /\ slots' = IF new.pc = "ended" THEN slots - 1 ELSE slots
  /\ UNCHANGED <<newest, tab>> /\ queue' \in Queues /\ sessionLive' \in BOOLEAN

\* Saying nothing, or that the session is over, moves no cursor.
LEMMA SpeaksOfNothing ==
  ASSUME NEW from \in 0 .. MaxRows, NEW told
  PROVE  /\ Speaks(<<>>, from, from, told, told)
         /\ Speaks(<<[name |-> "expired"]>>, from, from, told, told)
<1>1. <<>> \in Seq(Events) /\ DOMAIN <<>> = {}
  OBVIOUS
<1>2. [name |-> "expired"] \in Events /\ [name |-> "expired"].name = "expired"
  BY DEF Events
<1>3. <<[name |-> "expired"]>> \in Seq(Events) /\ DOMAIN <<[name |-> "expired"]>> = {1}
      /\ <<[name |-> "expired"]>>[1].name = "expired"
  BY <1>2
<1> QED
  BY <1>1, <1>3, BoundsAssumption DEF Speaks, RowIds

\* Telling the queue moves no cursor either.
LEMMA SpeaksOfQueue ==
  ASSUME NEW from \in 0 .. MaxRows, NEW told, NEW q \in Queues
  PROVE  Speaks(<<[name |-> "approvals", queue |-> q]>>, from, from, told, q)
<1> DEFINE e == [name |-> "approvals", queue |-> q]
<1>1. e \in Events /\ e.name = "approvals"
  BY DEF Events
<1> HIDE DEF e
<1>2. <<e>> \in Seq(Events) /\ DOMAIN <<e>> = {1} /\ <<e>>[1] = e
  BY <1>1
<1>3. Speaks(<<e>>, from, from, told, q) \/ <<e>> # <<[name |-> "approvals", queue |-> q]>>
  BY <1>1, <1>2, BoundsAssumption DEF Speaks, RowIds
<1> QED
  BY <1>3 DEF e

\* A page of rows is all the rows it covers.
LEMMA SpeaksOfRows ==
  ASSUME NEW from \in 0 .. MaxRows, NEW to \in 0 .. MaxRows, from <= to, NEW told
  PROVE  Speaks([i \in 1 .. to - from |-> [name |-> "audit", id |-> from + i]], from, to, told, told)
<1> DEFINE events == [i \in 1 .. to - from |-> [name |-> "audit", id |-> from + i]]
<1>0. MaxRows \in Nat /\ to - from \in Nat
  BY BoundsAssumption
<1>1. DOMAIN events = 1 .. to - from
  OBVIOUS
<1>2. \A i \in 1 .. to - from : events[i].name = "audit" /\ events[i].id = from + i /\ events[i] \in Events
  BY <1>0 DEF Events
<1>3. events \in Seq(Events)
  <2> HIDE DEF events
  <2>1. events \in [1 .. to - from -> Events]
    BY <1>1, <1>2 DEF events
  <2> QED
    BY <1>0, <2>1, SeqDef
<1> HIDE DEF events
<1>4. ASSUME NEW id \in RowIds, id > from PROVE id \in RowsOn(events) \/ id > to
  <2>1. CASE id <= to
    <3>1. id - from \in 1 .. to - from /\ from + (id - from) = id
      BY <1>0, <1>4, <2>1 DEF RowIds
    <3> QED
      BY <1>1, <1>2, <3>1 DEF RowsOn
  <2> QED
    BY <1>0, <2>1 DEF RowIds
<1>5. \A i \in DOMAIN events : from < events[i].id /\ events[i].id <= to
  BY <1>0, <1>1, <1>2
<1>6. \A i, j \in DOMAIN events : i < j => events[i].id < events[j].id
  BY <1>0, <1>1, <1>2
<1>7. \A i \in DOMAIN events : events[i].name = "audit"
  BY <1>1, <1>2
<1>8. Speaks(events, from, to, told, told)
  BY <1>3, <1>4, <1>5, <1>6, <1>7 DEF Speaks
<1> QED
  BY <1>8 DEF events

\* Writing nothing.
LEMMA WritesNothing ==
  ASSUME TypeOK, NEW c \in Conns
  PROVE  [wire EXCEPT ![c] = @ \o <<>>] = wire
<1>1. wire[c] \in Seq(Events) /\ wire \in [Conns -> Seq(Events)]
  BY DEF TypeOK
<1>2. wire[c] \o <<>> = wire[c]
  BY <1>1, ConcatEmptySeq
<1> QED
  BY <1>1, <1>2

\* Each statement of a poll, and each end of a handler, is such a step.
LEMMA PollMoves ==
  ASSUME StreamInv, NEW c \in Conns,
         PollSession(c) \/ PollQueue(c) \/ PollAudit(c) \/ PollAgain(c) \/ HandlerStops(c)
  PROVE  \E new \in Handlers : \E events \in Seq(Events) : Moves(c, new, events)
<1> DEFINE h == conn[c]
           w == wire[c]
<1>0. /\ conn[c].pc \in {"session", "queue", "audit", "idle"} /\ UNCHANGED <<store, tab>>
  BY DEF PollSession, PollQueue, PollAudit, PollAgain, HandlerStops, Streaming
<1>1. /\ h \in Handlers /\ h.cursor <= newest /\ h.n < StreamCatchUp
      /\ h.pc \in Greeted \ {"ended"} /\ newest' = newest /\ queue' \in Queues /\ sessionLive' \in BOOLEAN
      /\ UNCHANGED <<newest, tab>>
  BY <1>0, HandlerTyped DEF StreamInv, ConnFits, HandlerFits, Attached, Greeted, store, TypeOK
<1>2. h.cursor \in 0 .. MaxRows /\ newest \in 0 .. MaxRows /\ MaxRows \in Nat /\ queue \in Queues /\ h.n \in Nat
  BY <1>1, BoundsAssumption DEF Handlers, StreamInv, TypeOK
<1>3. \A pc \in Greeted : /\ [h EXCEPT !.pc = pc] \in Handlers /\ [h EXCEPT !.pc = pc].pc = pc
                          /\ [h EXCEPT !.pc = pc].tab = h.tab /\ [h EXCEPT !.pc = pc].cursor = h.cursor
                          /\ [h EXCEPT !.pc = pc].n = h.n /\ [h EXCEPT !.pc = pc].told = h.told
  BY <1>1 DEF Handlers, Greeted, Attached
<1>4. ASSUME NEW pc \in Greeted, pc # "ended", conn' = [conn EXCEPT ![c].pc = pc], UNCHANGED <<slots, wire>>
      PROVE  \E new \in Handlers : \E events \in Seq(Events) : Moves(c, new, events)
  <2>1. wire' = [wire EXCEPT ![c] = @ \o <<>>]
    BY <1>4, WritesNothing DEF StreamInv
  <2>2. conn' = [conn EXCEPT ![c] = [h EXCEPT !.pc = pc]]
    BY <1>4
  <2>3. Speaks(<<>>, h.cursor, h.cursor, h.told, h.told)
    BY <1>2, SpeaksOfNothing
  <2> HIDE DEF h
  <2>4. /\ Speaks(<<>>, conn[c].cursor, [h EXCEPT !.pc = pc].cursor, conn[c].told, [h EXCEPT !.pc = pc].told)
        /\ conn[c].cursor <= [h EXCEPT !.pc = pc].cursor
    BY <1>2, <1>3, <2>3 DEF h
  <2>5. Moves(c, [h EXCEPT !.pc = pc], <<>>)
    BY <1>1, <1>3, <1>4, <2>1, <2>2, <2>4 DEF Moves, h
  <2>6. <<>> \in Seq(Events) /\ [h EXCEPT !.pc = pc] \in Handlers
    BY <1>3
  <2> QED
    BY <2>5, <2>6
<1>5. CASE PollAgain(c)
  BY <1>4, <1>5 DEF PollAgain, Greeted, Attached
<1>6. CASE PollSession(c) /\ sessionLive
  BY <1>4, <1>6 DEF PollSession, Greeted, Attached
<1>7. ASSUME EndHandler(c), NEW events \in {<<>>, <<[name |-> "expired"]>>}, wire' = [wire EXCEPT ![c] = @ \o events]
      PROVE  \E new \in Handlers : \E ev \in Seq(Events) : Moves(c, new, ev)
  <2> DEFINE new == [h EXCEPT !.pc = "ended"]
  <2>1. conn' = [conn EXCEPT ![c] = new] /\ slots' = slots - 1
    BY <1>7 DEF EndHandler
  <2>2. new \in Handlers /\ new.pc = "ended" /\ new.tab = h.tab /\ new.cursor = h.cursor /\ new.n = h.n /\ new.told = h.told
    BY <1>3 DEF Greeted, Attached
  <2>3. Speaks(events, h.cursor, h.cursor, h.told, h.told)
    BY <1>2, <1>7, SpeaksOfNothing
  <2>4. events \in Seq(Events)
    BY <2>3 DEF Speaks
  <2> HIDE DEF new, h
  <2>5. Moves(c, new, events)
    BY <1>1, <1>2, <1>7, <2>1, <2>2, <2>3 DEF Moves, h, Greeted, Attached
  <2> QED
    BY <2>2, <2>4, <2>5
<1>8. CASE PollSession(c) /\ ~sessionLive
  BY <1>7, <1>8 DEF PollSession, Write
<1>9. CASE HandlerStops(c)
  <2>1. wire' = [wire EXCEPT ![c] = @ \o <<>>]
    BY <1>9, WritesNothing DEF StreamInv, HandlerStops
  <2> QED
    BY <1>7, <1>9, <2>1 DEF HandlerStops
<1>10. CASE PollQueue(c)
  <2> DEFINE new == [h EXCEPT !.pc = "audit", !.told = queue]
             ev  == [name |-> "approvals", queue |-> queue]
  <2>1. /\ new \in Handlers /\ new.pc = "audit" /\ new.tab = h.tab /\ new.cursor = h.cursor
        /\ new.n = h.n /\ new.told = queue
    BY <1>1, <1>2 DEF Handlers
  <2>2. conn' = [conn EXCEPT ![c] = new] /\ slots' = slots
    BY <1>10 DEF PollQueue
  <2>3. CASE h.told # queue
    <3>1. wire' = [wire EXCEPT ![c] = @ \o <<ev>>]
      BY <1>10, <2>3 DEF PollQueue, Write
    <3>2. Speaks(<<ev>>, h.cursor, h.cursor, h.told, queue)
      BY <1>2, SpeaksOfQueue
    <3>3. <<ev>> \in Seq(Events)
      BY <3>2 DEF Speaks
    <3> HIDE DEF new, h, ev
    <3>4. Moves(c, new, <<ev>>)
      BY <1>1, <1>2, <2>1, <2>2, <3>1, <3>2 DEF Moves, h, Greeted, Attached
    <3> QED
      BY <2>1, <3>3, <3>4
  <2>4. CASE h.told = queue
    <3>1. wire' = [wire EXCEPT ![c] = @ \o <<>>]
      BY <1>10, <2>4, WritesNothing DEF StreamInv, PollQueue
    <3>2. Speaks(<<>>, h.cursor, h.cursor, h.told, queue)
      BY <1>2, <2>4, SpeaksOfNothing
    <3>3. <<>> \in Seq(Events)
      OBVIOUS
    <3> HIDE DEF new, h
    <3>4. Moves(c, new, <<>>)
      BY <1>1, <1>2, <2>1, <2>2, <3>1, <3>2 DEF Moves, h, Greeted, Attached
    <3> QED
      BY <2>1, <3>3, <3>4
  <2> QED
    BY <2>3, <2>4
<1>11. CASE PollAudit(c)
  <2> DEFINE want == Least(StreamBatch, StreamCatchUp - conn[c].n)
             from == conn[c].cursor
             to   == Least(newest, from + want)
             n    == conn[c].n + (to - from)
             ev   == [i \in 1 .. to - from |-> [name |-> "audit", id |-> from + i]]
             idle == [conn[c] EXCEPT !.cursor = to, !.n = 0, !.pc = "idle"]
             more == [conn[c] EXCEPT !.cursor = to, !.n = n]
             new  == IF to - from < want \/ n >= StreamCatchUp THEN idle ELSE more
  <2>1. conn' = [conn EXCEPT ![c] = new] /\ slots' = slots /\ wire' = [wire EXCEPT ![c] = @ \o ev]
    BY <1>11 DEF PollAudit, Write
  <2>2. want \in Nat /\ from \in Nat /\ newest \in Nat
    BY <1>1, <1>2, BoundsAssumption DEF Least
  <2>3. to \in 0 .. MaxRows /\ from <= to /\ to <= newest
    BY <1>1, <1>2, <2>2 DEF Least
  <2>4. n \in Nat
    BY <1>2, <2>2, <2>3
  <2>5. /\ idle \in Handlers /\ idle.pc = "idle" /\ idle.tab = h.tab /\ idle.cursor = to /\ idle.n = 0 /\ idle.told = h.told
    BY <1>1, <2>3 DEF Handlers
  <2>6. /\ more \in Handlers /\ more.pc = h.pc /\ more.tab = h.tab /\ more.cursor = to /\ more.n = n /\ more.told = h.told
    BY <1>1, <2>3, <2>4 DEF Handlers
  <2>7. Speaks(ev, h.cursor, to, h.told, h.told)
    BY <1>2, <2>3, SpeaksOfRows
  <2>8. ev \in Seq(Events)
    BY <2>7 DEF Speaks
  <2> HIDE DEF want, to, n, ev, idle, more
  <2>9. /\ new \in Handlers /\ new.pc \in Greeted \ {"ended"} /\ new.tab = h.tab /\ new.cursor = to
        /\ new.n < StreamCatchUp /\ new.told = h.told
    BY <1>1, <2>4, <2>5, <2>6, BoundsAssumption DEF Greeted, Attached
  <2> HIDE DEF new, h, from
  <2>10. Moves(c, new, ev)
    BY <1>1, <1>2, <2>1, <2>3, <2>7, <2>9 DEF Moves, h, from
  <2> QED
    BY <2>8, <2>9, <2>10
<1> QED
  BY <1>5, <1>6, <1>8, <1>9, <1>10, <1>11 DEF PollSession

-----------------------------------------------------------------------------
(* What a step leaves alone *)

\* A tab keeps what fits it when nothing of it changes, nor its connection.
LEMMA TabLeftAlone ==
  ASSUME TypeOK, NEW u \in Tabs, TabFits(u), newest' = newest,
         es'[u] = es[u], feed'[u] = feed[u], skipped'[u] = skipped[u],
         es[u].conn # Null => conn'[es[u].conn] = conn[es[u].conn] /\ wire'[es[u].conn] = wire[es[u].conn]
  PROVE  TabFits(u)'
<1>0. es[u].conn # Null => AuditOn(es[u].conn)' = AuditOn(es[u].conn)
  BY DEF AuditOn
<1>1. Coming(u)' = Coming(u) /\ Started(u)' = Started(u) /\ Alive(u)' = Alive(u)
  BY <1>0 DEF Coming, Started, Alive, resumeCursor
<1>2. TabTied(u)' /\ SourceFits(u)'
  BY DEF TabFits, TabTied, SourceFits
<1>3. \A have, from : Reached(u, have, from) => Reached(u, have, from)'
  BY <1>1 DEF Reached
<1>4. FeedFits(u)'
  BY <1>1, <1>3 DEF TabFits, FeedFits
<1> QED
  BY <1>2, <1>4 DEF TabFits

\* So does a connection, when nothing changes of it, of the source of its tab
\* and of what its tab counts.
LEMMA ConnLeftAlone ==
  ASSUME NEW c \in Conns, ConnFits(c), newest' = newest, conn'[c] = conn[c], wire'[c] = wire[c],
         conn[c].pc \in Attached => LET u == conn[c].tab IN
           es'[u] = es[u] /\ badge'[u].heard = badge[u].heard
           /\ (badge[u].heard => badge'[u].count = badge[u].count)
  PROVE  ConnFits(c)'
<1>1. ConnTied(c)' /\ HandlerFits(c)' /\ WireFits(c)'
  BY DEF ConnFits, ConnTied, HandlerFits, WireFits, Attached, Greeted
<1>2. BadgeFits(c)'
  BY DEF ConnFits, BadgeFits, Telling
<1> QED
  BY <1>1, <1>2 DEF ConnFits

\* A feed misses nothing more when its source still has as much to hear.
LEMMA FeedKept ==
  ASSUME NEW u \in Tabs, FeedFits(u), newest' = newest, feed'[u] = feed[u], es'[u].fresh = es[u].fresh,
         Alive(u)' => Alive(u), ~es[u].fresh => Coming(u) \subseteq Coming(u)', skipped[u] \subseteq skipped'[u],
         es[u].fresh /\ Started(u)' => Started(u) /\ Coming(u) \subseteq Coming(u)'
  PROVE  FeedFits(u)'
<1>1. ASSUME Coming(u) \subseteq Coming(u)' PROVE \A have, from : Reached(u, have, from) => Reached(u, have, from)'
  BY <1>1 DEF Reached
<1> QED
  BY <1>1 DEF FeedFits

-----------------------------------------------------------------------------
(* The steps that change one thing *)

\* A row more in the table is a row to come for every source that lives.
LEMMA AppendAuditKeeps == StreamInv /\ AppendAudit => StreamInv'
<1> SUFFICES ASSUME StreamInv, AppendAudit PROVE StreamInv'
  OBVIOUS
<1>0. /\ newest < MaxRows /\ newest' = newest + 1 /\ newest \in 0 .. MaxRows /\ MaxRows \in Nat
      /\ UNCHANGED <<queue, sessionLive, slots, conn, wire, es, badge, feed, skipped>>
  BY BoundsAssumption DEF AppendAudit, server, tab, StreamInv, TypeOK
<1>1. TypeOK'
  BY <1>0 DEF StreamInv, TypeOK
<1>2. SlotsAreHandlers'
  BY <1>0 DEF StreamInv, SlotsAreHandlers
<1>3. ASSUME NEW c \in Conns PROVE ConnFits(c)'
  <2>1. conn[c].pc \in Attached => conn[c].cursor \in Nat
    BY HandlerTyped DEF StreamInv, Handlers
  <2> QED
    BY <1>0, <2>1 DEF StreamInv, ConnFits, ConnTied, HandlerFits, WireFits, BadgeFits
<1>4. ASSUME NEW t \in Tabs PROVE TabFits(t)'
  <2>1. es[t].lastId # Null => es[t].lastId \in Nat /\ es[t].lastId <= newest
    BY DEF StreamInv, TabFits, SourceFits, TypeOK, Sources
  <2>2. TabTied(t)' /\ SourceFits(t)'
    BY <1>0, <2>1 DEF StreamInv, TabFits, TabTied, SourceFits
  <2>3. es[t].conn # Null => conn[es[t].conn].cursor \in Nat /\ conn[es[t].conn].cursor <= newest
    <3> SUFFICES ASSUME es[t].conn # Null PROVE conn[es[t].conn].cursor \in Nat /\ conn[es[t].conn].cursor <= newest
      OBVIOUS
    <3>1. es[t].conn \in Conns
      BY DEF StreamInv, TypeOK, Sources
    <3>2. conn[es[t].conn].pc \in Attached
      BY DEF StreamInv, TabFits, TabTied
    <3> QED
      BY <3>1, <3>2, HandlerTyped DEF StreamInv, ConnFits, HandlerFits, Handlers
  <2>4. ASSUME ~es[t].fresh \/ Started(t)
        PROVE  /\ \A id \in 1 .. newest : id \in Coming(t) => id \in Coming(t)'
               /\ newest + 1 \in Coming(t)' \/ (es[t].conn = Null /\ es[t].lastId = Null)
    <3>1. ~es[t].fresh => es[t].lastId # Null
      BY DEF StreamInv, TabFits, SourceFits
    <3>2. newest + 1 \in RowIds
      BY <1>0 DEF RowIds
    <3>3. es[t].lastId # Null => resumeCursor(es[t].lastId) = es[t].lastId /\ resumeCursor(es[t].lastId)' = es[t].lastId
      BY <1>0, <2>1 DEF resumeCursor
    <3>4. Started(t) => conn[es[t].conn].pc # "start" /\ es[t].conn # Null
      BY DEF Started, Greeted
    <3>5. CASE es[t].conn = Null
      BY <1>0, <2>1, <3>1, <3>2, <3>5 DEF Coming
    <3>6. CASE es[t].conn # Null /\ conn[es[t].conn].pc = "start"
      BY <1>0, <2>1, <2>4, <3>1, <3>2, <3>3, <3>4, <3>6 DEF Coming
    <3>7. CASE es[t].conn # Null /\ conn[es[t].conn].pc # "start"
      BY <1>0, <2>3, <3>2, <3>7 DEF Coming, AuditOn
    <3> QED
      BY <3>5, <3>6, <3>7
  <2>5. ASSUME NEW have, NEW from, Reached(t, have, from), ~es[t].fresh \/ Started(t)
        PROVE  Reached(t, have, from)'
    <3>1. ~es[t].fresh => es[t].lastId # Null
      BY DEF StreamInv, TabFits, SourceFits
    <3>2. Started(t) => es[t].conn # Null
      BY DEF Started
    <3>3. \A id \in 1 .. newest + 1 : id \in 1 .. newest \/ id = newest + 1
      BY <1>0
    <3> QED
      BY <1>0, <2>4, <2>5, <3>1, <3>2, <3>3 DEF Reached
  <2>6. FeedFits(t)'
    BY <1>0, <2>5 DEF StreamInv, TabFits, FeedFits, Alive, Started
  <2> QED
    BY <2>2, <2>6 DEF TabFits
<1> QED
  BY <1>1, <1>2, <1>3, <1>4 DEF StreamInv

\* The invariant says nothing of the queue in the store, nor of the session.
LEMMA StoreKeeps == StreamInv /\ (ChangeQueue \/ EndSession) => StreamInv'
<1> SUFFICES ASSUME StreamInv, ChangeQueue \/ EndSession PROVE StreamInv'
  OBVIOUS
<1>0. UNCHANGED <<newest, slots, conn, wire, es, badge, feed, skipped>>
  BY DEF ChangeQueue, EndSession, server, tab
<1>1. TypeOK'
  BY <1>0 DEF StreamInv, TypeOK, ChangeQueue, EndSession
<1>2. SlotsAreHandlers'
  BY <1>0 DEF StreamInv, SlotsAreHandlers
<1>3. ASSUME NEW c \in Conns PROVE ConnFits(c)'
  BY <1>0, ConnLeftAlone DEF StreamInv
<1>4. ASSUME NEW t \in Tabs PROVE TabFits(t)'
  BY <1>0, TabLeftAlone DEF StreamInv
<1> QED
  BY <1>1, <1>2, <1>3, <1>4 DEF StreamInv

\* A step of a feed alone has to say what the new feed is missing.
LEMMA FeedStepKeeps ==
  ASSUME StreamInv, NEW t \in Tabs, NEW f \in Feeds, feed' = [feed EXCEPT ![t] = f],
         UNCHANGED <<store, server, es, badge, skipped>>,
         f.pc = "shown" => f.shown # Null,
         Alive(t) /\ ~es[t].fresh =>
           /\ f.pc = "shown" => Reached(t, f.shown \cup f.held, f.top)
           /\ f.pc = "loading" /\ f.page # Null => Reached(t, f.buffer, f.top)
  PROVE  StreamInv'
<1>0. /\ UNCHANGED <<newest, queue, sessionLive, slots, conn, wire, es, badge, skipped>>
      /\ feed'[t] = f /\ \A u \in Tabs \ {t} : feed'[u] = feed[u]
  BY DEF store, server, StreamInv, TypeOK
<1>1. TypeOK'
  BY <1>0 DEF StreamInv, TypeOK
<1>2. SlotsAreHandlers'
  BY <1>0 DEF StreamInv, SlotsAreHandlers
<1>3. ASSUME NEW c \in Conns PROVE ConnFits(c)'
  BY <1>0, ConnLeftAlone DEF StreamInv
<1>4. ASSUME NEW u \in Tabs \ {t} PROVE TabFits(u)'
  BY <1>0, TabLeftAlone DEF StreamInv
<1>5. TabFits(t)'
  <2>1. TabTied(t)' /\ SourceFits(t)'
    BY <1>0 DEF StreamInv, TabFits, TabTied, SourceFits
  <2>2. Coming(t)' = Coming(t) /\ Started(t)' = Started(t) /\ Alive(t)' = Alive(t)
    BY <1>0 DEF Coming, Started, Alive, AuditOn, resumeCursor
  <2>3. \A have, from : Reached(t, have, from) => Reached(t, have, from)'
    BY <1>0, <2>2 DEF Reached
  <2>4. FeedFits(t)
    BY DEF StreamInv, TabFits
  <2>5. FeedFits(t)'
    BY <1>0, <2>2, <2>3, <2>4 DEF FeedFits
  <2> QED
    BY <2>1, <2>5 DEF TabFits
<1> QED
  BY <1>1, <1>2, <1>3, <1>4, <1>5 DEF StreamInv

\* The feed's own steps: what lands is the page with all that came meanwhile,
\* and the page has every row up to the newest.
LEMMA FeedKeeps ==
  ASSUME StreamInv, NEW t \in Tabs,
         FeedLoad(t) \/ FeedRead(t) \/ FeedLands(t) \/ FeedFails(t) \/ ShowNew(t) \/ FeedLeave(t)
  PROVE  StreamInv'
<1> DEFINE g == feed[t]
<1>1. g \in Feeds /\ FeedFits(t) /\ newest \in 0 .. MaxRows /\ MaxRows \in Nat
  BY BoundsAssumption DEF StreamInv, TabFits, TypeOK
<1>2. CASE FeedLoad(t)
  <2> DEFINE f == [g EXCEPT !.pc = "loading", !.page = Null, !.held = {}, !.buffer = {}]
  <2>1. f \in Feeds /\ f.pc = "loading" /\ f.page = Null
    BY <1>1 DEF Feeds
  <2>2. feed' = [feed EXCEPT ![t] = f] /\ UNCHANGED <<store, server, es, badge, skipped>>
    BY <1>2 DEF FeedLoad
  <2> HIDE DEF f
  <2> QED
    BY <2>1, <2>2, FeedStepKeeps
<1>3. CASE FeedRead(t)
  <2> DEFINE page == {id \in 1 .. newest : id + PageRows > newest}
             f    == [g EXCEPT !.top = newest, !.page = page]
  <2>1. page \in SUBSET RowIds
    BY <1>1 DEF RowIds
  <2>2. f \in Feeds /\ f.pc = "loading" /\ f.top = newest
    BY <1>1, <1>3, <2>1 DEF Feeds, FeedRead
  <2>3. feed' = [feed EXCEPT ![t] = f] /\ UNCHANGED <<store, server, es, badge, skipped>>
    BY <1>3 DEF FeedRead
  <2>4. \A have : Reached(t, have, newest)
    BY <1>1 DEF Reached
  <2> HIDE DEF f
  <2> QED
    BY <2>2, <2>3, <2>4, FeedStepKeeps
<1>4. CASE FeedLands(t)
  <2> DEFINE shown == g.page \cup g.buffer
             f     == [g EXCEPT !.pc = "shown", !.shown = shown, !.page = Null, !.buffer = {}]
  <2>1. g.pc = "loading" /\ g.page # Null /\ g.page \in SUBSET RowIds /\ g.buffer \in SUBSET RowIds
    BY <1>1, <1>4 DEF FeedLands, Feeds
  <2>2. shown \in SUBSET RowIds /\ g.buffer \subseteq shown
    BY <2>1
  <2> HIDE DEF shown
  <2>3. f \in Feeds /\ f.pc = "shown" /\ f.shown = shown /\ f.top = g.top
    BY <1>1, <2>2 DEF Feeds
  <2>4. shown # Null
    BY <2>2, NullAssumption DEF RowIds
  <2>5. feed' = [feed EXCEPT ![t] = f] /\ UNCHANGED <<store, server, es, badge, skipped>>
    BY <1>4 DEF FeedLands, shown
  <2>6. Alive(t) /\ ~es[t].fresh => Reached(t, g.buffer, g.top)
    BY <1>1, <2>1 DEF FeedFits
  <2> HIDE DEF f, g
  <2>7. Reached(t, g.buffer, g.top) => Reached(t, f.shown \cup f.held, f.top)
    BY <2>2, <2>3 DEF Reached
  <2> QED
    BY <2>3, <2>4, <2>5, <2>6, <2>7, FeedStepKeeps
<1>5. CASE FeedFails(t)
  <2> DEFINE f == [g EXCEPT !.pc = "failed", !.page = Null]
  <2>1. f \in Feeds /\ f.pc = "failed"
    BY <1>1 DEF Feeds
  <2>2. feed' = [feed EXCEPT ![t] = f] /\ UNCHANGED <<store, server, es, badge, skipped>>
    BY <1>5 DEF FeedFails
  <2> HIDE DEF f
  <2> QED
    BY <2>1, <2>2, FeedStepKeeps
<1>6. CASE ShowNew(t)
  <2> DEFINE shown == FoldIn(g.shown, g.held)
             f     == [g EXCEPT !.shown = shown, !.held = {}]
  <2>1. /\ g.held \in SUBSET RowIds /\ g.shown \in (SUBSET RowIds) \cup {Null} /\ g.page \in (SUBSET RowIds) \cup {Null}
    BY <1>1 DEF Feeds
  <2>2. g.shown # Null => shown \in SUBSET RowIds /\ shown = g.shown \cup g.held
    BY <2>1 DEF FoldIn
  <2>3. g.shown = Null => shown = Null
    BY DEF FoldIn
  <2> HIDE DEF shown
  <2>4. shown # Null <=> g.shown # Null
    BY <2>2, <2>3, NullAssumption DEF RowIds
  <2>5. /\ f \in Feeds /\ f.pc = g.pc /\ f.shown = shown /\ f.held = {} /\ f.top = g.top
        /\ f.page = g.page /\ f.buffer = g.buffer
    BY <1>1, <2>1, <2>2, <2>3 DEF Feeds
  <2>6. feed' = [feed EXCEPT ![t] = f] /\ UNCHANGED <<store, server, es, badge, skipped>>
    BY <1>6 DEF ShowNew, shown
  <2>7. g.pc = "shown" => f.shown \cup f.held = g.shown \cup g.held
    BY <1>1, <2>2, <2>5 DEF FeedFits
  <2>8. /\ f.pc = "shown" => f.shown # Null
        /\ Alive(t) /\ ~es[t].fresh =>
             /\ f.pc = "shown" => Reached(t, f.shown \cup f.held, f.top)
             /\ f.pc = "loading" /\ f.page # Null => Reached(t, f.buffer, f.top)
    BY <1>1, <2>4, <2>5, <2>7 DEF FeedFits
  <2> HIDE DEF f
  <2> QED
    BY <2>5, <2>6, <2>8, FeedStepKeeps
<1>7. CASE FeedLeave(t)
  <2>1. NoFeed \in Feeds /\ NoFeed.pc = "off"
    BY <1>1 DEF NoFeed, Feeds
  <2>2. feed' = [feed EXCEPT ![t] = NoFeed] /\ UNCHANGED <<store, server, es, badge, skipped>>
    BY <1>7 DEF FeedLeave
  <2> QED
    BY <2>1, <2>2, FeedStepKeeps
<1> QED
  BY <1>2, <1>3, <1>4, <1>5, <1>6, <1>7

\* The first count is read at any time, but once an event was heard it is
\* what that said that stays.
LEMMA CountKeeps == ASSUME StreamInv, NEW t \in Tabs, CountRead(t) \/ CountLands(t) PROVE StreamInv'
<1>0. /\ UNCHANGED <<newest, queue, sessionLive, slots, conn, wire, es, feed, skipped>>
      /\ badge[t] \in Badges /\ queue \in Queues /\ badge \in [Tabs -> Badges]
  BY DEF CountRead, CountLands, store, server, StreamInv, TypeOK
<1>1. badge' \in [Tabs -> Badges] /\ \A u \in Tabs : badge'[u].heard = badge[u].heard
      /\ (badge[u].heard => badge'[u].count = badge[u].count)
  <2>1. CASE CountRead(t)
    <3>1. [badge[t] EXCEPT !.fetch = queue] \in Badges
      BY <1>0 DEF Badges
    <3> QED
      BY <1>0, <2>1, <3>1 DEF CountRead, Badges
  <2>2. CASE CountLands(t)
    <3> DEFINE b == [badge[t] EXCEPT !.fetch = "none", !.count = IF badge[t].heard THEN @ ELSE badge[t].fetch]
    <3>1. b \in Badges /\ b.heard = badge[t].heard /\ (b.heard => b.count = badge[t].count)
      BY <1>0, <2>2 DEF Badges, CountLands
    <3>2. badge' = [badge EXCEPT ![t] = b]
      BY <2>2 DEF CountLands
    <3> HIDE DEF b
    <3> QED
      BY <1>0, <3>1, <3>2
  <2> QED
    BY <2>1, <2>2
<1>2. TypeOK'
  BY <1>0, <1>1 DEF StreamInv, TypeOK
<1>3. SlotsAreHandlers'
  BY <1>0 DEF StreamInv, SlotsAreHandlers
<1>4. ASSUME NEW c \in Conns PROVE ConnFits(c)'
  <2>1. conn[c].pc \in Attached => conn[c].tab \in Tabs
    BY HandlerTyped DEF StreamInv, Handlers
  <2> QED
    BY <1>0, <1>1, <2>1, ConnLeftAlone DEF StreamInv
<1>5. ASSUME NEW u \in Tabs PROVE TabFits(u)'
  BY <1>0, TabLeftAlone DEF StreamInv
<1> QED
  BY <1>2, <1>3, <1>4, <1>5 DEF StreamInv

\* A source without a connection that becomes another one.
LEMMA SourceStepKeeps ==
  ASSUME StreamInv, NEW t \in Tabs, NEW s \in Sources, es' = [es EXCEPT ![t] = s],
         es[t].conn = Null, s.conn = Null,
         s.pc \in {"connecting", "open"} => s.fresh,
         s.fresh <=> s.lastId = Null, s.lastId # Null => s.lastId <= newest,
         UNCHANGED <<store, server, feed, skipped>>, badge' \in [Tabs -> Badges],
         \A u \in Tabs : badge'[u].heard = badge[u].heard /\ badge'[u].count = badge[u].count
  PROVE  StreamInv'
<1>0. /\ UNCHANGED <<newest, queue, sessionLive, slots, conn, wire, feed, skipped>>
      /\ es'[t] = s /\ \A u \in Tabs \ {t} : es'[u] = es[u]
  BY DEF store, server, StreamInv, TypeOK
<1>1. TypeOK'
  BY <1>0 DEF StreamInv, TypeOK
<1>2. SlotsAreHandlers'
  BY <1>0 DEF StreamInv, SlotsAreHandlers
<1>3. ASSUME NEW c \in Conns PROVE ConnFits(c)'
  <2>1. conn[c].pc \in Attached => conn[c].tab \in Tabs \ {t}
    BY HandlerTyped, NullAssumption DEF StreamInv, ConnFits, ConnTied, Handlers
  <2> QED
    BY <1>0, <2>1, ConnLeftAlone DEF StreamInv
<1>4. ASSUME NEW u \in Tabs \ {t} PROVE TabFits(u)'
  BY <1>0, TabLeftAlone DEF StreamInv
<1>5. TabFits(t)'
  <2>1. TabTied(t)' /\ SourceFits(t)'
    BY <1>0 DEF TabTied, SourceFits
  <2>2. FeedFits(t)'
    BY <1>0 DEF StreamInv, TabFits, FeedFits, Started, Alive
  <2> QED
    BY <2>1, <2>2 DEF TabFits
<1> QED
  BY <1>1, <1>2, <1>3, <1>4, <1>5 DEF StreamInv

\* Opening, retrying, being refused and asking why: a source that may connect
\* starts with no event id.
LEMMA SourceKeeps ==
  ASSUME StreamInv, NEW t \in Tabs,
         \/ Open(t) \/ WhoAmIFails(t) \/ Retry(t)
         \/ WhoAmI(t) /\ sessionLive
         \/ Connect(t) /\ ~(sessionLive /\ SlotFree)
  PROVE  StreamInv'
<1>1. /\ es[t] \in Sources /\ TabTied(t) /\ SourceFits(t) /\ badge[t] \in Badges
      /\ es \in [Tabs -> Sources] /\ badge \in [Tabs -> Badges]
  BY DEF StreamInv, TypeOK, TabFits
<1>2. NewSource \in Sources /\ NewSource.conn = Null /\ NewSource.fresh /\ NewSource.lastId = Null
  BY DEF NewSource, Sources
<1>3. \A pc \in {"refused", "limited", "dead"} : LET s == [es[t] EXCEPT !.pc = pc] IN
        /\ s \in Sources /\ s.pc = pc /\ s.conn = es[t].conn /\ s.lastId = es[t].lastId /\ s.fresh = es[t].fresh
  BY <1>1 DEF Sources
<1>4. ASSUME NEW pc \in {"refused", "limited", "dead"}, es' = [es EXCEPT ![t].pc = pc], es[t].conn = Null,
             UNCHANGED <<store, server, badge, feed, skipped>>
      PROVE  StreamInv'
  <2> DEFINE s == [es[t] EXCEPT !.pc = pc]
  <2>1. es' = [es EXCEPT ![t] = s]
    BY <1>4
  <2>2. s \in Sources /\ s.pc = pc /\ s.conn = Null /\ s.lastId = es[t].lastId /\ s.fresh = es[t].fresh
    BY <1>3, <1>4
  <2> HIDE DEF s
  <2>3. s.pc \in {"connecting", "open"} => s.fresh
    BY <2>2
  <2>4. /\ s.fresh <=> s.lastId = Null
        /\ s.lastId # Null => s.lastId <= newest
    BY <1>1, <2>2 DEF SourceFits
  <2>5. UNCHANGED <<store, server, feed, skipped>> /\ es[t].conn = Null /\ badge' = badge
    BY <1>4
  <2>6. badge' \in [Tabs -> Badges] /\ \A u \in Tabs : badge'[u].heard = badge[u].heard /\ badge'[u].count = badge[u].count
    BY <1>1, <2>5
  <2> QED
    BY <2>1, <2>2, <2>3, <2>4, <2>5, <2>6, SourceStepKeeps
<1>5. CASE Open(t)
  <2>1. [badge[t] EXCEPT !.fetch = "sent"] \in Badges /\ [badge[t] EXCEPT !.fetch = "sent"].heard = badge[t].heard
        /\ [badge[t] EXCEPT !.fetch = "sent"].count = badge[t].count
    BY <1>1 DEF Badges
  <2>2. /\ badge' \in [Tabs -> Badges]
        /\ \A u \in Tabs : badge'[u].heard = badge[u].heard /\ badge'[u].count = badge[u].count
    BY <1>1, <1>5, <2>1 DEF Open
  <2>3. es[t].conn = Null /\ es' = [es EXCEPT ![t] = NewSource] /\ UNCHANGED <<store, server, feed, skipped>>
    BY <1>1, <1>5 DEF Open, TabTied
  <2> QED
    BY <1>2, <2>2, <2>3, SourceStepKeeps
<1>6. CASE Retry(t)
  <2>1. es[t].conn = Null /\ es' = [es EXCEPT ![t] = NewSource] /\ UNCHANGED <<store, server, feed, skipped, badge>>
    BY <1>1, <1>6 DEF Retry, TabTied
  <2> QED
    BY <1>1, <1>2, <2>1, SourceStepKeeps
<1>7. CASE WhoAmIFails(t)
  BY <1>1, <1>4, <1>7 DEF WhoAmIFails, TabTied
<1>8. CASE WhoAmI(t) /\ sessionLive
  BY <1>1, <1>4, <1>8 DEF WhoAmI, TabTied, server
<1>9. CASE Connect(t) /\ ~(sessionLive /\ SlotFree)
  BY <1>4, <1>9 DEF Connect, server
<1> QED
  BY <1>5, <1>6, <1>7, <1>8, <1>9

-----------------------------------------------------------------------------
(* The steps of a connection *)

\* A connection that is taken is bound to one tab, and resumes where the
\* browser's last event left off.
LEMMA ConnectKeeps ==
  ASSUME StreamInv, NEW t \in Tabs, Connect(t), sessionLive /\ SlotFree
  PROVE  StreamInv'
<1> PICK c \in Conns :
      /\ conn[c] = NoConn
      /\ conn' = [conn EXCEPT ![c] = [tab |-> t, pc |-> "start", cursor |-> 0, told |-> Null, n |-> 0]]
      /\ es' = [es EXCEPT ![t].conn = c]
  BY DEF Connect
<1> DEFINE h == [tab |-> t, pc |-> "start", cursor |-> 0, told |-> Null, n |-> 0]
           s == [es[t] EXCEPT !.conn = c]
<1>1. /\ es[t] \in Sources /\ es[t].pc = "connecting" /\ es[t].conn = Null /\ c # Null
      /\ UNCHANGED <<newest, queue, sessionLive, wire, badge, feed, skipped>>
      /\ slots' = slots + 1 /\ slots < MaxStreams
  BY NullAssumption DEF Connect, store, StreamInv, TypeOK, SlotFree
<1>2. h \in Handlers /\ h.pc = "start" /\ h.tab = t /\ h.cursor = 0 /\ h.n = 0 /\ h.told = Null
  BY BoundsAssumption DEF Handlers
<1>3. s \in Sources /\ s.conn = c /\ s.pc = "connecting" /\ s.lastId = es[t].lastId /\ s.fresh = es[t].fresh
  BY <1>1 DEF Sources
<1>4. conn'[c] = h /\ \A d \in Conns \ {c} : conn'[d] = conn[d]
  BY DEF StreamInv, TypeOK
<1>5. es'[t] = s /\ \A u \in Tabs \ {t} : es'[u] = es[u]
  BY DEF StreamInv, TypeOK
<1> HIDE DEF h, s
<1>6. conn[c].pc = "none"
  BY DEF NoConn
<1>7. Holders' = Holders \cup {c} /\ c \notin Holders
  BY <1>2, <1>4, <1>6 DEF Holders
<1>8. SlotsAreHandlers' /\ slots' \in Nat
  BY <1>1, <1>7, SlotTaken DEF StreamInv
<1>9. TypeOK'
  BY <1>1, <1>2, <1>3, <1>8 DEF StreamInv, TypeOK, h, s
<1>10. ConnFits(c)'
  <2>1. wire'[c] = <<>>
    BY <1>1, <1>6 DEF StreamInv, ConnFits, ConnTied, Greeted, Attached
  <2>2. ConnTied(c)' /\ HandlerFits(c)' /\ WireFits(c)' /\ BadgeFits(c)'
    BY <1>1, <1>2, <1>3, <1>4, <1>5, <2>1, BoundsAssumption
    DEF ConnTied, HandlerFits, WireFits, BadgeFits, Greeted, Attached, StreamInv, TypeOK
  <2> QED
    BY <2>2 DEF ConnFits
<1>11. ASSUME NEW d \in Conns \ {c} PROVE ConnFits(d)'
  <2>1. conn[d].pc \in Attached => conn[d].tab \in Tabs \ {t}
    BY <1>1, HandlerTyped, NullAssumption DEF StreamInv, ConnFits, ConnTied, Handlers
  <2> QED
    BY <1>1, <1>4, <1>5, <2>1, ConnLeftAlone DEF StreamInv
<1>12. ASSUME NEW u \in Tabs \ {t} PROVE TabFits(u)'
  <2>1. es[u].conn # c
    BY <1>1, <1>6 DEF StreamInv, TabFits, TabTied, Attached
  <2>2. es[u].conn # Null => es[u].conn \in Conns
    BY DEF StreamInv, TypeOK, Sources
  <2> QED
    BY <1>1, <1>4, <1>5, <2>1, <2>2, TabLeftAlone DEF StreamInv
<1>13. TabFits(t)'
  <2>1. TabTied(t)'
    BY <1>2, <1>3, <1>4, <1>5 DEF TabTied, Attached
  <2>2. SourceFits(t) /\ SourceFits(t)'
    BY <1>1, <1>3, <1>5 DEF StreamInv, TabFits, SourceFits
  <2>3. Alive(t) /\ ~Started(t)'
    BY <1>1, <1>2, <1>3, <1>4, <1>5 DEF Alive, Started, Greeted
  <2>4. ~es[t].fresh => Coming(t)' = Coming(t)
    <3>1. es[t].lastId # Null => resumeCursor(es[t].lastId)' = es[t].lastId
      BY <1>1, <2>2 DEF resumeCursor, SourceFits
    <3> QED
      BY <1>1, <1>2, <1>3, <1>4, <1>5, <2>2, <3>1 DEF Coming, SourceFits
  <2>5. FeedFits(t)'
    BY <1>1, <1>3, <1>5, <2>3, <2>4, FeedKept DEF StreamInv, TabFits
  <2> QED
    BY <2>1, <2>2, <2>5 DEF TabFits
<1> QED
  BY <1>8, <1>9, <1>10, <1>11, <1>12, <1>13 DEF StreamInv

\* The events of a connection after a write.
LEMMA Joined ==
  ASSUME NEW w \in Seq(Events), NEW e \in Seq(Events)
  PROVE  /\ w \o e \in Seq(Events) /\ Len(w) \in Nat
         /\ \A i \in DOMAIN (w \o e) :
              \/ i \in DOMAIN w /\ i <= Len(w) /\ (w \o e)[i] = w[i]
              \/ i > Len(w) /\ i - Len(w) \in DOMAIN e /\ (w \o e)[i] = e[i - Len(w)]
         /\ \A i \in DOMAIN w : i \in DOMAIN (w \o e) /\ (w \o e)[i] = w[i] /\ i <= Len(w)
         /\ \A i \in DOMAIN e : Len(w) + i \in DOMAIN (w \o e) /\ (w \o e)[Len(w) + i] = e[i] /\ i >= 1
<1> DEFINE v == w \o e
<1>1. v \in Seq(Events) /\ Len(v) = Len(w) + Len(e) /\ Len(w) \in Nat /\ Len(e) \in Nat
      /\ DOMAIN v = 1 .. Len(w) + Len(e) /\ DOMAIN w = 1 .. Len(w) /\ DOMAIN e = 1 .. Len(e)
      /\ \A i \in 1 .. Len(w) + Len(e) : v[i] = IF i <= Len(w) THEN w[i] ELSE e[i - Len(w)]
  BY ConcatProperties, LenProperties
<1> HIDE DEF v
<1>2. \A i \in DOMAIN v : \/ i \in DOMAIN w /\ i <= Len(w) /\ v[i] = w[i]
                          \/ i > Len(w) /\ i - Len(w) \in DOMAIN e /\ v[i] = e[i - Len(w)]
  BY <1>1
<1>3. \A i \in DOMAIN w : i \in DOMAIN v /\ v[i] = w[i] /\ i <= Len(w)
  BY <1>1
<1>4. ASSUME NEW i \in DOMAIN e PROVE Len(w) + i \in DOMAIN v /\ v[Len(w) + i] = e[i] /\ i >= 1
  <2>1. i \in 1 .. Len(e) /\ Len(w) + i \in 1 .. Len(w) + Len(e) /\ ~(Len(w) + i <= Len(w)) /\ Len(w) + i - Len(w) = i
    BY <1>1
  <2> QED
    BY <1>1, <2>1
<1> QED
  BY <1>1, <1>2, <1>3, <1>4 DEF v

\* A write keeps the events in order, and loses no row.
LEMMA OrderedGrows ==
  ASSUME NEW w \in Seq(Events), NEW e \in Seq(Events), NEW from \in 0 .. MaxRows, NEW to \in 0 .. MaxRows,
         from <= to, NEW lastId \in (0 .. MaxRows) \cup {Null}, NEW told, NEW next,
         Ordered(w, from, lastId), Speaks(e, from, to, told, next)
  PROVE  Ordered(w \o e, to, lastId) /\ RowsOn(w) \cup RowsOn(e) \subseteq RowsOn(w \o e)
<1> DEFINE v == w \o e
           k == Len(w)
<1>0. MaxRows \in Nat /\ k \in Nat
  BY BoundsAssumption
<1>1. \A i \in DOMAIN v : \/ i \in DOMAIN w /\ i <= k /\ v[i] = w[i]
                          \/ i > k /\ i - k \in DOMAIN e /\ v[i] = e[i - k]
  BY Joined
<1>2. \A i \in DOMAIN w : i \in DOMAIN v /\ v[i] = w[i] /\ i <= k
  BY Joined
<1>3. \A i \in DOMAIN e : k + i \in DOMAIN v /\ v[k + i] = e[i] /\ i >= 1
  BY Joined
<1>4. \A i \in DOMAIN v : i \in Nat /\ (v[i].name \in Marks => v[i].id \in 0 .. MaxRows)
  BY Joined, EventTyped
<1>5. RowsOn(w) \cup RowsOn(e) \subseteq RowsOn(v)
  <2>1. ASSUME NEW id \in RowsOn(w) PROVE id \in RowsOn(v)
    <3>1. PICK i \in DOMAIN w : w[i].name = "audit" /\ w[i].id = id
      BY <2>1 DEF RowsOn
    <3> HIDE DEF v
    <3> QED
      BY <1>2, <3>1 DEF RowsOn
  <2>2. ASSUME NEW id \in RowsOn(e) PROVE id \in RowsOn(v)
    <3>1. PICK i \in DOMAIN e : e[i].name = "audit" /\ e[i].id = id
      BY <2>2 DEF RowsOn
    <3> HIDE DEF v, k
    <3> QED
      BY <1>3, <3>1 DEF RowsOn
  <2> QED
    BY <2>1, <2>2
<1> HIDE DEF v, k
<1>6. ASSUME NEW i \in DOMAIN v, v[i].name = "hello" PROVE i = 1
  BY <1>1, <1>6 DEF Speaks, Ordered
<1>7. ASSUME NEW i \in DOMAIN v, v[i].name \in Marks PROVE v[i].id <= to
  <2>1. CASE i \in DOMAIN w /\ v[i] = w[i]
    BY <1>0, <1>4, <1>7, <2>1 DEF Ordered
  <2>2. CASE i - k \in DOMAIN e /\ v[i] = e[i - k]
    BY <1>7, <2>2 DEF Speaks, Marks
  <2> QED
    BY <1>1, <2>1, <2>2
<1>8. ASSUME NEW i \in DOMAIN v, NEW j \in DOMAIN v, i < j, v[i].name \in Marks, v[j].name = "audit"
      PROVE  v[i].id < v[j].id
  <2>0. v[i].id \in 0 .. MaxRows /\ v[j].id \in 0 .. MaxRows /\ i \in Nat /\ j \in Nat
    BY <1>4, <1>8 DEF Marks
  <2>1. CASE j \in DOMAIN w /\ j <= k /\ v[j] = w[j]
    <3>1. i \in DOMAIN w /\ v[i] = w[i]
      BY <1>0, <1>1, <1>8, <2>0, <2>1
    <3> QED
      BY <1>8, <2>1, <3>1 DEF Ordered
  <2>2. CASE j - k \in DOMAIN e /\ v[j] = e[j - k]
    <3>1. from < v[j].id
      BY <1>8, <2>2 DEF Speaks
    <3>2. CASE i \in DOMAIN w /\ v[i] = w[i]
      <4>1. v[i].id <= from
        BY <1>8, <3>2 DEF Ordered
      <4> QED
        BY <1>0, <2>0, <3>1, <4>1
    <3>3. CASE i - k \in DOMAIN e /\ v[i] = e[i - k]
      <4>1. i - k < j - k
        BY <1>0, <1>8, <2>0
      <4>2. v[i].name = "audit"
        BY <1>8, <3>3 DEF Speaks, Marks
      <4> QED
        BY <1>8, <2>2, <3>3, <4>1, <4>2 DEF Speaks
    <3> QED
      BY <1>1, <3>2, <3>3
  <2> QED
    BY <1>1, <2>1, <2>2
<1>9. ASSUME lastId # Null PROVE lastId <= to /\ \A i \in DOMAIN v : v[i].name = "audit" => lastId < v[i].id
  <2>1. lastId <= from /\ lastId \in Nat /\ from \in Nat /\ to \in Nat
    BY <1>0, <1>9 DEF Ordered
  <2>2. ASSUME NEW i \in DOMAIN v, v[i].name = "audit" PROVE lastId < v[i].id
    <3>0. v[i].id \in Nat
      BY <1>0, <1>4, <2>2 DEF Marks
    <3>1. CASE i \in DOMAIN w /\ v[i] = w[i]
      BY <1>9, <2>2, <3>1 DEF Ordered
    <3>2. CASE i - k \in DOMAIN e /\ v[i] = e[i - k]
      BY <2>1, <2>2, <3>0, <3>2 DEF Speaks
    <3> QED
      BY <1>1, <3>1, <3>2
  <2> QED
    BY <2>1, <2>2
<1>10. ASSUME lastId = Null PROVE v # <<>> /\ v[1].name = "hello"
  <2>1. w # <<>> /\ w[1].name = "hello"
    BY <1>10 DEF Ordered
  <2>2. 1 \in DOMAIN w
    BY <2>1
  <2> QED
    BY <1>2, <2>1, <2>2
<1>11. Ordered(v, to, lastId)
  BY <1>6, <1>7, <1>8, <1>9, <1>10 DEF Ordered
<1> QED
  BY <1>5, <1>11 DEF v

\* What was told is on its way after a write, or heard before it.
LEMMA TellingGrows ==
  ASSUME NEW w \in Seq(Events), NEW e \in Seq(Events), NEW from, NEW to, NEW told, NEW next, NEW b,
         Speaks(e, from, to, told, next), told # Null => Telling(w, told, b), next # Null
  PROVE  Telling(w \o e, next, b)
<1> DEFINE v == w \o e
           k == Len(w)
<1>0. \A i \in DOMAIN v : i \in Nat
  BY Joined, EventTyped
<1>1. \A i \in DOMAIN v : \/ i \in DOMAIN w /\ i <= k /\ v[i] = w[i]
                          \/ i > k /\ i - k \in DOMAIN e /\ v[i] = e[i - k]
  BY Joined
<1>2. \A i \in DOMAIN w : i \in DOMAIN v /\ v[i] = w[i] /\ i <= k
  BY Joined
<1>3. \A i \in DOMAIN e : k + i \in DOMAIN v /\ v[k + i] = e[i]
  BY Joined
<1>4. k \in Nat
  OBVIOUS
<1> HIDE DEF v, k
<1>5. CASE next = told /\ \A i \in DOMAIN e : e[i].name # "approvals"
  <2>1. {i \in DOMAIN v : v[i].name = "approvals"} = {i \in DOMAIN w : w[i].name = "approvals"}
    BY <1>1, <1>2, <1>5
  <2>2. \A i \in {i \in DOMAIN w : w[i].name = "approvals"} : v[i] = w[i]
    BY <1>2
  <2>3. Telling(w, told, b)
    BY <1>5
  <2>4. Telling(v, next, b)
    BY <1>5, <2>1, <2>2, <2>3 DEF Telling
  <2> QED
    BY <2>4 DEF v
<1>6. CASE e = <<[name |-> "approvals", queue |-> next]>>
  <2>1. DOMAIN e = {1} /\ e[1].name = "approvals" /\ e[1].queue = next
    BY <1>6
  <2>2. k + 1 \in DOMAIN v /\ v[k + 1].name = "approvals" /\ v[k + 1].queue = next
    BY <1>3, <2>1
  <2>3. \A i \in DOMAIN v : i <= k + 1
    BY <1>0, <1>1, <1>4, <2>1
  <2>4. ASSUME NEW i \in DOMAIN v, k + 1 <= i PROVE v[i].queue = next
    <3>1. i = k + 1
      BY <1>0, <1>4, <2>3, <2>4
    <3> QED
      BY <2>2, <3>1
  <2>5. Telling(v, next, b)
    BY <2>2, <2>4 DEF Telling
  <2> QED
    BY <2>5 DEF v
<1> QED
  BY <1>5, <1>6 DEF Speaks

\* A handler and its tab, and what the types say of them.
LEMMA HandlersTab ==
  ASSUME StreamInv, NEW c \in Conns, conn[c].pc \in Attached
  PROVE  /\ conn[c] \in Handlers /\ conn[c].tab \in Tabs /\ es[conn[c].tab].conn = c /\ c # Null
         /\ conn[c].cursor \in 0 .. MaxRows /\ newest \in 0 .. MaxRows /\ MaxRows \in Nat
         /\ conn[c].cursor <= newest
         /\ es[conn[c].tab].lastId \in (0 .. MaxRows) \cup {Null}
         /\ wire[c] \in Seq(Events)
BY HandlerTyped, BoundsAssumption, NullAssumption
DEF StreamInv, ConnFits, ConnTied, HandlerFits, Handlers, TypeOK, Sources

\* The others keep what fits them when a step is that of one handler and its
\* tab.
LEMMA OthersKept ==
  ASSUME StreamInv, NEW c \in Conns, NEW t \in Tabs, newest' = newest,
         conn[c].pc \in Attached => conn[c].tab = t, es[t].conn # Null => es[t].conn = c,
         \A d \in Conns \ {c} : conn'[d] = conn[d] /\ wire'[d] = wire[d],
         \A u \in Tabs \ {t} : es'[u] = es[u] /\ feed'[u] = feed[u] /\ skipped'[u] = skipped[u]
                               /\ badge'[u].heard = badge[u].heard /\ badge'[u].count = badge[u].count
  PROVE  /\ \A d \in Conns \ {c} : ConnFits(d)'
         /\ \A u \in Tabs \ {t} : TabFits(u)'
<1>1. ASSUME NEW d \in Conns \ {c} PROVE ConnFits(d)'
  <2>1. conn[d].pc \in Attached => conn[d].tab \in Tabs \ {t}
    BY HandlersTab
  <2> QED
    BY <2>1, ConnLeftAlone DEF StreamInv
<1>2. ASSUME NEW u \in Tabs \ {t} PROVE TabFits(u)'
  <2>1. es[u].conn # Null => es[u].conn \in Conns \ {c}
    BY DEF StreamInv, TabFits, TabTied, TypeOK, Sources
  <2> QED
    BY <2>1, TabLeftAlone DEF StreamInv
<1> QED
  BY <1>1, <1>2

\* A step of a handler that has said hello: each row it passes is on the
\* connection, and so is the queue if it told another one.
LEMMA MovesKeeps ==
  ASSUME StreamInv, NEW c \in Conns, NEW new \in Handlers, NEW events \in Seq(Events), Moves(c, new, events)
  PROVE  StreamInv'
<1> PICK t \in Tabs : t = conn[c].tab
  BY HandlersTab DEF Moves, Greeted
<1> DEFINE h == conn[c]
           w == wire[c]
           lastId == es[t].lastId
<1>0. h.pc \in Attached /\ h.pc \in Greeted /\ h.pc # "ended" /\ h.pc # "none" /\ h.pc # "start"
  BY DEF Moves, Greeted, Attached
<1>1. /\ h \in Handlers /\ h.tab = t /\ es[t].conn = c /\ c # Null /\ h.cursor \in 0 .. MaxRows
      /\ MaxRows \in Nat /\ newest \in 0 .. MaxRows /\ lastId \in (0 .. MaxRows) \cup {Null} /\ w \in Seq(Events)
  BY <1>0, HandlersTab
<1>2. new.cursor \in 0 .. MaxRows /\ new.tab = t /\ new.pc \in Greeted /\ h.cursor <= new.cursor
      /\ new.cursor <= newest /\ new.n < StreamCatchUp
      /\ Speaks(events, h.cursor, new.cursor, h.told, new.told)
  BY DEF Moves, Handlers
<1>3. /\ conn'[c] = new /\ wire'[c] = w \o events
      /\ \A d \in Conns \ {c} : conn'[d] = conn[d] /\ wire'[d] = wire[d]
      /\ conn' \in [Conns -> Handlers \cup {NoConn, Left}] /\ wire' \in [Conns -> Seq(Events)]
  <2>1. w \o events \in Seq(Events)
    BY <1>1, Joined
  <2> QED
    BY <2>1 DEF Moves, StreamInv, TypeOK
<1>4. UNCHANGED <<newest, es, badge, feed, skipped>> /\ queue' \in Queues /\ sessionLive' \in BOOLEAN
  BY DEF Moves, tab
<1>5. SlotsAreHandlers' /\ slots' \in Nat
  <2>1. c \in Holders
    BY <1>0 DEF Holders
  <2>2. CASE new.pc = "ended"
    <3>1. Holders' = Holders \ {c} /\ slots' = slots - 1
      BY <1>3, <2>2 DEF Holders, Moves
    <3> QED
      BY <2>1, <3>1, SlotGiven DEF StreamInv
  <2>3. CASE new.pc # "ended"
    <3>1. Holders' = Holders /\ slots' = slots
      BY <1>2, <1>3, <2>1, <2>3 DEF Holders, Moves, Greeted, Attached
    <3> QED
      BY <3>1, SlotsKept DEF StreamInv
  <2> QED
    BY <2>2, <2>3
<1>6. TypeOK'
  BY <1>3, <1>4, <1>5 DEF StreamInv, TypeOK
<1>7. Ordered(w, h.cursor, lastId) /\ (h.told # Null => Telling(w, h.told, badge[t]))
  BY <1>0 DEF StreamInv, ConnFits, WireFits, BadgeFits
<1>8. Ordered(w \o events, new.cursor, lastId) /\ RowsOn(w) \cup RowsOn(events) \subseteq RowsOn(w \o events)
  <2> HIDE DEF h, w, lastId
  <2> QED
    BY <1>1, <1>2, <1>7, OrderedGrows
<1>9. new.told # Null => Telling(w \o events, new.told, badge[t])
  <2> HIDE DEF h, w, lastId
  <2> QED
    BY <1>1, <1>2, <1>7, TellingGrows
<1>10. ConnFits(c)'
  <2>1. ConnTied(c)' /\ HandlerFits(c)'
    BY <1>1, <1>2, <1>3, <1>4 DEF ConnTied, HandlerFits
  <2>2. WireFits(c)' /\ BadgeFits(c)'
    BY <1>2, <1>3, <1>4, <1>8, <1>9 DEF WireFits, BadgeFits
  <2> QED
    BY <2>1, <2>2 DEF ConnFits
<1>11. TabFits(t)'
  <2>1. TabTied(t)' /\ SourceFits(t)'
    BY <1>1, <1>2, <1>3, <1>4 DEF StreamInv, TabFits, TabTied, SourceFits, Greeted
  <2>2. Alive(t)' = Alive(t) /\ Started(t)
    BY <1>0, <1>1, <1>4 DEF Alive, Started
  <2>3. Coming(t) = RowsOn(w) \cup {id \in RowIds : id > h.cursor}
    BY <1>0, <1>1 DEF Coming, AuditOn, RowsOn
  <2>4. Coming(t)' = RowsOn(w \o events) \cup {id \in RowIds : id > new.cursor}
    <3>1. es'[t].conn = c /\ c # Null /\ conn'[c] = new /\ new.pc # "start"
      BY <1>1, <1>2, <1>3, <1>4 DEF Greeted
    <3>2. AuditOn(c)' = RowsOn(w \o events)
      BY <1>3 DEF AuditOn, RowsOn
    <3> HIDE DEF w
    <3> QED
      BY <3>1, <3>2 DEF Coming
  <2>5. \A id \in RowIds : id > h.cursor => id \in RowsOn(events) \/ id > new.cursor
    BY <1>2 DEF Speaks
  <2>6. Coming(t) \subseteq Coming(t)'
    BY <1>8, <2>3, <2>4, <2>5
  <2>7. FeedFits(t)'
    BY <1>1, <1>4, <2>2, <2>6, FeedKept DEF StreamInv, TabFits
  <2> QED
    BY <2>1, <2>7 DEF TabFits
<1>12. (\A d \in Conns \ {c} : ConnFits(d)') /\ (\A u \in Tabs \ {t} : TabFits(u)')
  BY <1>1, <1>3, <1>4, OthersKept
<1> QED
  BY <1>1, <1>5, <1>6, <1>10, <1>11, <1>12 DEF StreamInv

\* The first step of a handler: hello carries the id it starts from, and the
\* rows before it are skipped when the source is new.
LEMMA StartKeeps ==
  ASSUME StreamInv, NEW c \in Conns, Start(c)
  PROVE  StreamInv'
<1> PICK t \in Tabs : t = conn[c].tab
  BY HandlersTab DEF Start, Attached
<1> DEFINE h     == conn[c]
           from  == resumeCursor(es[t].lastId)
           hello == [name |-> "hello", id |-> from]
           new   == [h EXCEPT !.pc = "session", !.cursor = from]
<1>0. /\ h.pc = "start" /\ h.pc \in Attached
      /\ UNCHANGED <<newest, queue, sessionLive, slots, es, badge, feed>>
  BY DEF Start, store, Attached
<1>1. /\ h \in Handlers /\ h.tab = t /\ es[t].conn = c /\ c # Null /\ wire[c] \in Seq(Events) /\ newest \in 0 .. MaxRows
      /\ MaxRows \in Nat /\ es[t].lastId \in (0 .. MaxRows) \cup {Null} /\ skipped[t] \in SUBSET RowIds
  BY <1>0, HandlersTab DEF StreamInv, TypeOK
<1>2. TabFits(t) /\ ConnFits(c) /\ SourceFits(t) /\ wire[c] = <<>> /\ es[t].pc \in {"connecting", "open"}
      /\ h.n < StreamCatchUp
  BY <1>0, <1>1 DEF StreamInv, TabFits, TabTied, ConnFits, ConnTied, HandlerFits, Greeted
<1>3. /\ from \in 0 .. MaxRows /\ from <= newest
      /\ es[t].lastId # Null => from = es[t].lastId
  BY <1>1, <1>2, NullAssumption DEF resumeCursor, SourceFits
<1>4. /\ new \in Handlers /\ new.pc = "session" /\ new.tab = t /\ new.cursor = from /\ new.n = h.n
      /\ new.told = h.told
  BY <1>1, <1>3 DEF Handlers
<1>5. hello \in Events /\ hello.name = "hello" /\ hello.id = from
  BY <1>3 DEF Events
<1>6. conn' = [conn EXCEPT ![c] = new] /\ wire' = [wire EXCEPT ![c] = @ \o <<hello>>]
      /\ skipped' = IF es[t].fresh THEN [skipped EXCEPT ![t] = @ \cup 1 .. from] ELSE skipped
  BY DEF Start, Write
<1> HIDE DEF h, from, hello, new
<1>7. <<hello>> \in Seq(Events) /\ wire[c] \o <<hello>> = <<hello>>
      /\ DOMAIN <<hello>> = {1} /\ <<hello>>[1] = hello
  BY <1>2, <1>5
<1>8. /\ conn'[c] = new /\ wire'[c] = <<hello>>
      /\ \A d \in Conns \ {c} : conn'[d] = conn[d] /\ wire'[d] = wire[d]
      /\ conn' \in [Conns -> Handlers \cup {NoConn, Left}] /\ wire' \in [Conns -> Seq(Events)]
  BY <1>4, <1>6, <1>7 DEF StreamInv, TypeOK
<1>9. /\ skipped' \in [Tabs -> SUBSET RowIds] /\ skipped[t] \subseteq skipped'[t]
      /\ es[t].fresh => 1 .. from \subseteq skipped'[t]
      /\ \A u \in Tabs \ {t} : skipped'[u] = skipped[u]
  <2>1. 1 .. from \in SUBSET RowIds
    BY <1>1, <1>3 DEF RowIds
  <2> QED
    BY <1>1, <1>6, <2>1 DEF StreamInv, TypeOK
<1>10. SlotsAreHandlers' /\ slots' \in Nat
  <2>1. Holders' = Holders
    BY <1>0, <1>4, <1>8 DEF Holders, h
  <2> QED
    BY <1>0, <2>1, SlotsKept DEF StreamInv
<1>11. TypeOK'
  BY <1>0, <1>8, <1>9, <1>10 DEF StreamInv, TypeOK
<1>12. ConnFits(c)'
  <2>1. ConnTied(c)' /\ HandlerFits(c)'
    BY <1>0, <1>1, <1>2, <1>3, <1>4, <1>8 DEF ConnTied, HandlerFits, Greeted, Attached
  <2>2. Ordered(<<hello>>, from, es[t].lastId)
    BY <1>1, <1>3, <1>5, <1>7 DEF Ordered
  <2>3. WireFits(c)'
    BY <1>0, <1>4, <1>8, <2>2 DEF WireFits
  <2>4. h.told # Null => Telling(<<>>, h.told, badge[t])
    BY <1>0, <1>1, <1>2 DEF ConnFits, BadgeFits, h
  <2>5. h.told # Null => Telling(<<hello>>, h.told, badge[t])
    BY <1>5, <1>7, <2>4 DEF Telling
  <2>6. BadgeFits(c)'
    BY <1>0, <1>4, <1>8, <2>5 DEF BadgeFits
  <2> QED
    BY <2>1, <2>3, <2>6 DEF ConnFits
<1>13. TabFits(t)'
  <2>1. TabTied(t)' /\ SourceFits(t)'
    BY <1>0, <1>1, <1>2, <1>4, <1>8 DEF TabTied, SourceFits, Attached
  <2>2. Coming(t)' = RowsOn(<<hello>>) \cup {id \in RowIds : id > from}
    <3>1. AuditOn(c)' = RowsOn(<<hello>>)
      BY <1>8 DEF AuditOn, RowsOn
    <3> QED
      BY <1>0, <1>1, <1>4, <1>8, <3>1 DEF Coming
  <2>3. ~es[t].fresh => Coming(t) = {id \in RowIds : id > from}
    BY <1>0, <1>1 DEF Coming, from, h
  <2>4. es[t].fresh => Reached(t, {}, 0)'
    <3>1. \A id \in 1 .. newest : id \in 1 .. from \/ (id \in RowIds /\ id > from)
      BY <1>1, <1>3 DEF RowIds
    <3> QED
      BY <1>0, <1>9, <2>2, <3>1 DEF Reached
  <2>5. FeedFits(t)'
    <3>1. CASE es[t].fresh
      BY <1>0, <1>2, <2>4, <3>1 DEF TabFits, FeedFits
    <3>2. CASE ~es[t].fresh
      BY <1>0, <1>2, <1>9, <2>2, <2>3, <3>2, FeedKept DEF TabFits, Alive
    <3> QED
      BY <3>1, <3>2
  <2> QED
    BY <2>1, <2>5 DEF TabFits
<1>14. (\A d \in Conns \ {c} : ConnFits(d)') /\ (\A u \in Tabs \ {t} : TabFits(u)')
  BY <1>0, <1>1, <1>8, <1>9, OthersKept DEF h
<1> QED
  BY <1>10, <1>11, <1>12, <1>13, <1>14 DEF StreamInv

\* A connection that is given back is no one's.
LEMMA NoConnFits ==
  ASSUME NEW c \in Conns, conn'[c] = NoConn \/ conn'[c] = Left, wire'[c] = <<>>
  PROVE  ConnFits(c)'
BY DEF ConnFits, ConnTied, HandlerFits, WireFits, BadgeFits, NoConn, Left, Attached, Greeted

\* A handler that fails before hello takes its slot and its tab's connection
\* with it, and a handler whose browser left its slot.
LEMMA HandlerGoneKeeps ==
  ASSUME StreamInv, NEW c \in Conns, StartFails(c) \/ LeftHandlerStops(c)
  PROVE  StreamInv'
<1>0. /\ UNCHANGED <<newest, queue, sessionLive, wire, badge, feed, skipped>>
      /\ slots' = slots - 1 /\ conn' = [conn EXCEPT ![c] = NoConn]
      /\ conn[c].pc \in {"start", "left"}
  <2>1. CASE StartFails(c)
    BY <2>1 DEF StartFails, store
  <2>2. CASE LeftHandlerStops(c)
    BY <2>2 DEF LeftHandlerStops, store, tab, Left
  <2> QED
    BY <2>1, <2>2
<1>1. /\ conn'[c] = NoConn /\ \A d \in Conns \ {c} : conn'[d] = conn[d]
      /\ conn' \in [Conns -> Handlers \cup {NoConn, Left}]
  BY <1>0 DEF StreamInv, TypeOK
<1>2. c \in Holders /\ Holders' = Holders \ {c}
  BY <1>0, <1>1 DEF Holders, NoConn
<1>3. SlotsAreHandlers' /\ slots' \in Nat
  BY <1>0, <1>2, SlotGiven DEF StreamInv
<1>4. ConnFits(c)'
  <2>1. wire'[c] = <<>>
    BY <1>0 DEF StreamInv, ConnFits, ConnTied, Greeted, Attached
  <2> QED
    BY <1>1, <2>1, NoConnFits
<1>5. CASE StartFails(c)
  <2> PICK t \in Tabs : t = conn[c].tab
    BY <1>5, HandlersTab DEF StartFails, Attached
  <2>1. conn[c].pc = "start" /\ es[t].conn = c /\ c # Null /\ es[t] \in Sources /\ SourceFits(t)
    BY <1>5, HandlersTab DEF StartFails, Attached, StreamInv, TabFits, TypeOK
  <2>2. \A u \in Tabs \ {t} : es[u].conn # c
    BY <2>1 DEF StreamInv, TabFits, TabTied, Attached
  <2> DEFINE s == [es[t] EXCEPT !.pc = "refused", !.conn = Null]
  <2>3. es'[t] = s /\ \A u \in Tabs \ {t} : es'[u] = es[u]
    BY <1>5, <2>1, <2>2 DEF StartFails
  <2>4. es' = [u \in Tabs |-> IF u = t THEN s ELSE es[u]]
    BY <1>5, <2>1, <2>2 DEF StartFails
  <2>5. s \in Sources /\ s.pc = "refused" /\ s.conn = Null /\ s.lastId = es[t].lastId /\ s.fresh = es[t].fresh
    BY <2>1 DEF Sources
  <2> HIDE DEF s
  <2>6. TypeOK'
    BY <1>0, <1>1, <1>3, <2>4, <2>5 DEF StreamInv, TypeOK
  <2>7. TabFits(t)'
    BY <1>0, <2>1, <2>3, <2>5 DEF StreamInv, TabFits, TabTied, SourceFits, FeedFits, Alive
  <2>8. (\A d \in Conns \ {c} : ConnFits(d)') /\ (\A u \in Tabs \ {t} : TabFits(u)')
    BY <1>0, <1>1, <2>1, <2>3, OthersKept
  <2> QED
    BY <1>3, <1>4, <2>6, <2>7, <2>8 DEF StreamInv
<1>6. CASE LeftHandlerStops(c)
  <2>1. conn[c].pc = "left" /\ UNCHANGED es
    BY <1>6 DEF LeftHandlerStops, tab, Left
  <2>2. TypeOK'
    BY <1>0, <1>1, <1>3, <2>1 DEF StreamInv, TypeOK
  <2>3. ASSUME NEW u \in Tabs PROVE TabFits(u)'
    <3>1. es[u].conn # Null => es[u].conn \in Conns \ {c}
      BY <2>1 DEF StreamInv, TabFits, TabTied, TypeOK, Sources, Attached
    <3> QED
      BY <1>0, <1>1, <2>1, <3>1, TabLeftAlone DEF StreamInv
  <2>4. ASSUME NEW d \in Conns \ {c} PROVE ConnFits(d)'
    BY <1>0, <1>1, <2>1, ConnLeftAlone DEF StreamInv
  <2> QED
    BY <1>3, <1>4, <2>2, <2>3, <2>4 DEF StreamInv
<1> QED
  BY <1>5, <1>6

-----------------------------------------------------------------------------
(* The steps of a source with a connection *)

\* A source that drops its connection and lives resumes from its last event
\* id, which is before every row that was still to come.
LEMMA DetachKeeps ==
  ASSUME StreamInv, NEW t \in Tabs, NEW pc \in {"connecting", "signedOut"}, Detach(t, pc),
         pc = "connecting" => es[t].conn # Null,
         UNCHANGED <<store, slots, skipped>>, badge' \in [Tabs -> Badges],
         \A u \in Tabs : badge'[u].heard = badge[u].heard /\ badge'[u].count = badge[u].count,
         feed' = feed \/ feed' = [feed EXCEPT ![t] = NoFeed]
  PROVE  StreamInv'
<1> DEFINE s == [es[t] EXCEPT !.pc = pc, !.conn = Null]
<1>1. /\ es[t] \in Sources /\ es[t].conn \in Conns \cup {Null} /\ Null \notin Conns
      /\ es[t].lastId \in (0 .. MaxRows) \cup {Null}
      /\ UNCHANGED <<newest, queue, sessionLive, slots, skipped>> /\ newest \in 0 .. MaxRows /\ MaxRows \in Nat
  BY NullAssumption, BoundsAssumption DEF StreamInv, TypeOK, Sources, store
<1>2. s \in Sources /\ s.pc = pc /\ s.conn = Null /\ s.lastId = es[t].lastId /\ s.fresh = es[t].fresh
  BY <1>1 DEF Sources
<1>3. es' = [es EXCEPT ![t] = s]
  BY DEF Detach
<1> HIDE DEF s
<1>4. es'[t] = s /\ \A u \in Tabs \ {t} : es'[u] = es[u]
  BY <1>3 DEF StreamInv, TypeOK
<1>5. /\ wire' = [d \in Conns |-> IF d = es[t].conn THEN <<>> ELSE wire[d]]
      /\ conn' = [d \in Conns |-> IF d # es[t].conn THEN conn[d]
                                  ELSE IF conn[d].pc = "ended" THEN NoConn ELSE Left]
  BY DEF Detach
<1>6. es[t].conn # Null => conn[es[t].conn].pc \in Attached /\ conn[es[t].conn].tab = t
  BY DEF StreamInv, TabFits, TabTied
<1>7. SlotsAreHandlers' /\ slots' \in Nat
  <2>1. \A d \in Conns : conn'[d].pc \notin {"none", "ended"} <=> conn[d].pc \notin {"none", "ended"}
    BY <1>1, <1>5, <1>6 DEF NoConn, Left, Attached
  <2>2. Holders' = Holders
    BY <2>1 DEF Holders
  <2> QED
    BY <1>1, <2>2, SlotsKept DEF StreamInv
<1>8. TypeOK'
  <2>1. conn' \in [Conns -> Handlers \cup {NoConn, Left}]
    BY <1>5 DEF StreamInv, TypeOK
  <2>2. wire' \in [Conns -> Seq(Events)]
    BY <1>5 DEF StreamInv, TypeOK
  <2>3. NoFeed \in Feeds
    BY <1>1 DEF NoFeed, Feeds
  <2>4. feed' \in [Tabs -> Feeds]
    BY <2>3 DEF StreamInv, TypeOK
  <2> QED
    BY <1>1, <1>2, <1>3, <1>7, <2>1, <2>2, <2>4 DEF StreamInv, TypeOK
<1>9. ASSUME NEW d \in Conns, d = es[t].conn PROVE ConnFits(d)'
  BY <1>5, <1>9, NoConnFits
<1>10. ASSUME NEW d \in Conns, d # es[t].conn PROVE ConnFits(d)'
  <2>1. conn[d].pc \in Attached => conn[d].tab \in Tabs \ {t}
    BY <1>10, HandlersTab
  <2>2. conn'[d] = conn[d] /\ wire'[d] = wire[d]
    BY <1>5, <1>10
  <2> QED
    BY <1>1, <1>4, <2>1, <2>2, ConnLeftAlone DEF StreamInv
<1>11. ASSUME NEW u \in Tabs \ {t} PROVE TabFits(u)'
  <2>1. es[u].conn # Null => es[u].conn \in Conns /\ es[u].conn # es[t].conn
    BY <1>6 DEF StreamInv, TabFits, TabTied, TypeOK, Sources
  <2>2. feed'[u] = feed[u]
    BY DEF StreamInv, TypeOK
  <2> QED
    BY <1>1, <1>4, <1>5, <2>1, <2>2, TabLeftAlone DEF StreamInv
<1>12. TabFits(t)'
  <2>1. SourceFits(t) /\ FeedFits(t) /\ TabTied(t)
    BY DEF StreamInv, TabFits
  <2>2. TabTied(t)' /\ SourceFits(t)'
    BY <1>1, <1>2, <1>4, <2>1 DEF TabTied, SourceFits
  <2>3. CASE pc = "signedOut"
    <3>1. ~Alive(t)'
      BY <1>2, <1>4, <2>3 DEF Alive
    <3>2. feed'[t] = feed[t] \/ feed'[t] = NoFeed
      BY DEF StreamInv, TypeOK
    <3> QED
      BY <2>1, <2>2, <3>1, <3>2 DEF TabFits, FeedFits, NoFeed
  <2>4. CASE pc = "connecting"
    <3> DEFINE c == es[t].conn
    <3>1. c \in Conns /\ c # Null /\ conn[c].pc \in Attached /\ conn[c].tab = t
      BY <1>1, <1>6, <2>4
    <3>2. /\ conn[c].cursor \in 0 .. MaxRows /\ wire[c] \in Seq(Events)
          /\ WireFits(c)
      BY <3>1, HandlersTab DEF StreamInv, ConnFits
    <3>3. Alive(t) /\ ~Started(t)'
      BY <1>2, <1>4, <2>1, <3>1 DEF Alive, Started, TabTied
    <3>4. ASSUME ~es[t].fresh PROVE Coming(t) \subseteq Coming(t)'
      <4> DEFINE last == es[t].lastId
      <4>1. last # Null /\ last \in 0 .. MaxRows /\ last <= newest
        BY <1>1, <2>1, <3>4 DEF SourceFits
      <4>2. Coming(t)' = {id \in RowIds : id > last}
        BY <1>2, <1>4, <4>1 DEF Coming
      <4>3. CASE conn[c].pc = "start"
        BY <3>1, <4>1, <4>2, <4>3 DEF Coming, resumeCursor
      <4>4. CASE conn[c].pc # "start"
        <5>1. Ordered(wire[c], conn[c].cursor, last)
          BY <3>1, <3>2, <4>4 DEF WireFits, Greeted
        <5>2. last <= conn[c].cursor /\ \A i \in DOMAIN wire[c] : wire[c][i].name = "audit" => last < wire[c][i].id
          BY <4>1, <5>1 DEF Ordered
        <5>3. \A id \in RowIds : id > conn[c].cursor => id > last
          BY <1>1, <3>2, <4>1, <5>2 DEF RowIds
        <5>4. ASSUME NEW i \in DOMAIN wire[c], wire[c][i].name = "audit"
              PROVE  wire[c][i].id \in RowIds /\ wire[c][i].id > last
          <6>1. wire[c][i].id \in 0 .. MaxRows
            BY <3>2, <5>4, EventTyped DEF Marks
          <6> QED
            BY <1>1, <4>1, <5>2, <5>4, <6>1 DEF RowIds
        <5>5. Coming(t) = AuditOn(c) \cup {id \in RowIds : id > conn[c].cursor}
          BY <3>1, <4>4 DEF Coming
        <5> QED
          BY <4>2, <5>3, <5>4, <5>5 DEF AuditOn
      <4> QED
        BY <4>3, <4>4
    <3>5. CASE feed'[t] = feed[t]
      BY <1>1, <1>2, <1>4, <2>1, <2>2, <3>3, <3>4, <3>5, FeedKept DEF TabFits
    <3>6. CASE feed'[t] = NoFeed
      BY <2>2, <3>3, <3>6 DEF TabFits, FeedFits, NoFeed
    <3>7. feed'[t] = feed[t] \/ feed'[t] = NoFeed
      BY DEF StreamInv, TypeOK
    <3> QED
      BY <3>5, <3>6, <3>7
  <2> QED
    BY <2>3, <2>4
<1> QED
  BY <1>7, <1>8, <1>9, <1>10, <1>11, <1>12 DEF StreamInv

\* What breaks, closes or refuses a connection only drops it, and a tab that
\* signs out has no feed.
LEMMA DropKeeps ==
  ASSUME StreamInv, NEW t \in Tabs,
         Reconnect(t) \/ Close(t) \/ (WhoAmI(t) /\ ~sessionLive) \/ FetchRefused(t)
  PROVE  StreamInv'
<1>1. badge \in [Tabs -> Badges] /\ feed \in [Tabs -> Feeds]
  BY DEF StreamInv, TypeOK
<1>2. CASE Reconnect(t)
  BY <1>1, <1>2, DetachKeeps DEF Reconnect
<1>3. CASE Close(t)
  BY <1>1, <1>3, DetachKeeps DEF Close, SignOut
<1>4. CASE WhoAmI(t) /\ ~sessionLive
  BY <1>1, <1>4, DetachKeeps DEF WhoAmI, SignOut
<1>5. CASE FetchRefused(t)
  <2> DEFINE b == [badge[t] EXCEPT !.fetch = IF @ = "sent" THEN "none" ELSE @]
  <2>1. b \in Badges /\ b.heard = badge[t].heard /\ b.count = badge[t].count
    BY <1>1 DEF Badges
  <2>2. badge' = [badge EXCEPT ![t].fetch = IF @ = "sent" THEN "none" ELSE @]
    BY <1>5 DEF FetchRefused
  <2>3. badge' = [badge EXCEPT ![t] = b]
    BY <2>2
  <2> HIDE DEF b
  <2>4. badge' \in [Tabs -> Badges] /\ \A u \in Tabs : badge'[u].heard = badge[u].heard /\ badge'[u].count = badge[u].count
    BY <1>1, <2>1, <2>3
  <2>5. Detach(t, "signedOut") /\ feed' = [feed EXCEPT ![t] = NoFeed] /\ UNCHANGED <<store, slots, skipped>>
    BY <1>5 DEF FetchRefused, SignOut
  <2> QED
    BY <2>4, <2>5, DetachKeeps
<1> QED
  BY <1>2, <1>3, <1>4, <1>5

\* The events of a connection once the first is read.
LEMMA TailOf ==
  ASSUME NEW w \in Seq(Events), w # <<>>
  PROVE  /\ Tail(w) \in Seq(Events) /\ 1 \in DOMAIN w /\ Head(w) = w[1]
         /\ \A i \in DOMAIN Tail(w) : i \in Nat /\ i >= 1 /\ i + 1 \in DOMAIN w /\ Tail(w)[i] = w[i + 1]
         /\ \A i \in DOMAIN w : i = 1 \/ (i \in Nat /\ i - 1 \in DOMAIN Tail(w) /\ Tail(w)[i - 1] = w[i])
<1>1. Tail(w) \in Seq(Events) /\ Len(Tail(w)) = Len(w) - 1 /\ Head(w) = w[1] /\ Len(w) \in Nat /\ Len(w) >= 1
      /\ \A i \in 1 .. Len(Tail(w)) : Tail(w)[i] = w[i + 1]
  BY HeadTailProperties, EmptySeq, LenProperties
<1>2. DOMAIN w = 1 .. Len(w) /\ DOMAIN Tail(w) = 1 .. Len(w) - 1
  BY <1>1, LenProperties
<1>3. ASSUME NEW i \in DOMAIN w, i # 1 PROVE i \in Nat /\ i - 1 \in DOMAIN Tail(w) /\ Tail(w)[i - 1] = w[i]
  <2>1. i \in Nat /\ i - 1 \in 1 .. Len(w) - 1 /\ (i - 1) + 1 = i
    BY <1>1, <1>2, <1>3
  <2> QED
    BY <1>1, <1>2, <2>1
<1>4. ASSUME NEW i \in DOMAIN Tail(w) PROVE i \in Nat /\ i >= 1 /\ i + 1 \in DOMAIN w /\ Tail(w)[i] = w[i + 1]
  BY <1>1, <1>2
<1> QED
  BY <1>1, <1>2, <1>3, <1>4

\* What a browser remembers of an event.
LastAfter(ev, lastId) == IF ev.name \in Marks THEN ev.id ELSE lastId

\* Reading an event keeps the rest in order after it, and once one was read
\* there is an id to resume from, no later than the cursor.
LEMMA OrderedTail ==
  ASSUME NEW w \in Seq(Events), w # <<>>, NEW cursor \in 0 .. MaxRows, NEW lastId \in (0 .. MaxRows) \cup {Null},
         Ordered(w, cursor, lastId)
  PROVE  /\ Ordered(Tail(w), cursor, LastAfter(Head(w), lastId))
         /\ LastAfter(Head(w), lastId) \in 0 .. MaxRows /\ LastAfter(Head(w), lastId) <= cursor
         /\ lastId = Null => Head(w).name = "hello"
<1> DEFINE v == Tail(w)
           ev == Head(w)
           last == LastAfter(ev, lastId)
<1>1. v \in Seq(Events) /\ 1 \in DOMAIN w /\ ev = w[1]
  BY TailOf
<1>2. \A i \in DOMAIN v : i \in Nat /\ i >= 1 /\ i + 1 \in DOMAIN w /\ v[i] = w[i + 1]
  BY TailOf
<1>3. MaxRows \in Nat /\ (0 .. MaxRows) \subseteq Nat /\ Null \notin Nat
  BY BoundsAssumption, NullAssumption
<1>4. ev.name \in Marks => ev.id \in 0 .. MaxRows
  BY <1>1, EventTyped
<1> HIDE DEF v, ev
<1>5. lastId = Null => ev.name = "hello"
  BY <1>1 DEF Ordered
<1>6. last \in 0 .. MaxRows /\ last # Null
  BY <1>3, <1>4, <1>5 DEF LastAfter, Marks
<1>7. last <= cursor
  BY <1>1, <1>5 DEF LastAfter, Marks, Ordered
<1>8. ASSUME NEW i \in DOMAIN v PROVE v[i].name # "hello"
  <2>1. i + 1 \in DOMAIN w /\ i + 1 # 1 /\ v[i] = w[i + 1]
    BY <1>2
  <2> QED
    BY <2>1 DEF Ordered
<1>9. ASSUME NEW i \in DOMAIN v, v[i].name \in Marks PROVE v[i].id <= cursor
  BY <1>2, <1>9 DEF Ordered
<1>10. ASSUME NEW i \in DOMAIN v, NEW j \in DOMAIN v, i < j, v[i].name \in Marks, v[j].name = "audit"
       PROVE  v[i].id < v[j].id
  <2>1. i + 1 \in DOMAIN w /\ j + 1 \in DOMAIN w /\ i + 1 < j + 1 /\ v[i] = w[i + 1] /\ v[j] = w[j + 1]
    BY <1>2, <1>10
  <2> QED
    BY <1>10, <2>1 DEF Ordered
<1>11. ASSUME NEW i \in DOMAIN v, v[i].name = "audit" PROVE last < v[i].id
  <2>1. i + 1 \in DOMAIN w /\ 1 < i + 1 /\ v[i] = w[i + 1]
    BY <1>2
  <2>2. CASE ev.name \in Marks
    BY <1>1, <1>11, <2>1, <2>2 DEF Ordered, LastAfter
  <2>3. CASE ev.name \notin Marks
    BY <1>5, <1>11, <2>1, <2>3 DEF Ordered, LastAfter, Marks
  <2> QED
    BY <2>2, <2>3
<1> HIDE DEF last
<1>12. Ordered(v, cursor, last)
  BY <1>6, <1>7, <1>8, <1>9, <1>10, <1>11 DEF Ordered
<1> QED
  BY <1>5, <1>6, <1>7, <1>12 DEF v, ev, last

\* The only row that reading an event takes off a connection is that event.
LEMMA RowsOnTail ==
  ASSUME NEW w \in Seq(Events), w # <<>>
  PROVE  \A id \in RowsOn(w) : id \in RowsOn(Tail(w)) \/ (Head(w).name = "audit" /\ id = Head(w).id)
<1> SUFFICES ASSUME NEW i \in DOMAIN w, w[i].name = "audit"
             PROVE  w[i].id \in RowsOn(Tail(w)) \/ (Head(w).name = "audit" /\ w[i].id = Head(w).id)
  BY DEF RowsOn
<1>1. CASE i = 1
  BY <1>1, TailOf
<1>2. CASE i # 1
  <2>1. i - 1 \in DOMAIN Tail(w) /\ Tail(w)[i - 1] = w[i]
    BY <1>2, TailOf
  <2> QED
    BY <2>1 DEF RowsOn
<1> QED
  BY <1>1, <1>2

\* What the handler told stays on its way until it is heard.
LEMMA TellingTail ==
  ASSUME NEW w \in Seq(Events), w # <<>>, NEW told, NEW b, NEW b2, Telling(w, told, b),
         IF Head(w).name = "approvals" THEN b2.heard /\ b2.count = Head(w).queue ELSE b2 = b
  PROVE  Telling(Tail(w), told, b2)
<1> DEFINE v == Tail(w)
<1>1. 1 \in DOMAIN w /\ Head(w) = w[1]
  BY TailOf
<1>2. \A i \in DOMAIN v : i \in Nat /\ i >= 1 /\ i + 1 \in DOMAIN w /\ v[i] = w[i + 1]
  BY TailOf
<1>3. \A i \in DOMAIN w : i = 1 \/ (i \in Nat /\ i - 1 \in DOMAIN v /\ v[i - 1] = w[i])
  BY TailOf
<1> HIDE DEF v
<1>4. ASSUME NEW i \in DOMAIN v, v[i].name = "approvals", \A j \in DOMAIN v : v[j].name = "approvals" => j <= i
      PROVE  v[i].queue = told
  <2>1. i + 1 \in DOMAIN w /\ w[i + 1].name = "approvals" /\ v[i] = w[i + 1] /\ i \in Nat
    BY <1>2, <1>4
  <2>2. ASSUME NEW j \in DOMAIN w, w[j].name = "approvals" PROVE j <= i + 1
    <3>1. CASE j = 1
      BY <2>1, <3>1
    <3>2. CASE j # 1
      BY <1>3, <1>4, <2>1, <2>2, <3>2
    <3> QED
      BY <3>1, <3>2
  <2> QED
    BY <2>1, <2>2 DEF Telling
<1>5. ASSUME \A i \in DOMAIN v : v[i].name # "approvals" PROVE b2.heard /\ b2.count = told
  <2>1. \A i \in DOMAIN w : w[i].name = "approvals" => i = 1
    BY <1>3, <1>5
  <2>2. CASE Head(w).name = "approvals"
    <3>1. w[1].queue = told
      BY <1>1, <2>1, <2>2 DEF Telling
    <3> QED
      BY <1>1, <2>2, <3>1
  <2>3. CASE Head(w).name # "approvals"
    <3>1. \A i \in DOMAIN w : w[i].name # "approvals"
      BY <1>1, <2>1, <2>3
    <3> QED
      BY <2>3, <3>1 DEF Telling
  <2> QED
    BY <2>2, <2>3
<1>6. Telling(v, told, b2)
  BY <1>4, <1>5 DEF Telling
<1> QED
  BY <1>6 DEF v

\* A row that is heard is in the feed, wherever the feed puts it.
LEMMA FeedAfterHas ==
  ASSUME NEW g \in Feeds, NEW id \in RowIds, NEW f \in FeedAfter(g, id), g.pc = "shown" => g.shown # Null
  PROVE  /\ f \in Feeds /\ f.pc = g.pc /\ f.top = g.top /\ f.page = g.page
         /\ f.pc = "shown" => f.shown # Null /\ g.shown \cup g.held \cup {id} \subseteq f.shown \cup f.held
         /\ f.pc = "loading" => g.buffer \cup {id} \subseteq f.buffer
<1>1. /\ g.pc \in {"off", "loading", "shown", "failed"} /\ g.held \in SUBSET RowIds /\ g.buffer \in SUBSET RowIds
      /\ g.shown \in (SUBSET RowIds) \cup {Null}
  BY DEF Feeds
<1>2. CASE g.pc = "off"
  BY <1>2 DEF FeedAfter
<1>3. CASE g.pc = "loading"
  <2>1. f = [g EXCEPT !.buffer = @ \cup {id}]
    BY <1>3 DEF FeedAfter
  <2> QED
    BY <1>1, <1>3, <2>1 DEF Feeds
<1>4. CASE g.pc \in {"shown", "failed"}
  <2> DEFINE joined == FoldIn(g.shown, g.held \cup {id})
             rest   == g.shown \cup {id}
  <2>1. \/ f = [g EXCEPT !.shown = joined, !.held = {}]
        \/ f = [g EXCEPT !.held = @ \cup {id}]
        \/ g.shown # Null /\ f = [g EXCEPT !.shown = rest]
    BY <1>4 DEF FeedAfter
  <2>2. /\ g.shown = Null => joined = Null
        /\ g.shown # Null => joined \in SUBSET RowIds /\ joined = g.shown \cup g.held \cup {id}
    BY <1>1 DEF FoldIn
  <2>3. g.shown # Null => rest \in SUBSET RowIds /\ rest = g.shown \cup {id}
    BY <1>1
  <2>4. \A ids \in SUBSET RowIds : ids # Null
    BY NullAssumption DEF RowIds
  <2> HIDE DEF joined, rest
  <2>5. CASE f = [g EXCEPT !.shown = joined, !.held = {}]
    <3>1. f \in Feeds /\ f.pc = g.pc /\ f.top = g.top /\ f.page = g.page /\ f.shown = joined /\ f.held = {}
      BY <2>2, <2>5 DEF Feeds
    <3> QED
      BY <1>4, <2>2, <2>4, <3>1
  <2>6. CASE f = [g EXCEPT !.held = @ \cup {id}]
    <3>1. /\ f \in Feeds /\ f.pc = g.pc /\ f.top = g.top /\ f.page = g.page /\ f.shown = g.shown
          /\ f.held = g.held \cup {id}
      BY <1>1, <2>6 DEF Feeds
    <3> QED
      BY <1>4, <3>1
  <2>7. CASE g.shown # Null /\ f = [g EXCEPT !.shown = rest]
    <3>1. f \in Feeds /\ f.pc = g.pc /\ f.top = g.top /\ f.page = g.page /\ f.shown = rest /\ f.held = g.held
      BY <2>3, <2>7 DEF Feeds
    <3> QED
      BY <1>4, <2>3, <2>4, <2>7, <3>1
  <2> QED
    BY <2>1, <2>5, <2>6, <2>7
<1> QED
  BY <1>1, <1>2, <1>3, <1>4

\* What a tab does with an event: a row goes from the connection to the feed,
\* a hello ends the wait of a new source, and the queue goes to the badge.
LEMMA HearKeeps ==
  ASSUME StreamInv, NEW t \in Tabs, Hear(t)
  PROVE  StreamInv'
<1> PICK c \in Conns : c = es[t].conn
  BY DEF Hear, StreamInv, TypeOK, Sources
<1> DEFINE w == wire[c]
           ev == Head(w)
           last == LastAfter(ev, es[t].lastId)
           s0 == [es[t] EXCEPT !.pc = "open", !.fresh = FALSE]
           s == Hears(s0, ev)
<1>0. es[t].conn = c /\ c # Null /\ w # <<>> /\ conn[c].pc \in Greeted /\ conn[c].pc \in Attached /\ conn[c].tab = t
      /\ UNCHANGED <<newest, queue, sessionLive, slots, skipped>>
  BY DEF Hear, store, StreamInv, TabFits, TabTied, ConnFits, ConnTied
<1>1. /\ conn[c] \in Handlers /\ conn[c].cursor \in 0 .. MaxRows /\ conn[c].cursor <= newest
      /\ newest \in 0 .. MaxRows /\ MaxRows \in Nat /\ w \in Seq(Events) /\ es[t] \in Sources
      /\ es[t].lastId \in (0 .. MaxRows) \cup {Null} /\ feed[t] \in Feeds /\ badge[t] \in Badges /\ Null \notin Nat
      /\ TabFits(t) /\ ConnFits(c)
  BY <1>0, HandlersTab, NullAssumption DEF StreamInv, TypeOK
<1>2. Ordered(w, conn[c].cursor, es[t].lastId)
  BY <1>0, <1>1 DEF ConnFits, WireFits
<1>3. CASE ev.name = "expired"
  <2>1. Detach(t, "signedOut") /\ feed' = [feed EXCEPT ![t] = NoFeed] /\ UNCHANGED <<badge, store, slots, skipped>>
    BY <1>0, <1>3 DEF Hear, SignOut
  <2>2. badge \in [Tabs -> Badges]
    BY DEF StreamInv, TypeOK
  <2> QED
    BY <2>1, <2>2, DetachKeeps
<1>4. CASE ev.name # "expired"
  <2>1. /\ wire' = [wire EXCEPT ![c] = Tail(@)]
        /\ es' = [es EXCEPT ![t] = s]
        /\ badge' = IF ev.name = "approvals"
                    THEN [badge EXCEPT ![t] = [@ EXCEPT !.count = ev.queue, !.heard = TRUE]] ELSE badge
        /\ IF ev.name = "audit"
           THEN \E f \in FeedAfter(feed[t], ev.id) : feed' = [feed EXCEPT ![t] = f]
           ELSE UNCHANGED feed
        /\ UNCHANGED conn
    BY <1>0, <1>4 DEF Hear
  <2>2. /\ ev \in Events /\ ev.name \in Marks => ev.id \in 0 .. MaxRows
        /\ ev.name = "approvals" => ev.queue \in Queues
        /\ ev.name = "audit" => ev.name \in Marks
    <3>1. 1 \in DOMAIN w /\ ev = w[1]
      BY <1>0, <1>1, TailOf
    <3> QED
      BY <1>1, <3>1, EventTyped DEF Marks
  <2>3. /\ Ordered(Tail(w), conn[c].cursor, last) /\ last \in 0 .. MaxRows /\ last <= conn[c].cursor
        /\ es[t].lastId = Null => ev.name = "hello"
    BY <1>0, <1>1, <1>2, OrderedTail
  <2>4. last <= newest /\ last # Null
    BY <1>1, <2>3
  <2>5. s \in Sources /\ s.pc = "open" /\ s.conn = c /\ s.fresh = FALSE /\ s.lastId = last
    <3>1. s0 \in Sources /\ s0.pc = "open" /\ s0.conn = c /\ s0.fresh = FALSE /\ s0.lastId = es[t].lastId
      BY <1>0, <1>1 DEF Sources
    <3> HIDE DEF s0
    <3>2. s = [s0 EXCEPT !.lastId = last]
      BY <3>1 DEF Hears, LastAfter, Marks
    <3> HIDE DEF s, last
    <3> QED
      BY <2>3, <3>1, <3>2 DEF Sources
  <2>6. Tail(w) \in Seq(Events)
    BY <1>0, <1>1, TailOf
  <2> HIDE DEF s, s0, last
  <2>7. /\ wire' \in [Conns -> Seq(Events)] /\ wire'[c] = Tail(w) /\ \A d \in Conns \ {c} : wire'[d] = wire[d]
        /\ es' \in [Tabs -> Sources] /\ es'[t] = s /\ \A u \in Tabs \ {t} : es'[u] = es[u]
    BY <2>1, <2>5, <2>6 DEF StreamInv, TypeOK
  <2>8. /\ badge' \in [Tabs -> Badges]
        /\ \A u \in Tabs \ {t} : badge'[u] = badge[u]
        /\ IF ev.name = "approvals" THEN badge'[t].heard /\ badge'[t].count = ev.queue ELSE badge'[t] = badge[t]
    <3>1. CASE ev.name = "approvals"
      <4> DEFINE b == [badge[t] EXCEPT !.count = ev.queue, !.heard = TRUE]
      <4>1. b \in Badges /\ b.heard /\ b.count = ev.queue
        BY <1>1, <2>2, <3>1 DEF Badges
      <4>2. badge' = [badge EXCEPT ![t] = b]
        BY <2>1, <3>1
      <4> HIDE DEF b
      <4> QED
        BY <3>1, <4>1, <4>2 DEF StreamInv, TypeOK
    <3>2. CASE ev.name # "approvals"
      BY <2>1, <3>2 DEF StreamInv, TypeOK
    <3> QED
      BY <3>1, <3>2
  <2>9. ev.name = "audit" => ev.id \in RowIds
    BY <1>1, <1>2, <2>2, <2>3, TailOf, <1>0 DEF Ordered, RowIds
  <2>10. /\ feed' \in [Tabs -> Feeds]
         /\ \A u \in Tabs \ {t} : feed'[u] = feed[u]
         /\ IF ev.name = "audit" THEN feed'[t] \in FeedAfter(feed[t], ev.id) ELSE feed'[t] = feed[t]
    <3>1. CASE ev.name = "audit"
      <4>1. PICK f \in FeedAfter(feed[t], ev.id) : feed' = [feed EXCEPT ![t] = f]
        BY <2>1, <3>1
      <4>2. f \in Feeds
        BY <1>1, <2>9, <3>1, FeedAfterHas DEF TabFits, FeedFits
      <4> QED
        BY <3>1, <4>1, <4>2 DEF StreamInv, TypeOK
    <3>2. CASE ev.name # "audit"
      BY <2>1, <3>2 DEF StreamInv, TypeOK
    <3> QED
      BY <3>1, <3>2
  <2>11. SlotsAreHandlers' /\ TypeOK'
    <3>1. SlotsAreHandlers'
      BY <1>0, <2>1 DEF StreamInv, SlotsAreHandlers
    <3> QED
      BY <1>0, <2>1, <2>7, <2>8, <2>10, <3>1 DEF StreamInv, TypeOK
  <2>12. ConnFits(c)'
    <3>1. ConnTied(c)' /\ HandlerFits(c)' /\ WireFits(c)'
      BY <1>0, <1>1, <2>1, <2>3, <2>5, <2>7 DEF ConnFits, ConnTied, HandlerFits, WireFits
    <3>2. conn[c].told # Null => Telling(w, conn[c].told, badge[t])
      BY <1>0, <1>1 DEF ConnFits, BadgeFits
    <3>3. conn[c].told # Null => Telling(Tail(w), conn[c].told, badge'[t])
      <4> HIDE DEF w
      <4> QED
        BY <1>0, <1>1, <2>8, <3>2, TellingTail
    <3>4. BadgeFits(c)'
      BY <1>0, <2>1, <2>7, <3>3 DEF BadgeFits
    <3> QED
      BY <3>1, <3>4 DEF ConnFits
  <2>13. TabFits(t)'
    <3>1. TabTied(t)' /\ SourceFits(t)'
      BY <1>0, <2>1, <2>4, <2>5, <2>7 DEF TabTied, SourceFits
    <3>2. conn[c].pc # "start"
      BY <1>0 DEF Greeted
    <3>3. Coming(t) = RowsOn(w) \cup {id \in RowIds : id > conn[c].cursor}
      BY <1>0, <3>2 DEF Coming, AuditOn, RowsOn
    <3>4. Coming(t)' = RowsOn(Tail(w)) \cup {id \in RowIds : id > conn[c].cursor}
      <4>1. AuditOn(c)' = RowsOn(Tail(w))
        BY <2>7 DEF AuditOn, RowsOn
      <4> QED
        BY <1>0, <2>1, <2>5, <2>7, <3>2, <4>1 DEF Coming
    <3>5. \A id \in Coming(t) : id \in Coming(t)' \/ (ev.name = "audit" /\ id = ev.id)
      BY <1>0, <1>1, <3>3, <3>4, RowsOnTail
    <3>6. /\ Alive(t) /\ Started(t) /\ FeedFits(t) /\ (es[t].fresh => ev.name = "hello")
      BY <1>0, <1>1, <2>3 DEF TabFits, TabTied, SourceFits, Alive, Started
    <3>7. ASSUME NEW have, NEW more, NEW from, Reached(t, have, from), have \subseteq more,
                 ev.name = "audit" => ev.id \in more
          PROVE  Reached(t, more, from)'
      BY <1>0, <3>5, <3>7 DEF Reached
    <3>8. /\ feed'[t] \in Feeds /\ feed'[t].pc = feed[t].pc /\ feed'[t].top = feed[t].top /\ feed'[t].page = feed[t].page
          /\ feed'[t].pc = "shown" =>
               /\ feed'[t].shown # Null
               /\ feed[t].shown \cup feed[t].held \subseteq feed'[t].shown \cup feed'[t].held
               /\ ev.name = "audit" => ev.id \in feed'[t].shown \cup feed'[t].held
          /\ feed'[t].pc = "loading" =>
               feed[t].buffer \subseteq feed'[t].buffer /\ (ev.name = "audit" => ev.id \in feed'[t].buffer)
      <4>1. feed[t].pc = "shown" => feed[t].shown # Null
        BY <3>6 DEF FeedFits
      <4>2. CASE ev.name = "audit"
        <5> DEFINE g == feed'[t]
        <5>1. g \in FeedAfter(feed[t], ev.id) /\ ev.id \in RowIds
          BY <2>9, <2>10, <4>2
        <5>2. /\ g \in Feeds /\ g.pc = feed[t].pc /\ g.top = feed[t].top /\ g.page = feed[t].page
              /\ g.pc = "shown" => g.shown # Null /\ feed[t].shown \cup feed[t].held \cup {ev.id} \subseteq g.shown \cup g.held
              /\ g.pc = "loading" => feed[t].buffer \cup {ev.id} \subseteq g.buffer
          <6> HIDE DEF g
          <6> QED
            BY <1>1, <4>1, <5>1, FeedAfterHas
        <5> QED
          BY <5>2
      <4>3. CASE ev.name # "audit"
        BY <1>1, <2>10, <4>1, <4>3
      <4> QED
        BY <4>2, <4>3
    <3>9. CASE es[t].fresh
      <4>1. Reached(t, {}, 0) /\ ev.name # "audit"
        BY <3>6, <3>9 DEF FeedFits
      <4>2. \A have : Reached(t, have, 0)'
        BY <3>7, <4>1
      <4>3. feed[t].top \in Nat
        BY <1>1 DEF Feeds
      <4>4. \A have : Reached(t, have, feed[t].top)'
        BY <1>0, <1>1, <4>2, <4>3 DEF Reached
      <4> QED
        BY <2>5, <2>7, <3>1, <3>8, <4>4 DEF TabFits, FeedFits
    <3>10. CASE ~es[t].fresh
      <4> PICK g \in Feeds : g = feed[t]
        BY <1>1
      <4> PICK f \in Feeds : f = feed'[t]
        BY <3>8
      <4>1. /\ g.pc = "shown" => Reached(t, g.shown \cup g.held, g.top)
            /\ g.pc = "loading" /\ g.page # Null => Reached(t, g.buffer, g.top)
        BY <3>6, <3>10 DEF FeedFits
      <4>2. f.pc = "shown" => Reached(t, f.shown \cup f.held, f.top)'
        BY <3>7, <3>8, <4>1
      <4>3. f.pc = "loading" /\ f.page # Null => Reached(t, f.buffer, f.top)'
        BY <3>7, <3>8, <4>1
      <4> QED
        BY <2>5, <2>7, <3>1, <3>8, <4>2, <4>3 DEF TabFits, FeedFits
    <3> QED
      BY <3>9, <3>10
  <2>14. (\A d \in Conns \ {c} : ConnFits(d)') /\ (\A u \in Tabs \ {t} : TabFits(u)')
    BY <1>0, <2>1, <2>7, <2>8, <2>10, OthersKept
  <2> QED
    BY <2>11, <2>12, <2>13, <2>14 DEF StreamInv
<1> QED
  BY <1>3, <1>4

-----------------------------------------------------------------------------
(* The theorems *)

\* Nothing is connected at the start, and no source has an event id.
LEMMA InitFits == Init => StreamInv
<1> SUFFICES ASSUME Init PROVE StreamInv
  OBVIOUS
<1>1. TypeOK
  <2>1. <<>> \in Seq(Events) /\ NoFeed \in Feeds
    BY BoundsAssumption DEF NoFeed, Feeds
  <2> QED
    BY <2>1, BoundsAssumption DEF Init, TypeOK, NoConn, Sources, Badges
<1>2. SlotsAreHandlers
  <2>1. Holders = {}
    BY DEF Init, Holders, NoConn
  <2>2. Cardinality(Holders) = 0
    BY <2>1, FS_EmptySet
  <2>3. slots = 0 /\ 0 <= MaxStreams
    BY BoundsAssumption DEF Init
  <2> QED
    BY <2>2, <2>3 DEF SlotsAreHandlers, Holders
<1>3. ASSUME NEW t \in Tabs PROVE TabFits(t)
  BY DEF Init, TabFits, TabTied, SourceFits, FeedFits, Alive, NoFeed
<1>4. ASSUME NEW c \in Conns PROVE ConnFits(c)
  BY DEF Init, ConnFits, ConnTied, HandlerFits, WireFits, BadgeFits, NoConn, Attached, Greeted
<1> QED
  BY <1>1, <1>2, <1>3, <1>4 DEF StreamInv

\* Every step of Next keeps the invariant.
LEMMA StepFits == StreamInv /\ [Next]_vars => StreamInv'
<1> SUFFICES ASSUME StreamInv, [Next]_vars PROVE StreamInv'
  OBVIOUS
<1>1. CASE AppendAudit \/ ChangeQueue \/ EndSession
  BY <1>1, AppendAuditKeeps, StoreKeeps
<1>2. ASSUME NEW c \in Conns, ServerStep(c) \/ StartFails(c) \/ HandlerStops(c) \/ LeftHandlerStops(c)
      PROVE  StreamInv'
  <2>1. CASE Start(c)
    BY <2>1, StartKeeps
  <2>2. CASE PollSession(c) \/ PollQueue(c) \/ PollAudit(c) \/ PollAgain(c) \/ HandlerStops(c)
    BY <2>2, PollMoves, MovesKeeps
  <2>3. CASE StartFails(c) \/ LeftHandlerStops(c)
    BY <2>3, HandlerGoneKeeps
  <2> QED
    BY <1>2, <2>1, <2>2, <2>3 DEF ServerStep
<1>3. ASSUME NEW t \in Tabs,
             \/ Open(t) \/ Connect(t) \/ Reconnect(t) \/ Close(t)
             \/ WhoAmI(t) \/ WhoAmIFails(t) \/ Retry(t) \/ Hear(t)
             \/ CountRead(t) \/ CountLands(t)
             \/ FeedLoad(t) \/ FeedRead(t) \/ FeedLands(t) \/ FeedFails(t) \/ ShowNew(t)
             \/ FetchRefused(t) \/ FeedLeave(t)
      PROVE  StreamInv'
  <2>1. CASE Open(t) \/ WhoAmIFails(t) \/ Retry(t)
    BY <2>1, SourceKeeps
  <2>2. CASE WhoAmI(t)
    <3>1. CASE sessionLive
      BY <2>2, <3>1, SourceKeeps
    <3>2. CASE ~sessionLive
      BY <2>2, <3>2, DropKeeps
    <3> QED
      BY <3>1, <3>2
  <2>3. CASE Connect(t)
    BY <2>3, SourceKeeps, ConnectKeeps
  <2>4. CASE Reconnect(t) \/ Close(t) \/ FetchRefused(t)
    BY <2>4, DropKeeps
  <2>5. CASE Hear(t)
    BY <2>5, HearKeeps
  <2>6. CASE CountRead(t) \/ CountLands(t)
    BY <2>6, CountKeeps
  <2>7. CASE FeedLoad(t) \/ FeedRead(t) \/ FeedLands(t) \/ FeedFails(t) \/ ShowNew(t) \/ FeedLeave(t)
    BY <2>7, FeedKeeps
  <2> QED
    BY <1>3, <2>1, <2>2, <2>3, <2>4, <2>5, <2>6, <2>7
<1>4. CASE UNCHANGED vars
  <2>1. UNCHANGED <<newest, queue, sessionLive, slots, conn, wire, es, badge, feed, skipped>>
    BY <1>4 DEF vars
  <2>2. TypeOK' /\ SlotsAreHandlers'
    BY <2>1 DEF StreamInv, TypeOK, SlotsAreHandlers
  <2>3. ASSUME NEW c \in Conns PROVE ConnFits(c)'
    BY <2>1, ConnLeftAlone DEF StreamInv
  <2>4. ASSUME NEW t \in Tabs PROVE TabFits(t)'
    BY <2>1, TabLeftAlone DEF StreamInv
  <2> QED
    BY <2>2, <2>3, <2>4 DEF StreamInv
<1> QED
  BY <1>1, <1>2, <1>3, <1>4 DEF Next

\* The inductive invariant holds throughout.
LEMMA StreamInvHolds == Spec => []StreamInv
BY InitFits, StepFits, PTL DEF Spec

\* Every variable of the live console keeps its type: handlers, what is on
\* each connection, sources, badges and feeds (stream.go, api.ts, App.tsx,
\* Activity.tsx).
THEOREM StreamTypeCorrect == Spec => []TypeOK
<1>1. StreamInv => TypeOK
  BY DEF StreamInv
<1> QED
  BY <1>1, StreamInvHolds, PTL

\* Each slot of streamSlots belongs to one handler that runs, and comes back
\* once, however the handler ends: the cap is never exceeded and never leaks.
THEOREM SlotsAreHandlersHolds == Spec => []SlotsAreHandlers
<1>1. StreamInv => SlotsAreHandlers
  BY DEF StreamInv
<1> QED
  BY <1>1, StreamInvHolds, PTL

\* With no approvals event on its way, the badge of App.tsx is what the
\* handler of stream.go believes it told the tab, whenever the first count
\* was read and whenever it lands.
THEOREM BadgeIsWhatWasToldHolds == Spec => []BadgeIsWhatWasTold
<1>1. StreamInv => BadgeIsWhatWasTold
  <2> SUFFICES ASSUME StreamInv, NEW t \in Tabs, NEW c, c = es[t].conn, c # Null, conn[c].told # Null,
                      \A i \in DOMAIN wire[c] : wire[c][i].name # "approvals"
               PROVE  badge[t].count = conn[c].told
    BY DEF BadgeIsWhatWasTold
  <2>1. c \in Conns /\ conn[c].pc \in Attached /\ conn[c].tab = t
    BY DEF StreamInv, TabFits, TabTied, TypeOK, Sources
  <2>2. Telling(wire[c], conn[c].told, badge[t])
    BY <2>1 DEF StreamInv, ConnFits, BadgeFits
  <2> QED
    BY <2>2 DEF Telling
<1> QED
  BY <1>1, StreamInvHolds, PTL

\* While an EventSource of api.ts lives, through any number of broken
\* connections, no row written since the page of Activity.tsx was read is
\* missed: it is in the feed, still to come, or older than the point the
\* source first started from.
THEOREM FeedMissesNothingHolds == Spec => []FeedMissesNothing
<1>1. StreamInv => FeedMissesNothing
  <2> SUFFICES ASSUME StreamInv, NEW t \in Tabs, Followed(t), NEW id \in 1 .. newest, id > feed[t].top
               PROVE  id \in Has(t) \cup skipped[t]
    BY DEF FeedMissesNothing
  <2>1. FeedFits(t) /\ Alive(t) /\ ~es[t].fresh /\ feed[t].pc = "shown"
    BY DEF StreamInv, TabFits, Followed, Alive
  <2> QED
    BY <2>1 DEF FeedFits, Reached, Has
<1> QED
  BY <1>1, StreamInvHolds, PTL
===============================================================================
