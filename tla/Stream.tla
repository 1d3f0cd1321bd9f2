-------------------------------- MODULE Stream --------------------------------
(***************************************************************************)
(* The live console: GET /api/stream (internal/admin/stream.go), the        *)
(* EventSource a tab keeps on it (ui/src/api.ts), the badge that counts     *)
(* waiting requests (ui/src/App.tsx) and the activity feed                  *)
(* (ui/src/views/Activity.tsx).                                             *)
(*                                                                          *)
(* Audit rows are their ids, 1 .. newest, and the feed the set of rows it   *)
(* has folded, however they group into requests.  The pending queue is      *)
(* one value: the ids, count and first approvers that PendingQueue reads in *)
(* one statement.  A connection carries events in order; when it breaks,    *)
(* what is on it is lost, the browser reconnects at once and the handler    *)
(* notices later, holding its slot until then.  The tabs are those of one   *)
(* UI session.                                                              *)
(***************************************************************************)
EXTENDS Naturals, Sequences, FiniteSets

CONSTANTS
  Tabs,
  Conns,                \* connections at one time (a bound)
  Queues,               \* contents of the pending queue
  MaxRows,              \* bound on the audit table
  MaxStreams,           \* slots; the per-session cap, being the lower one
  StreamBatch,          \* rows of one AuditAfter
  StreamCatchUp,        \* rows of one poll
  PageRows,             \* rows of one feed page
  MaxWire,              \* events a connection holds before a write blocks
  Null

ASSUME BoundsAssumption ==
  /\ MaxRows \in Nat /\ MaxStreams \in Nat /\ PageRows \in Nat
  /\ MaxWire \in Nat \ {0} /\ StreamBatch \in Nat \ {0} /\ StreamCatchUp \in Nat \ {0}
  /\ IsFiniteSet(Conns)
ASSUME NullAssumption ==
  /\ Null \notin Nat \cup Queues \cup Conns
  /\ \A ids \in SUBSET (1 .. MaxRows) : ids # Null

VARIABLES
  newest,               \* the newest audit id
  queue,                \* the pending queue
  sessionLive,          \* Auth.live of the session
  slots,                \* streamSlots
  conn,                 \* the handler of each connection
  wire,                 \* the events on each connection
  es,                   \* the EventSource of each tab
  badge,                \* the count of each tab, and its first fetch
  feed,                 \* the activity feed of each tab
  skipped               \* history: rows a new EventSource started after

vars == <<newest, queue, sessionLive, slots, conn, wire, es, badge, feed, skipped>>
store == <<newest, queue, sessionLive>>
server == <<slots, conn, wire>>
tab == <<es, badge, feed, skipped>>

RowIds == 1 .. MaxRows

\* told is the queue as of the last approvals event, Null before the first.
Handlers == [tab : Tabs, pc : {"start", "session", "queue", "audit", "idle", "ended"},
             cursor : 0 .. MaxRows, told : Queues \cup {Null}, n : Nat]
NoConn == [pc |-> "none"]

\* A handler whose browser left polls on until it notices: it holds its
\* slot, and what it reads and writes reaches no one.
Left == [pc |-> "left"]

Events == [name : {"hello", "audit"}, id : 0 .. MaxRows]
          \cup [name : {"approvals"}, queue : Queues]
          \cup [name : {"expired"}]

\* lastId is the browser's last event id; fresh holds until an EventSource
\* has had its first hello.
Sources == [pc : {"off", "connecting", "open", "refused", "limited", "dead", "signedOut"},
            conn : Conns \cup {Null}, lastId : (0 .. MaxRows) \cup {Null}, fresh : BOOLEAN]

Badges == [count : Queues \cup {Null}, heard : BOOLEAN, fetch : Queues \cup {"none", "sent"}]

\* shown is Null while there is no list; top is the newest row when the page
\* was read, and page Null until then.
Feeds == [pc : {"off", "loading", "shown", "failed"}, page : (SUBSET RowIds) \cup {Null},
          top : 0 .. MaxRows, shown : (SUBSET RowIds) \cup {Null},
          held : SUBSET RowIds, buffer : SUBSET RowIds]
NoFeed == [pc |-> "off", page |-> Null, top |-> 0, shown |-> Null, held |-> {}, buffer |-> {}]

TypeOK ==
  /\ newest \in 0 .. MaxRows
  /\ queue \in Queues
  /\ sessionLive \in BOOLEAN
  /\ slots \in Nat
  /\ conn \in [Conns -> Handlers \cup {NoConn, Left}]
  /\ wire \in [Conns -> Seq(Events)]
  /\ es \in [Tabs -> Sources]
  /\ badge \in [Tabs -> Badges]
  /\ feed \in [Tabs -> Feeds]
  /\ skipped \in [Tabs -> SUBSET RowIds]

Init ==
  /\ newest = 0
  /\ queue \in Queues
  /\ sessionLive = TRUE
  /\ slots = 0
  /\ conn = [c \in Conns |-> NoConn]
  /\ wire = [c \in Conns |-> <<>>]
  /\ es = [t \in Tabs |-> [pc |-> "off", conn |-> Null, lastId |-> Null, fresh |-> TRUE]]
  /\ badge = [t \in Tabs |-> [count |-> Null, heard |-> FALSE, fetch |-> "none"]]
  /\ feed = [t \in Tabs |-> NoFeed]
  /\ skipped = [t \in Tabs |-> {}]

-----------------------------------------------------------------------------
(* The store, as the rest of the program changes it *)

AppendAudit == newest < MaxRows /\ newest' = newest + 1 /\ UNCHANGED <<queue, sessionLive, server, tab>>

ChangeQueue == \E q \in Queues \ {queue} : queue' = q /\ UNCHANGED <<newest, sessionLive, server, tab>>

EndSession == sessionLive /\ sessionLive' = FALSE /\ UNCHANGED <<newest, queue, server, tab>>

-----------------------------------------------------------------------------
(* The handler *)

SlotFree == slots < MaxStreams

\* Require and acquire: the answer is a stream, 429 or 401.
Connect(t) ==
  /\ es[t].pc = "connecting" /\ es[t].conn = Null
  /\ \/ /\ sessionLive /\ SlotFree
        /\ slots' = slots + 1
        /\ \E c \in Conns :
             /\ conn[c] = NoConn
             /\ conn' = [conn EXCEPT ![c] = [tab |-> t, pc |-> "start", cursor |-> 0, told |-> Null, n |-> 0]]
             /\ es' = [es EXCEPT ![t].conn = c]
     \/ /\ ~(sessionLive /\ SlotFree)
        /\ es' = [es EXCEPT ![t].pc = "refused"]
        /\ UNCHANGED <<slots, conn>>
  /\ UNCHANGED <<store, wire, badge, feed, skipped>>

EndHandlerKeepingSlot(c) ==          \* mutant: no release on this path
  /\ UNCHANGED slots
  /\ conn' = [conn EXCEPT ![c].pc = "ended"]

\* The handler returns and its slot goes with it, by defer.  What it wrote
\* can still arrive.
EndHandler(c) ==
  /\ slots' = slots - 1
  /\ conn' = [conn EXCEPT ![c].pc = "ended"]

\* A write waits while the connection is full, up to its deadline.
Room(c) == Len(wire[c]) < MaxWire

Write(c, events) == wire' = [wire EXCEPT ![c] = @ \o events]

resumeCursor(lastId) == IF lastId # Null /\ lastId <= newest THEN lastId ELSE newest

\* The newest id, or where the browser's last event left off, and hello.
Start(c) ==
  /\ conn[c].pc = "start"
  /\ LET t    == conn[c].tab
         from == resumeCursor(es[t].lastId)
     IN /\ conn' = [conn EXCEPT ![c] = [@ EXCEPT !.pc = "session", !.cursor = from]]
        /\ Write(c, <<[name |-> "hello", id |-> from]>>)
        /\ skipped' = IF es[t].fresh THEN [skipped EXCEPT ![t] = @ \cup 1 .. from] ELSE skipped
  /\ UNCHANGED <<store, slots, es, badge, feed>>

StartFailsReleasingTwice(c) ==       \* mutant: released by hand, then by defer
  /\ conn[c].pc = "start"
  /\ slots' = slots - 2
  /\ conn' = [conn EXCEPT ![c] = NoConn]
  /\ es' = [t \in Tabs |-> IF es[t].conn = c THEN [es[t] EXCEPT !.pc = "refused", !.conn = Null] ELSE es[t]]
  /\ UNCHANGED <<store, wire, badge, feed, skipped>>

\* The store fails before anything was written: a plain 500.
StartFails(c) ==
  /\ conn[c].pc = "start"
  /\ slots' = slots - 1
  /\ conn' = [conn EXCEPT ![c] = NoConn]
  /\ es' = [t \in Tabs |-> IF es[t].conn = c THEN [es[t] EXCEPT !.pc = "refused", !.conn = Null] ELSE es[t]]
  /\ UNCHANGED <<store, wire, badge, feed, skipped>>

PollSessionTrusting(c) ==            \* mutant: the session is Require's business
  /\ conn[c].pc = "session"
  /\ conn' = [conn EXCEPT ![c].pc = "queue"]
  /\ UNCHANGED <<store, slots, wire, tab>>

PollSession(c) ==
  /\ conn[c].pc = "session" /\ Room(c)
  /\ \/ /\ sessionLive
        /\ conn' = [conn EXCEPT ![c].pc = "queue"]
        /\ UNCHANGED <<slots, wire>>
     \/ /\ ~sessionLive
        /\ Write(c, <<[name |-> "expired"]>>)
        /\ EndHandler(c)
  /\ UNCHANGED <<store, tab>>

PollQueue(c) ==
  /\ conn[c].pc = "queue" /\ Room(c)
  /\ conn' = [conn EXCEPT ![c] = [@ EXCEPT !.pc = "audit", !.told = queue]]
  /\ IF conn[c].told # queue THEN Write(c, <<[name |-> "approvals", queue |-> queue]>>) ELSE UNCHANGED wire
  /\ UNCHANGED <<store, slots, tab>>

Least(m, n) == IF m < n THEN m ELSE n

\* One AuditAfter page.  The loop goes on while pages come back full and the
\* poll's budget lasts.
PollAudit(c) ==
  /\ conn[c].pc = "audit" /\ Room(c)
  /\ LET want == Least(StreamBatch, StreamCatchUp - conn[c].n)
         from == conn[c].cursor
         to   == Least(newest, from + want)
         n    == conn[c].n + (to - from)
     IN /\ Write(c, [i \in 1 .. to - from |-> [name |-> "audit", id |-> from + i]])
        /\ conn' = [conn EXCEPT ![c] =
             IF to - from < want \/ n >= StreamCatchUp
             THEN [@ EXCEPT !.cursor = to, !.n = 0, !.pc = "idle"]
             ELSE [@ EXCEPT !.cursor = to, !.n = n]]
  /\ UNCHANGED <<store, slots, tab>>

\* The ticker.  The heartbeat writes a comment, which no one hears.
PollAgain(c) ==
  /\ conn[c].pc = "idle"
  /\ conn' = [conn EXCEPT ![c].pc = "session"]
  /\ UNCHANGED <<store, slots, wire, tab>>

Streaming(c) == conn[c].pc \in {"session", "queue", "audit", "idle"}

\* A statement fails, or a write does.
HandlerStops(c) ==
  /\ Streaming(c)
  /\ EndHandler(c)
  /\ UNCHANGED <<store, wire, tab>>

\* The handler notices that its browser left: at once, or when a write times
\* out.
LeftHandlerStops(c) ==
  /\ conn[c] = Left
  /\ slots' = slots - 1
  /\ conn' = [conn EXCEPT ![c] = NoConn]
  /\ UNCHANGED <<store, wire, tab>>

-----------------------------------------------------------------------------
(* The tab's EventSource *)

NewSource == [pc |-> "connecting", conn |-> Null, lastId |-> Null, fresh |-> TRUE]

\* App's effect on sign-in: subscribe, open the stream, fetch the count.
Open(t) ==
  /\ es[t].pc = "off" /\ sessionLive
  /\ es' = [es EXCEPT ![t] = NewSource]
  /\ badge' = [badge EXCEPT ![t].fetch = "sent"]
  /\ UNCHANGED <<store, server, feed, skipped>>

\* The connection, if there is one, is gone for the browser, and with it
\* what was on it.
Detach(t, pc) ==
  /\ es' = [es EXCEPT ![t] = [@ EXCEPT !.pc = pc, !.conn = Null]]
  /\ wire' = [c \in Conns |-> IF c = es[t].conn THEN <<>> ELSE wire[c]]
  /\ conn' = [c \in Conns |-> IF c # es[t].conn THEN conn[c]
                              ELSE IF conn[c].pc = "ended" THEN NoConn ELSE Left]

\* The console goes away, and the feed with it.
SignOut(t) == Detach(t, "signedOut") /\ feed' = [feed EXCEPT ![t] = NoFeed]

\* The network breaks, or the handler's last byte was read: EventSource
\* reconnects by itself, with the last event id it has.
Reconnect(t) ==
  /\ es[t].conn # Null
  /\ Detach(t, "connecting")
  /\ UNCHANGED <<store, slots, badge, feed, skipped>>

\* The tab is closed or signed out by its user.
Close(t) ==
  /\ es[t].pc \notin {"off", "signedOut"}
  /\ SignOut(t)
  /\ UNCHANGED <<store, slots, badge, skipped>>

\* A refused stream asks /api/me why.
WhoAmI(t) ==
  /\ es[t].pc = "refused"
  /\ \/ sessionLive /\ es' = [es EXCEPT ![t].pc = "limited"] /\ UNCHANGED <<wire, conn, feed>>
     \/ ~sessionLive /\ SignOut(t)
  /\ UNCHANGED <<store, slots, badge, skipped>>

\* That call fails: nothing will try again, and the tab says Offline.
WhoAmIFails(t) ==
  /\ es[t].pc = "refused"
  /\ es' = [es EXCEPT ![t].pc = "dead"]
  /\ UNCHANGED <<store, server, badge, feed, skipped>>

\* The retry timer makes a new EventSource, which has no last event id.
Retry(t) ==
  /\ es[t].pc = "limited"
  /\ es' = [es EXCEPT ![t] = NewSource]
  /\ UNCHANGED <<store, server, badge, feed, skipped>>

-----------------------------------------------------------------------------
(* What the tab does with an event *)

FoldIn(shown, ids) == IF shown = Null THEN Null ELSE shown \cup ids

\* A row waits while a page loads.  Otherwise it goes in with all that was
\* held back, or is held back itself while someone reads, unless its request
\* is on screen already.
FeedAfter(f, id) ==
  CASE f.pc = "off"     -> {f}
    [] f.pc = "loading" -> {[f EXCEPT !.buffer = @ \cup {id}]}
    [] OTHER            -> {[f EXCEPT !.shown = FoldIn(@, f.held \cup {id}), !.held = {}],
                            [f EXCEPT !.held = @ \cup {id}]}
                           \cup IF f.shown \in {Null, {}} THEN {} ELSE {[f EXCEPT !.shown = @ \cup {id}]}

HearsRowsOnly(s, ev) ==              \* mutant: hello carries no event id
  [s EXCEPT !.lastId = IF ev.name = "audit" THEN ev.id ELSE @]

Hears(s, ev) == [s EXCEPT !.lastId = IF ev.name \in {"hello", "audit"} THEN ev.id ELSE @]

Hear(t) ==
  /\ es[t].conn # Null /\ wire[es[t].conn] # <<>>
  /\ LET c  == es[t].conn
         ev == Head(wire[c])
         s  == Hears([es[t] EXCEPT !.pc = "open", !.fresh = FALSE], ev)
     IN IF ev.name = "expired"
        THEN SignOut(t) /\ UNCHANGED badge
        ELSE /\ wire' = [wire EXCEPT ![c] = Tail(@)]
             /\ es' = [es EXCEPT ![t] = s]
             /\ badge' = IF ev.name = "approvals"
                         THEN [badge EXCEPT ![t] = [@ EXCEPT !.count = ev.queue, !.heard = TRUE]] ELSE badge
             /\ IF ev.name = "audit"
                THEN \E f \in FeedAfter(feed[t], ev.id) : feed' = [feed EXCEPT ![t] = f]
                ELSE UNCHANGED feed
             /\ UNCHANGED conn
  /\ UNCHANGED <<store, slots, skipped>>

CountRead(t) ==
  /\ badge[t].fetch = "sent" /\ sessionLive
  /\ badge' = [badge EXCEPT ![t].fetch = queue]
  /\ UNCHANGED <<store, server, es, feed, skipped>>

CountLandsAnyway(t) ==               \* mutant: the fetch wins when it lands last
  /\ badge[t].fetch \in Queues
  /\ badge' = [badge EXCEPT ![t] = [@ EXCEPT !.fetch = "none", !.count = badge[t].fetch]]
  /\ UNCHANGED <<store, server, es, feed, skipped>>

\* Any event heard by then wins over the fetch.
CountLands(t) ==
  /\ badge[t].fetch \in Queues
  /\ badge' = [badge EXCEPT ![t] =
       [@ EXCEPT !.fetch = "none", !.count = IF badge[t].heard THEN badge[t].count ELSE badge[t].fetch]]
  /\ UNCHANGED <<store, server, es, feed, skipped>>

-----------------------------------------------------------------------------
(* The feed's own fetches *)

\* Activity is opened, or its filter changes: a new page replaces the list,
\* and the answer to an older request is thrown away.
FeedLoad(t) ==
  /\ es[t].pc # "signedOut"
  /\ feed' = [feed EXCEPT ![t] = [@ EXCEPT !.pc = "loading", !.page = Null, !.held = {}, !.buffer = {}]]
  /\ UNCHANGED <<store, server, es, badge, skipped>>

FeedRead(t) ==
  /\ feed[t].pc = "loading" /\ feed[t].page = Null /\ sessionLive
  /\ feed' = [feed EXCEPT ![t] = [@ EXCEPT !.top = newest,
       !.page = {id \in 1 .. newest : id + PageRows > newest}]]
  /\ UNCHANGED <<store, server, es, badge, skipped>>

FeedLandsAlone(t) ==                 \* mutant: the rows that came meanwhile are replaced too
  /\ feed[t].pc = "loading" /\ feed[t].page # Null
  /\ feed' = [feed EXCEPT ![t] = [@ EXCEPT !.pc = "shown", !.shown = feed[t].page,
       !.page = Null, !.buffer = {}]]
  /\ UNCHANGED <<store, server, es, badge, skipped>>

FeedLands(t) ==
  /\ feed[t].pc = "loading" /\ feed[t].page # Null
  /\ feed' = [feed EXCEPT ![t] = [@ EXCEPT !.pc = "shown", !.shown = feed[t].page \cup feed[t].buffer,
       !.page = Null, !.buffer = {}]]
  /\ UNCHANGED <<store, server, es, badge, skipped>>

\* The page says so; the list stays what it was, the buffer unused.
FeedFails(t) ==
  /\ feed[t].pc = "loading"
  /\ feed' = [feed EXCEPT ![t] = [@ EXCEPT !.pc = "failed", !.page = Null]]
  /\ UNCHANGED <<store, server, es, badge, skipped>>

\* The pill, or the end of a pause.
ShowNew(t) ==
  /\ feed[t].held # {}
  /\ feed' = [feed EXCEPT ![t] = [@ EXCEPT !.shown = FoldIn(feed[t].shown, feed[t].held), !.held = {}]]
  /\ UNCHANGED <<store, server, es, badge, skipped>>

\* A fetch whose session is over is answered 401, and any 401 signs out.
FetchRefused(t) ==
  /\ ~sessionLive
  /\ badge[t].fetch = "sent" \/ (feed[t].pc = "loading" /\ feed[t].page = Null)
  /\ badge' = [badge EXCEPT ![t].fetch = IF @ = "sent" THEN "none" ELSE @]
  /\ SignOut(t)
  /\ UNCHANGED <<store, slots, skipped>>

\* Another page of the console is opened.
FeedLeave(t) ==
  /\ feed[t].pc # "off"
  /\ feed' = [feed EXCEPT ![t] = NoFeed]
  /\ UNCHANGED <<store, server, es, badge, skipped>>

-----------------------------------------------------------------------------

ServerStep(c) ==
  Start(c) \/ PollSession(c) \/ PollQueue(c) \/ PollAudit(c) \/ PollAgain(c)

Next ==
  \/ AppendAudit \/ ChangeQueue \/ EndSession
  \/ \E c \in Conns : ServerStep(c) \/ StartFails(c) \/ HandlerStops(c) \/ LeftHandlerStops(c)
  \/ \E t \in Tabs :
       \/ Open(t) \/ Connect(t) \/ Reconnect(t) \/ Close(t)
       \/ WhoAmI(t) \/ WhoAmIFails(t) \/ Retry(t) \/ Hear(t)
       \/ CountRead(t) \/ CountLands(t)
       \/ FeedLoad(t) \/ FeedRead(t) \/ FeedLands(t) \/ FeedFails(t) \/ ShowNew(t)
       \/ FetchRefused(t) \/ FeedLeave(t)

\* The stream is over and read to its end.
AtEnd(t) == es[t].conn # Null /\ conn[es[t].conn].pc = "ended" /\ wire[es[t].conn] = <<>>

\* Goroutines run, tickers and timers fire, and a browser reads what comes,
\* sees the end of a stream, connects and hears its answer.
Fairness ==
  /\ \A c \in Conns : WF_vars(ServerStep(c))
  /\ \A t \in Tabs :
       /\ WF_vars(Connect(t)) /\ WF_vars(Hear(t)) /\ WF_vars(AtEnd(t) /\ Reconnect(t))
       /\ WF_vars(WhoAmI(t) \/ WhoAmIFails(t)) /\ WF_vars(Retry(t))

Spec == Init /\ [][Next]_vars
FairSpec == Spec /\ Fairness

-----------------------------------------------------------------------------
(* Safety *)

AuditOn(c) == {wire[c][i].id : i \in {j \in DOMAIN wire[c] : wire[c][j].name = "audit"}}

\* The rows the tab's EventSource is still to hear.
Coming(t) ==
  LET c == es[t].conn
      After(n) == {id \in RowIds : id > n}
  IN IF c = Null THEN IF es[t].lastId = Null THEN {} ELSE After(es[t].lastId)
     ELSE IF conn[c].pc = "start" THEN After(resumeCursor(es[t].lastId))
     ELSE AuditOn(c) \cup After(conn[c].cursor)

Followed(t) == feed[t].pc = "shown" /\ es[t].pc \in {"connecting", "open"} /\ ~es[t].fresh

Has(t) == feed[t].shown \cup feed[t].held \cup Coming(t)

\* While an EventSource lives, broken connections included, a feed misses no
\* row written since its page was read: it has it, or is still to hear it,
\* or the row is older than the point its EventSource first started from.
\* (The list then keeps its newest requests only, which is not modelled.)
FeedMissesNothing ==
  \A t \in Tabs : Followed(t) =>
    \A id \in 1 .. newest : id > feed[t].top => id \in Has(t) \cup skipped[t]

\* The badge is what the handler believes it told the tab, unless the news
\* is on its way: the first fetch, answered at any time, never puts an older
\* count back.
BadgeIsWhatWasTold ==
  \A t \in Tabs : es[t].conn # Null =>
    LET c == es[t].conn IN
      conn[c].told # Null /\ (\A i \in DOMAIN wire[c] : wire[c][i].name # "approvals") =>
        badge[t].count = conn[c].told

\* A slot is held by each handler that runs and by nothing else, whichever
\* way a handler ends, so a tab is refused only when the cap is in use.
SlotsAreHandlers ==
  /\ slots = Cardinality({c \in Conns : conn[c].pc \notin {"none", "ended"}})
  /\ slots <= MaxStreams

-----------------------------------------------------------------------------
(* Liveness *)

\* No tab follows a session that is over: it is told, or finds out when it
\* reconnects, and signs out (or is offline for good).
StreamEndsWithSession ==
  ~sessionLive ~> \A t \in Tabs : es[t].pc \in {"off", "signedOut", "dead"}
===============================================================================
