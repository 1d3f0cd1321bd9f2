----------------------------- MODULE ServeProofs -----------------------------
(***************************************************************************)
(* What TLAPS proves of Webhook and Serve, for any number of requests,      *)
(* writes, sessions, listeners and slots: type correctness, that slots are  *)
(* reviews, whom a forwarded write is from, that Complete is called once,   *)
(* and that what went around the proxy is told of.                          *)
(***************************************************************************)
EXTENDS Serve, TLAPS, FiniteSetTheorems

-----------------------------------------------------------------------------
(* The semaphore *)

\* The reviews whose handler is in ServeHTTP.
Inside == {w \in Writes : review[w].pc \in InHandler}

SlotsInv ==
  /\ review \in [Writes -> Reviews]
  /\ slots \in 0 .. MaxInFlight
  /\ SlotsAreReviews

\* The reviews inside the handler are finitely many.
LEMMA InsideIsFinite == IsFiniteSet(Inside) /\ Cardinality(Inside) \in Nat
<1>1. Inside \subseteq Writes
  BY DEF Inside
<1>2. QED
  BY <1>1, WebhookAssumption, FS_Subset, FS_CardinalityType

\* A handler enters: one more slot, one more review inside.
LEMMA Enters ==
  ASSUME SlotsInv, NEW w \in Writes, NEW new \in Reviews,
         review[w].pc \notin InHandler, new.pc \in InHandler,
         review' = [review EXCEPT ![w] = new], slots' = slots + 1, slots < MaxInFlight
  PROVE  SlotsInv'
<1>1. Inside' = Inside \cup {w} /\ w \notin Inside
  BY DEF Inside, SlotsInv
<1>2. Cardinality(Inside') = Cardinality(Inside) + 1
  BY <1>1, InsideIsFinite, FS_AddElement
<1>3. slots = Cardinality(Inside)
  BY DEF SlotsInv, SlotsAreReviews, Inside
<1>4. slots' = Cardinality(Inside')
  BY <1>2, <1>3
<1>5. SlotsAreReviews'
  BY <1>4 DEF SlotsAreReviews, Inside
<1>6. slots' \in 0 .. MaxInFlight
  BY WebhookAssumption DEF SlotsInv
<1>7. review' \in [Writes -> Reviews]
  BY DEF SlotsInv
<1>8. QED
  BY <1>5, <1>6, <1>7 DEF SlotsInv

\* A handler returns: its slot is given back.
LEMMA Leaves ==
  ASSUME SlotsInv, NEW w \in Writes, NEW new \in Reviews,
         review[w].pc \in InHandler, new.pc \notin InHandler,
         review' = [review EXCEPT ![w] = new], slots' = slots - 1
  PROVE  SlotsInv'
<1>1. Inside' = Inside \ {w} /\ w \in Inside
  BY DEF Inside, SlotsInv
<1>2. Cardinality(Inside') = Cardinality(Inside) - 1
  BY <1>1, InsideIsFinite, FS_RemoveElement
<1>3. slots = Cardinality(Inside)
  BY DEF SlotsInv, SlotsAreReviews, Inside
<1>4. Cardinality(Inside) # 0
  BY <1>1, InsideIsFinite, FS_EmptySet
<1>5. slots' = Cardinality(Inside')
  BY <1>2, <1>3
<1>6. SlotsAreReviews'
  BY <1>5 DEF SlotsAreReviews, Inside
<1>7. slots' \in 0 .. MaxInFlight
  BY <1>3, <1>4, InsideIsFinite, WebhookAssumption DEF SlotsInv
<1>8. review' \in [Writes -> Reviews]
  BY DEF SlotsInv
<1>9. QED
  BY <1>6, <1>7, <1>8 DEF SlotsInv

\* A handler goes on, or a review is refused without one.
LEMMA Stays ==
  ASSUME SlotsInv, NEW w \in Writes, NEW new \in Reviews,
         review[w].pc \in InHandler <=> new.pc \in InHandler,
         review' = [review EXCEPT ![w] = new], slots' = slots
  PROVE  SlotsInv'
<1>1. Inside' = Inside
  BY DEF Inside, SlotsInv
<1>2. QED
  BY <1>1 DEF SlotsInv, SlotsAreReviews, Inside

\* A step of one review keeps the count.
LEMMA ReviewStep ==
  ASSUME SlotsInv, NEW w \in Writes, SendReview(w) \/ Handle(w)
  PROVE  SlotsInv'
<1> USE DEF InHandler, ReviewAt, ReviewGoto, Return
<1>0. review[w] \in Reviews
  BY DEF SlotsInv
<1>1. ASSUME NEW pc \in InHandler \cup {"allowed", "error"} PROVE [review[w] EXCEPT !.pc = pc] \in Reviews
  BY <1>0, <1>1 DEF Reviews
<1>2. CASE SendReview(w)
  <2> DEFINE via == as[w].session # Nobody
  <2>1. review[w].pc = "none" /\ TakeReview(w, via)
    BY <1>2 DEF SendReview
  <2>2. [pc |-> "body", via |-> via] \in Reviews /\ [pc |-> "error", via |-> via] \in Reviews
    BY DEF Reviews
  <2>3. CASE slots < MaxInFlight
    <3>1. slots # MaxInFlight
      BY <2>3, WebhookAssumption DEF SlotsInv
    <3>2. slots' = slots + 1 /\ review' = [review EXCEPT ![w] = [pc |-> "body", via |-> via]]
      BY <2>1, <3>1 DEF TakeReview
    <3>3. QED
      BY <2>1, <2>2, <2>3, <3>2, Enters
  <2>4. CASE ~(slots < MaxInFlight)
    <3>1. slots' = slots /\ review' = [review EXCEPT ![w] = [pc |-> "error", via |-> via]]
      BY <2>1, <2>4 DEF TakeReview
    <3>2. QED
      BY <2>1, <2>2, <3>1, Stays
  <2>5. QED
    BY <2>3, <2>4
<1>3. CASE ReadReview(w) \/ AllowUnread(w) \/ Record(w) \/ RecordFails(w)
  <2>1. PICK pc \in {"record", "allow"} :
          /\ review[w].pc \in {"body", "record"}
          /\ review' = [review EXCEPT ![w].pc = pc]
          /\ slots' = slots
    BY <1>3 DEF ReadReview, AllowUnread, Record, RecordFails
  <2>2. review' = [review EXCEPT ![w] = [review[w] EXCEPT !.pc = pc]]
    BY <2>1
  <2>3. [review[w] EXCEPT !.pc = pc].pc = pc
    BY <1>0 DEF Reviews
  <2>4. QED
    BY <1>1, <2>1, <2>2, <2>3, Stays
<1>4. CASE RefuseReview(w) \/ Allow(w)
  <2>1. PICK pc \in {"error", "allowed"} :
          /\ review[w].pc \in {"body", "allow"}
          /\ review' = [review EXCEPT ![w].pc = pc]
          /\ slots' = slots - 1
    BY <1>4 DEF RefuseReview, Allow
  <2>2. review' = [review EXCEPT ![w] = [review[w] EXCEPT !.pc = pc]]
    BY <2>1
  <2>3. [review[w] EXCEPT !.pc = pc].pc = pc
    BY <1>0 DEF Reviews
  <2>4. QED
    BY <1>1, <2>1, <2>2, <2>3, Leaves
<1>5. QED
  BY <1>2, <1>3, <1>4 DEF Handle, ReviewEnds

\* Whoever dies, the process that starts next has every slot.
LEMMA ExitStep == ASSUME SlotsInv, Exit PROVE SlotsInv'
<1>1. slots' = 0 /\ review' = [w \in Writes |-> IF review[w].pc \in InHandler THEN [review[w] EXCEPT !.pc = "error"]
                                                                            ELSE review[w]]
  BY DEF Exit
<1>2. review' \in [Writes -> Reviews]
  BY <1>1 DEF SlotsInv, Reviews, InHandler
<1>3. Inside' = {}
  BY <1>1 DEF SlotsInv, Inside, InHandler, Reviews
<1>4. Cardinality(Inside') = 0
  BY <1>3, FS_EmptySet
<1>5. QED
  BY <1>1, <1>2, <1>4, WebhookAssumption DEF SlotsInv, SlotsAreReviews, Inside

\* Nobody is inside at the start.
LEMMA SlotsInitially == Init => SlotsInv
<1> SUFFICES ASSUME Init PROVE SlotsInv
  OBVIOUS
<1>1. slots = 0 /\ review = [w \in Writes |-> [pc |-> "none", via |-> FALSE]]
  BY DEF Init, WebhookInit
<1>2. Inside = {}
  BY <1>1 DEF Inside, InHandler
<1>3. Cardinality(Inside) = 0
  BY <1>2, FS_EmptySet
<1>4. QED
  BY <1>1, <1>3, WebhookAssumption DEF SlotsInv, SlotsAreReviews, Inside, Reviews, InHandler

\* Every step keeps the count.
LEMMA SlotsStep == SlotsInv /\ [Next]_vars => SlotsInv'
<1> SUFFICES ASSUME SlotsInv, [Next]_vars PROVE SlotsInv'
  OBVIOUS
<1>1. CASE UNCHANGED webhookVars
  BY <1>1 DEF webhookVars, SlotsInv, SlotsAreReviews
<1>2. CASE Exit
  BY <1>2, ExitStep
<1>3. CASE \E w \in Writes : SendReview(w) \/ Handle(w)
  BY <1>3, ReviewStep
<1>4. CASE Start \/ BindFails \/ Shutdown \/ Expire \/ Close \/ Tick
  BY <1>1, <1>4 DEF Start, BindFails, Shutdown, Expire, Close, Tick
<1>5. CASE \E l \in Listeners : Bind(l) \/ ListenerFails(l)
  BY <1>1, <1>5 DEF Bind, ListenerFails
<1>6. CASE \E s \in SessionIds : NewSession(s) \/ Revoke(s)
  BY <1>1, <1>6 DEF NewSession, Revoke
<1>7. CASE \E r \in Requests : Send(r) \/ Decided(r) \/ Answer(r)
  BY <1>1, <1>7 DEF Send, Decided, Answer, Lookup, Judge, ReadBody, Measure, MeasureEnds, Refuse, Forward, Complete
<1>8. CASE \E w \in Writes : WriteDirectly(w) \/ EndAdmission(w)
  BY <1>1, <1>8 DEF WriteDirectly, EndAdmission
<1>9. CASE UNCHANGED vars
  BY <1>1, <1>9 DEF vars
<1>10. QED
  BY <1>2, <1>3, <1>4, <1>5, <1>6, <1>7, <1>8, <1>9 DEF Next

\* For any number of reviews and slots, the semaphore holds exactly the handlers
\* in ServeHTTP, whatever return they take and whenever the process dies.
THEOREM SlotsAreReviewsHolds == Spec => []SlotsAreReviews
<1>1. SlotsInv => SlotsAreReviews
  BY DEF SlotsInv
<1>2. QED
  BY <1>1, SlotsInitially, SlotsStep, PTL DEF Spec

-----------------------------------------------------------------------------
(* The proxy's handlers *)

Early == {"idle", "lookup", "judge", "body"}
Late == Deciding \cup {"sent", "complete"}

\* What r's handler h has established where it stands: a session that was over
\* when the request was sent shows it in the table, then in the copy; past the
\* checks it was not over and brought no identity.
Checked(h) ==
  /\ h.pc # "idle" => h.s \in SessionIds /\ sessions[h.s] \in Rows
  /\ h.pc = "lookup" /\ h.over => ~Live(sessions[h.s], now)
  /\ h.pc = "judge" => h.row \in Rows /\ (h.over => ~Live(h.row, now))
  /\ h.pc \in {"body"} \cup Late => ~h.over /\ h.asks # "header"
  /\ h.pc \in Late => h.asks = "nothing"

Counted(r, h) ==
  /\ h.pc \in Early => ~h.seen
  /\ h.pc \in Late => h.seen
  /\ h.pc \in Early \cup Late => completes[r] = 0
  /\ h.pc = "done" => completes[r] = IF h.seen THEN 1 ELSE 0

Marked(r, h, w) ==
  api[w] # "none" => /\ h.pc \notin Early
                     /\ as[w] = [user |-> Human[h.s], session |-> h.s, own |-> FALSE]
                     /\ ~h.over

Sound(r, h) == Checked(h) /\ Counted(r, h) /\ Marked(r, h, DryRun[r]) /\ Marked(r, h, Real[r])

HandlerTypes ==
  /\ req \in [Requests -> Handlers]
  /\ sessions \in [SessionIds -> Rows \cup {Nobody}]
  /\ now \in 0 .. MaxTime
  /\ completes \in [Requests -> 0 .. 1]
  /\ api \in [Writes -> {"none", "admission", "stored"}]
  /\ as \in [Writes -> Identities]

HandlerInv == HandlerTypes /\ \A r \in Requests : Sound(r, req[r])

\* The invariant holds of handlers that have not begun.
LEMMA HandlersInitially == Init => HandlerInv
<1> SUFFICES ASSUME Init PROVE HandlerInv
  OBVIOUS
<1> USE DEF Init
<1>1. HandlerTypes
  BY ServeAssumption DEF HandlerTypes, Handlers, Handling, Identities
<1>2. ASSUME NEW r \in Requests PROVE Sound(r, req[r])
  BY ServeAssumption DEF Sound, Checked, Counted, Marked, Early, Late, Deciding
<1>3. QED
  BY <1>1, <1>2 DEF HandlerInv

\* One handler moves, and nothing it shares with the others.
LEMMA Moves ==
  ASSUME HandlerInv, NEW r \in Requests, NEW new \in Handlers, Sound(r, new),
         req' = [req EXCEPT ![r] = new], UNCHANGED <<sessionVars, completes, apiVars>>
  PROVE  HandlerInv'
<1> USE DEF sessionVars, apiVars
<1>1. HandlerTypes'
  BY DEF HandlerInv, HandlerTypes
<1>2. ASSUME NEW q \in Requests PROVE Sound(q, req[q])'
  <2>1. Sound(q, req'[q])
    BY DEF HandlerInv, HandlerTypes
  <2>2. QED
    BY <2>1 DEF Sound, Checked, Counted, Marked
<1>3. QED
  BY <1>1, <1>2 DEF HandlerInv

\* The record HandlerGoto makes.
LEMMA Gone ==
  ASSUME NEW h \in Handlers, NEW pc \in Handling \cup {"done", "cut"}
  PROVE  LET n == [h EXCEPT !.pc = pc]
         IN /\ n \in Handlers /\ n.pc = pc /\ n.s = h.s /\ n.row = h.row
            /\ n.asks = h.asks /\ n.over = h.over /\ n.seen = h.seen
BY DEF Handlers

\* The checks before Decide keep the invariant.
LEMMA CheckSteps ==
  ASSUME HandlerInv, NEW r \in Requests, Send(r) \/ Lookup(r) \/ Judge(r) \/ ReadBody(r)
  PROVE  HandlerInv'
<1> USE DEF Sound, Checked, Counted, Marked, Early, Late, Deciding, Handling, Handler, HandlerGoto
<1>0. req[r] \in Handlers /\ Sound(r, req[r])
  BY DEF HandlerInv, HandlerTypes
<1>1. CASE Send(r)
  <2>1. PICK s \in SessionIds, asks \in {"nothing", "header", "trailer"} :
          /\ sessions[s] # Nobody
          /\ req' = [req EXCEPT ![r] = [pc |-> "lookup", s |-> s, row |-> Nobody, asks |-> asks,
                                        over |-> ~Live(sessions[s], now), seen |-> FALSE]]
    BY <1>1 DEF Send
  <2> DEFINE n == [pc |-> "lookup", s |-> s, row |-> Nobody, asks |-> asks, over |-> ~Live(sessions[s], now), seen |-> FALSE]
  <2>2. req[r].pc = "idle" /\ UNCHANGED <<sessionVars, completes, apiVars>>
    BY <1>1 DEF Send
  <2>3. sessions[s] \in Rows
    BY <2>1 DEF HandlerInv, HandlerTypes
  <2>4. n \in Handlers
    BY DEF Handlers, Live
  <2>5. n.pc = "lookup" /\ n.s = s /\ n.seen = FALSE /\ (n.over => ~Live(sessions[s], now))
    OBVIOUS
  <2> HIDE DEF n
  <2>6. Sound(r, n)
    BY <1>0, <2>2, <2>3, <2>5
  <2>7. QED
    BY <2>1, <2>2, <2>4, <2>6, Moves DEF n
<1>2. CASE Lookup(r)
  <2>1. req[r].pc = "lookup" /\ UNCHANGED <<sessionVars, completes, apiVars>>
    BY <1>2 DEF Lookup
  <2>2. CASE StoreOpen
    <3> DEFINE n == [req[r] EXCEPT !.pc = "judge", !.row = sessions[req[r].s]]
    <3>1. req' = [req EXCEPT ![r] = n]
      BY <1>2, <2>2 DEF Lookup
    <3>2. n \in Handlers
      BY <1>0, <2>1 DEF Handlers
    <3>3. n.pc = "judge" /\ n.s = req[r].s /\ n.row = sessions[req[r].s] /\ n.over = req[r].over /\ n.seen = req[r].seen
      BY <1>0 DEF Handlers
    <3> HIDE DEF n
    <3>4. Sound(r, n)
      BY <1>0, <2>1, <3>3
    <3>5. QED
      BY <2>1, <3>1, <3>2, <3>4, Moves
  <2>3. CASE ~StoreOpen
    <3> DEFINE n == [req[r] EXCEPT !.pc = "done"]
    <3>1. req' = [req EXCEPT ![r] = n]
      BY <1>2, <2>3 DEF Lookup
    <3>2. n \in Handlers /\ n.pc = "done" /\ n.s = req[r].s /\ n.seen = req[r].seen
      BY <1>0, Gone
    <3> HIDE DEF n
    <3>3. Sound(r, n)
      BY <1>0, <2>1, <3>2
    <3>4. QED
      BY <2>1, <3>1, <3>2, <3>3, Moves
  <2>4. QED
    BY <2>2, <2>3
<1>3. CASE Judge(r)
  <2>1. req[r].pc = "judge" /\ UNCHANGED <<sessionVars, completes, apiVars>>
    BY <1>3 DEF Judge
  <2>2. PICK pc \in {"body", "done"} :
          /\ pc = "body" => Live(req[r].row, now) /\ req[r].asks # "header"
          /\ req' = [req EXCEPT ![r] = [req[r] EXCEPT !.pc = pc]]
    BY <1>3 DEF Judge
  <2> DEFINE n == [req[r] EXCEPT !.pc = pc]
  <2>3. /\ n \in Handlers /\ n.pc = pc /\ n.s = req[r].s /\ n.asks = req[r].asks
        /\ n.over = req[r].over /\ n.seen = req[r].seen
    BY <1>0, Gone
  <2> HIDE DEF n
  <2>4. Sound(r, n)
    BY <1>0, <2>1, <2>2, <2>3
  <2>5. QED
    BY <2>1, <2>2, <2>3, <2>4, Moves DEF n
<1>4. CASE ReadBody(r)
  <2>1. req[r].pc = "body" /\ UNCHANGED <<sessionVars, completes, apiVars>>
    BY <1>4 DEF ReadBody
  <2>2. CASE req' = [req EXCEPT ![r] = [req[r] EXCEPT !.pc = "done"]]
    <3> DEFINE n == [req[r] EXCEPT !.pc = "done"]
    <3>1. n \in Handlers /\ n.pc = "done" /\ n.s = req[r].s /\ n.seen = req[r].seen
      BY <1>0, Gone
    <3> HIDE DEF n
    <3>2. Sound(r, n)
      BY <1>0, <2>1, <3>1
    <3>3. QED
      BY <2>1, <2>2, <3>1, <3>2, Moves DEF n
  <2>3. CASE req[r].asks # "trailer" /\ req' = [req EXCEPT ![r] = [req[r] EXCEPT !.pc = "decide", !.seen = TRUE]]
    <3> DEFINE n == [req[r] EXCEPT !.pc = "decide", !.seen = TRUE]
    <3>1. n \in Handlers
      BY <1>0 DEF Handlers
    <3>2. n.pc = "decide" /\ n.s = req[r].s /\ n.over = req[r].over /\ n.asks = req[r].asks /\ n.seen = TRUE
      BY <1>0 DEF Handlers
    <3>3. req[r].asks = "nothing"
      BY <1>0, <2>1, <2>3 DEF Handlers
    <3> HIDE DEF n
    <3>4. Sound(r, n)
      BY <1>0, <2>1, <3>2, <3>3
    <3>5. QED
      BY <2>1, <2>3, <3>1, <3>4, Moves DEF n
  <2>4. QED
    BY <1>4, <2>2, <2>3 DEF ReadBody
<1>5. QED
  BY <1>1, <1>2, <1>3, <1>4

\* Decide goes on, or the answer ends.
LEMMA DecideSteps ==
  ASSUME HandlerInv, NEW r \in Requests, NEW pc \in {"held", "complete"},
         req[r].pc \in {"decide", "measure", "held", "sent"}, HandlerGoto(r, pc),
         UNCHANGED <<sessionVars, completes, apiVars>>
  PROVE  HandlerInv'
<1> USE DEF Sound, Checked, Counted, Marked, Early, Late, Deciding, Handling
<1> DEFINE n == [req[r] EXCEPT !.pc = pc]
<1>1. req[r] \in Handlers /\ Sound(r, req[r])
  BY DEF HandlerInv, HandlerTypes
<1>2. req' = [req EXCEPT ![r] = n]
  BY DEF Handler, HandlerGoto
<1>3. /\ n \in Handlers /\ n.pc = pc /\ n.s = req[r].s /\ n.asks = req[r].asks
      /\ n.over = req[r].over /\ n.seen = req[r].seen
  BY <1>1, Gone
<1> HIDE DEF n
<1>4. Sound(r, n)
  BY <1>1, <1>3
<1>5. QED
  BY <1>2, <1>3, <1>4, Moves

\* A write of r's reaches the API server: it is signed with what the checks
\* established, and it is no other request's.
LEMMA Admits ==
  ASSUME HandlerInv, NEW r \in Requests, NEW w \in {DryRun[r], Real[r]}, NEW pc \in {"measure", "sent"},
         req[r].pc \in {"decide", "held"}, Admit(w, r), HandlerGoto(r, pc),
         UNCHANGED <<sessionVars, completes>>
  PROVE  HandlerInv'
<1> DEFINE n == [req[r] EXCEPT !.pc = pc]
           id == [user |-> Human[req[r].s], session |-> req[r].s, own |-> FALSE]
<1>1. req[r] \in Handlers /\ Sound(r, req[r])
  BY DEF HandlerInv, HandlerTypes
<1>2. req' = [req EXCEPT ![r] = n]
  BY DEF Handler, HandlerGoto
<1>3. /\ n \in Handlers /\ n.pc = pc /\ n.s = req[r].s /\ n.asks = req[r].asks
      /\ n.over = req[r].over /\ n.seen = req[r].seen
  BY <1>1, Gone DEF Handling, Deciding
<1>4. req[r].s \in SessionIds /\ req[r].asks = "nothing" /\ ~req[r].over /\ sessions[req[r].s] \in Rows
  BY <1>1 DEF Sound, Checked, Late, Deciding
<1>5. api' = [api EXCEPT ![w] = "admission"] /\ as' = [as EXCEPT ![w] = id]
  BY <1>4 DEF Admit
<1>6. w \in Writes /\ DryRun[r] \in Writes /\ Real[r] \in Writes
  BY ServeAssumption
<1>7. id \in Identities
  BY <1>4 DEF Identities
<1>8. HandlerTypes'
  BY <1>2, <1>3, <1>5, <1>6, <1>7 DEF HandlerInv, HandlerTypes, sessionVars
<1>9. Sound(r, req[r])'
  <2>1. req'[r] = n
    BY <1>2 DEF HandlerInv, HandlerTypes
  <2>2. /\ n.pc \in Late /\ n.pc \notin Early /\ n.pc # "done" /\ n.pc \notin {"lookup", "judge"}
        /\ req[r].pc \in Late
    BY <1>3 DEF Late, Early, Deciding
  <2>3. UNCHANGED <<sessions, now, completes>>
    BY DEF sessionVars
  <2>4. Checked(req[r])'
    BY <1>3, <1>4, <2>1, <2>2, <2>3 DEF Checked
  <2>5. Counted(r, req[r])'
    BY <1>1, <1>3, <2>1, <2>2, <2>3 DEF Sound, Counted
  <2>6. ASSUME NEW v \in {DryRun[r], Real[r]} PROVE Marked(r, req[r], v)'
    <3>1. api[v] # "none" => as[v] = id
      BY <1>1, <2>6 DEF Sound, Marked
    <3>2. v \in Writes
      BY <1>6
    <3>3. api'[v] # "none" => as'[v] = id
      BY <1>5, <1>6, <3>1, <3>2 DEF HandlerInv, HandlerTypes
    <3>4. QED
      BY <1>3, <1>4, <2>1, <2>2, <3>3 DEF Marked
  <2>7. Marked(r, req[r], DryRun[r])' /\ Marked(r, req[r], Real[r])'
    BY <2>6
  <2>8. QED
    BY <2>4, <2>5, <2>7 DEF Sound
<1>10. ASSUME NEW q \in Requests, q # r PROVE Sound(q, req[q])'
  <2>1. DryRun[q] \in Writes \ {w} /\ Real[q] \in Writes \ {w}
    BY <1>10, ServeAssumption
  <2>2. /\ api'[DryRun[q]] = api[DryRun[q]] /\ api'[Real[q]] = api[Real[q]]
        /\ as'[DryRun[q]] = as[DryRun[q]] /\ as'[Real[q]] = as[Real[q]]
    BY <1>5, <2>1 DEF HandlerInv, HandlerTypes
  <2>3. Sound(q, req[q]) /\ req'[q] = req[q]
    BY <1>2, <1>10 DEF HandlerInv, HandlerTypes
  <2>4. QED
    BY <2>2, <2>3 DEF Sound, Checked, Counted, Marked, sessionVars
<1>11. QED
  BY <1>8, <1>9, <1>10 DEF HandlerInv

\* The deferred Complete keeps the invariant.
LEMMA CompleteStep ==
  ASSUME HandlerInv, NEW r \in Requests, Complete(r)
  PROVE  HandlerInv'
<1> DEFINE n == [req[r] EXCEPT !.pc = "done"]
<1>1. req[r] \in Handlers /\ Sound(r, req[r]) /\ req[r].pc = "complete"
  BY DEF HandlerInv, HandlerTypes, Complete
<1>2. req' = [req EXCEPT ![r] = n] /\ UNCHANGED <<sessions, now, api, as>>
  BY DEF Complete, Handler, HandlerGoto, sessionVars, apiVars
<1>3. /\ n \in Handlers /\ n.pc = "done" /\ n.s = req[r].s /\ n.asks = req[r].asks
      /\ n.over = req[r].over /\ n.seen = req[r].seen
  BY <1>1, Gone
<1>4. completes[r] = 0 /\ req[r].seen
  BY <1>1 DEF Sound, Counted, Late
<1>5. completes' = [completes EXCEPT ![r] = 1]
  BY <1>4 DEF Complete
<1>6. HandlerTypes'
  <2>1. completes' \in [Requests -> 0 .. 1]
    BY <1>5 DEF HandlerInv, HandlerTypes
  <2>2. req' \in [Requests -> Handlers]
    BY <1>2, <1>3 DEF HandlerInv, HandlerTypes
  <2>3. QED
    BY <1>2, <2>1, <2>2 DEF HandlerInv, HandlerTypes
<1>7. Sound(r, req[r])'
  <2>1. req'[r] = n /\ completes'[r] = 1
    BY <1>2, <1>5 DEF HandlerInv, HandlerTypes
  <2>2. Sound(r, req[r])' <=> Checked(n)' /\ Counted(r, n)' /\ Marked(r, n, DryRun[r])' /\ Marked(r, n, Real[r])'
    BY <2>1 DEF Sound
  <2> HIDE DEF n
  <2>3. QED
    BY <1>1, <1>2, <1>3, <1>4, <2>1 DEF Sound, Checked, Counted, Marked, Early, Late, Deciding
<1>8. ASSUME NEW q \in Requests, q # r PROVE Sound(q, req[q])'
  <2>1. Sound(q, req[q]) /\ req'[q] = req[q] /\ completes'[q] = completes[q]
    BY <1>2, <1>5, <1>8 DEF HandlerInv, HandlerTypes
  <2>2. UNCHANGED <<sessions, now, api, as>>
    BY <1>2
  <2>3. Counted(q, req[q])'
    BY <2>1 DEF Sound, Counted
  <2>4. Checked(req[q])'
    BY <2>1, <2>2 DEF Sound, Checked
  <2>5. Marked(q, req[q], DryRun[q])' /\ Marked(q, req[q], Real[q])'
    BY <2>1, <2>2 DEF Sound, Marked
  <2>6. QED
    BY <2>3, <2>4, <2>5 DEF Sound
<1>9. QED
  BY <1>6, <1>7, <1>8 DEF HandlerInv

\* The process dies: a handler that is cut has nothing left to establish.
LEMMA CutStep == ASSUME HandlerInv, Exit PROVE HandlerInv'
<1>1. /\ req' = [r \in Requests |-> IF req[r].pc \in Handling THEN [req[r] EXCEPT !.pc = "cut"] ELSE req[r]]
      /\ UNCHANGED <<sessions, now, completes, api, as>>
  BY DEF Exit, sessionVars, apiVars
<1>2. ASSUME NEW r \in Requests PROVE req'[r] \in Handlers /\ Sound(r, req[r])'
  <2>1. req[r] \in Handlers /\ Sound(r, req[r])
    BY DEF HandlerInv, HandlerTypes
  <2>2. CASE req[r].pc \in Handling
    <3> DEFINE n == [req[r] EXCEPT !.pc = "cut"]
    <3>1. n \in Handlers /\ n.pc = "cut" /\ n.s = req[r].s /\ n.over = req[r].over
      BY <2>1, Gone
    <3>2. req'[r] = n
      BY <1>1, <2>2
    <3>3. req[r].pc # "idle"
      BY <2>2 DEF Handling, Deciding
    <3> HIDE DEF n
    <3>4. UNCHANGED <<sessions, now, completes, api, as>>
      BY <1>1
    <3>5. Checked(req[r])'
      BY <2>1, <3>1, <3>2, <3>3, <3>4 DEF Sound, Checked, Late, Deciding
    <3>6. Counted(r, req[r])'
      BY <3>1, <3>2 DEF Counted, Early, Late, Deciding
    <3>7. Marked(r, req[r], DryRun[r])' /\ Marked(r, req[r], Real[r])'
      BY <2>1, <3>1, <3>2, <3>4 DEF Sound, Marked, Early
    <3>8. QED
      BY <3>1, <3>2, <3>5, <3>6, <3>7 DEF Sound
  <2>3. CASE req[r].pc \notin Handling
    <3>1. req'[r] = req[r]
      BY <1>1, <2>3
    <3>2. UNCHANGED <<sessions, now, completes, api, as>>
      BY <1>1
    <3>3. Counted(r, req[r])' /\ Checked(req[r])'
      BY <2>1, <3>1, <3>2 DEF Sound, Counted, Checked
    <3>4. Marked(r, req[r], DryRun[r])' /\ Marked(r, req[r], Real[r])'
      BY <2>1, <3>1, <3>2 DEF Sound, Marked
    <3>5. QED
      BY <2>1, <3>1, <3>3, <3>4 DEF Sound
  <2>4. QED
    BY <2>2, <2>3
<1>3. req' \in [Requests -> Handlers]
  BY <1>1, <1>2
<1>4. HandlerTypes'
  BY <1>1, <1>3 DEF HandlerInv, HandlerTypes
<1>5. QED
  BY <1>2, <1>4 DEF HandlerInv

\* A session that is over stays over, and a row that is there stays there.
OverStaysOver ==
  /\ sessions' \in [SessionIds -> Rows \cup {Nobody}]
  /\ now' \in 0 .. MaxTime
  /\ \A s \in SessionIds : sessions[s] \in Rows =>
       /\ sessions'[s] \in Rows
       /\ ~Live(sessions[s], now) => ~Live(sessions'[s], now')
  /\ \A row \in Rows : ~Live(row, now) => ~Live(row, now')

\* A revocation and the clock end sessions and bring none back.
LEMMA SessionSteps ==
  ASSUME HandlerInv, Tick \/ \E s \in SessionIds : NewSession(s) \/ Revoke(s)
  PROVE  HandlerInv'
<1>1. UNCHANGED <<req, completes, api, as>>
  BY DEF Tick, NewSession, Revoke, proxyVars, apiVars
<1>2. OverStaysOver
  <2>0. sessions \in [SessionIds -> Rows \cup {Nobody}] /\ now \in 0 .. MaxTime
    BY DEF HandlerInv, HandlerTypes
  <2>1. CASE Tick
    <3>1. now' = now + 1 /\ now < MaxTime /\ sessions' = sessions
      BY <2>1 DEF Tick
    <3>2. now' \in 0 .. MaxTime
      BY <2>0, <3>1, ServeAssumption
    <3>3. ASSUME NEW row \in Rows, ~Live(row, now) PROVE ~Live(row, now')
      BY <2>0, <3>1, <3>3 DEF Live, Rows
    <3>4. QED
      BY <2>0, <3>1, <3>2, <3>3 DEF OverStaysOver
  <2>2. ASSUME NEW s \in SessionIds, NewSession(s) PROVE OverStaysOver
    <3> DEFINE new == [expires |-> now + SessionTTL, revoked |-> Never]
    <3>1. sessions[s] = Nobody /\ sessions' = [sessions EXCEPT ![s] = new] /\ now' = now
      BY <2>2 DEF NewSession
    <3>2. Never \in 0 .. Never /\ now + SessionTTL \in Nat
      BY <2>0, ServeAssumption DEF Never
    <3>3. new \in Rows
      BY <3>2 DEF Rows
    <3> HIDE DEF new
    <3>4. sessions' \in [SessionIds -> Rows \cup {Nobody}]
      BY <2>0, <3>1, <3>3
    <3>5. ASSUME NEW t \in SessionIds, sessions[t] \in Rows PROVE sessions'[t] = sessions[t]
      BY <2>0, <3>1, <3>5, NobodyAssumption
    <3>6. QED
      BY <2>0, <3>1, <3>4, <3>5 DEF OverStaysOver
  <2>3. ASSUME NEW s \in SessionIds, Revoke(s) PROVE OverStaysOver
    <3> DEFINE new == [sessions[s] EXCEPT !.revoked = IF @ = Never THEN now ELSE @]
    <3>1. sessions[s] \in Rows /\ sessions' = [sessions EXCEPT ![s] = new] /\ now' = now
      BY <2>0, <2>3 DEF Revoke
    <3>2. now \in 0 .. Never /\ now # Never
      BY <2>0, ServeAssumption DEF Never
    <3>3. new \in Rows /\ new.revoked # Never
      BY <3>1, <3>2 DEF Rows
    <3> HIDE DEF new
    <3>4. sessions' \in [SessionIds -> Rows \cup {Nobody}]
      BY <2>0, <3>1, <3>3
    <3>5. ~Live(new, now)
      BY <3>3 DEF Live
    <3>6. ASSUME NEW t \in SessionIds PROVE sessions'[t] = IF t = s THEN new ELSE sessions[t]
      BY <2>0, <3>1
    <3>7. QED
      BY <2>0, <3>1, <3>3, <3>4, <3>5, <3>6 DEF OverStaysOver
  <2>4. QED
    BY <2>1, <2>2, <2>3
<1>3. HandlerTypes'
  BY <1>1, <1>2 DEF HandlerInv, HandlerTypes, OverStaysOver
<1>4. ASSUME NEW r \in Requests PROVE Sound(r, req[r])'
  <2>1. Sound(r, req[r]) /\ req'[r] = req[r]
    BY <1>1 DEF HandlerInv
  <2>2. Counted(r, req[r])' /\ Marked(r, req[r], DryRun[r])' /\ Marked(r, req[r], Real[r])'
    BY <1>1, <2>1 DEF Sound, Counted, Marked
  <2>3. Checked(req[r])'
    BY <1>2, <2>1 DEF Sound, Checked, OverStaysOver
  <2>4. QED
    BY <2>2, <2>3 DEF Sound
<1>5. QED
  BY <1>3, <1>4 DEF HandlerInv

\* The API server's own steps: nobody else's write is a request's, and an
\* admission that ends leaves whom it took the write to be from.
LEMMA ClusterSteps ==
  ASSUME HandlerInv, NEW w \in Writes, WriteDirectly(w) \/ EndAdmission(w)
  PROVE  HandlerInv'
<1>1. UNCHANGED <<req, completes, sessions, now, as>>
  BY DEF WriteDirectly, EndAdmission, proxyVars, sessionVars
<1>2. api' \in [Writes -> {"none", "admission", "stored"}]
  BY DEF HandlerInv, HandlerTypes, WriteDirectly, EndAdmission
<1>3. HandlerTypes'
  BY <1>1, <1>2 DEF HandlerInv, HandlerTypes
<1>4. ASSUME NEW r \in Requests, NEW v \in {DryRun[r], Real[r]} PROVE api'[v] # "none" => api[v] # "none"
  <2>1. v \in Writes /\ v \notin Direct
    BY ServeAssumption DEF Direct
  <2>2. QED
    BY <2>1 DEF HandlerInv, HandlerTypes, WriteDirectly, EndAdmission
<1>5. ASSUME NEW r \in Requests PROVE Sound(r, req[r])'
  <2>1. Sound(r, req[r]) /\ req'[r] = req[r]
    BY <1>1 DEF HandlerInv
  <2>2. Counted(r, req[r])' /\ Checked(req[r])'
    BY <1>1, <2>1 DEF Sound, Counted, Checked
  <2>3. Marked(r, req[r], DryRun[r])' /\ Marked(r, req[r], Real[r])'
    BY <1>1, <1>4, <2>1 DEF Sound, Marked
  <2>4. QED
    BY <2>2, <2>3 DEF Sound
<1>6. QED
  BY <1>3, <1>5 DEF HandlerInv

\* Every step keeps the handlers' invariant.
LEMMA HandlersStep == HandlerInv /\ [Next]_vars => HandlerInv'
<1> SUFFICES ASSUME HandlerInv, [Next]_vars PROVE HandlerInv'
  OBVIOUS
<1>1. CASE UNCHANGED <<sessionVars, proxyVars, apiVars>>
  <2>1. UNCHANGED <<req, completes, sessions, now, api, as>>
    BY <1>1 DEF sessionVars, proxyVars, apiVars
  <2>2. QED
    BY <2>1 DEF HandlerInv, HandlerTypes, Sound, Checked, Counted, Marked
<1>2. CASE Start \/ BindFails \/ Shutdown \/ Expire \/ Close
  BY <1>1, <1>2 DEF Start, BindFails, Shutdown, Expire, Close
<1>3. CASE Exit
  BY <1>3, CutStep
<1>4. CASE \E l \in Listeners : Bind(l) \/ ListenerFails(l)
  BY <1>1, <1>4 DEF Bind, ListenerFails
<1>5. CASE Tick \/ \E s \in SessionIds : NewSession(s) \/ Revoke(s)
  BY <1>5, SessionSteps
<1>6. ASSUME NEW r \in Requests, Send(r) \/ Decided(r) \/ Answer(r) PROVE HandlerInv'
  <2>1. CASE Send(r) \/ Lookup(r) \/ Judge(r) \/ ReadBody(r)
    BY <2>1, CheckSteps
  <2>2. CASE Measure(r)
    <3>1. req[r].pc = "decide" /\ UNCHANGED <<sessionVars, completes>>
      BY <2>2 DEF Measure
    <3>2. CASE Admit(DryRun[r], r) /\ HandlerGoto(r, "measure")
      BY <3>1, <3>2, Admits
    <3>3. CASE HandlerGoto(r, "held") /\ UNCHANGED apiVars
      BY <3>1, <3>3, DecideSteps
    <3>4. QED
      BY <2>2, <3>2, <3>3 DEF Measure
  <2>3. CASE MeasureEnds(r) \/ Refuse(r) \/ Answer(r)
    BY <2>3, DecideSteps DEF MeasureEnds, Refuse, Answer
  <2>4. CASE Forward(r)
    BY <2>4, Admits DEF Forward
  <2>5. CASE Complete(r)
    BY <2>5, CompleteStep
  <2>6. QED
    BY <1>6, <2>1, <2>2, <2>3, <2>4, <2>5 DEF Decided
<1>7. ASSUME NEW w \in Writes, WriteDirectly(w) \/ SendReview(w) \/ EndAdmission(w) \/ Handle(w) PROVE HandlerInv'
  <2>1. CASE WriteDirectly(w) \/ EndAdmission(w)
    BY <2>1, ClusterSteps
  <2>2. CASE SendReview(w) \/ Handle(w)
    BY <1>1, <2>2 DEF SendReview, Handle
  <2>3. QED
    BY <1>7, <2>1, <2>2
<1>8. CASE UNCHANGED vars
  BY <1>1, <1>8 DEF vars
<1>9. QED
  BY <1>2, <1>3, <1>4, <1>5, <1>6, <1>7, <1>8 DEF Next

\* For any number of agents, sessions and requests, whatever is revoked, expires
\* or dies meanwhile: what the API server got through the proxy it got as the
\* session's human, with no identity of the client's, of a session that was not
\* over when the request was sent.
THEOREM ForwardedAsTheHumanHolds == Spec => []ForwardedAsTheHuman
<1>1. HandlerInv => ForwardedAsTheHuman
  BY DEF HandlerInv, Sound, Marked, ForwardedAsTheHuman
<1>2. QED
  BY <1>1, HandlersInitially, HandlersStep, PTL DEF Spec

\* Decider's contract for any number of requests: a handler that returned has
\* called Complete once if Decide saw its request, and never otherwise.
THEOREM CompletedOnceHolds == Spec => []CompletedOnce
<1>1. HandlerInv => CompletedOnce
  BY DEF HandlerInv, Sound, Counted, CompletedOnce
<1>2. QED
  BY <1>1, HandlersInitially, HandlersStep, PTL DEF Spec

-----------------------------------------------------------------------------
(* The bypass table *)

\* What the review v of w tells of where w came from, and where w is told of.
Told(w, v) ==
  /\ w \in Direct => as[w].session = Nobody /\ ~v.via
  /\ w \notin Direct /\ v.pc # "none" => v.via
  /\ v.pc = "record" => w \in Plain /\ ~v.via
  /\ w \in Direct \cap Plain /\ v.pc \in {"allow", "allowed"} => w \in bypass \cup logged

TellInv ==
  /\ bypass \subseteq Direct \cap Plain /\ logged \subseteq Writes
  /\ \A w \in Writes : Told(w, review[w])

\* Nothing was written, so nothing has to be told.
LEMMA TellInitially == Init => TellInv
<1> SUFFICES ASSUME Init PROVE TellInv
  OBVIOUS
<1>1. /\ bypass = {} /\ logged = {}
      /\ \A w \in Writes : as[w].session = Nobody /\ review[w] = [pc |-> "none", via |-> FALSE]
  BY DEF Init, WebhookInit
<1>2. ASSUME NEW w \in Writes PROVE Told(w, review[w])
  <2>1. as[w].session = Nobody /\ review[w] = [pc |-> "none", via |-> FALSE]
    BY <1>1
  <2>2. [pc |-> "none", via |-> FALSE].pc = "none" /\ ~[pc |-> "none", via |-> FALSE].via
    OBVIOUS
  <2>3. review[w].pc = "none" /\ ~review[w].via
    BY <2>1, <2>2
  <2>4. QED
    BY <2>1, <2>3 DEF Told
<1>3. QED
  BY <1>1, <1>2 DEF TellInv

\* Whatever else a step does: the reviews and what is told stay, and so does
\* whom a direct write is from.
LEMMA TellStays ==
  ASSUME SlotsInv, TellInv, UNCHANGED webhookVars,
         \A w \in Direct : as'[w].session = as[w].session
  PROVE  TellInv'
BY DEF TellInv, Told, webhookVars

\* One review moves; what was told of stays told of.
LEMMA TellMoves ==
  ASSUME SlotsInv, TellInv, NEW w \in Writes, NEW new \in Reviews, as' = as,
         review' = [review EXCEPT ![w] = new],
         bypass \subseteq bypass', logged \subseteq logged',
         bypass' \subseteq Direct \cap Plain, logged' \subseteq Writes, Told(w, new)'
  PROVE  TellInv'
<1>1. ASSUME NEW v \in Writes PROVE Told(v, review[v])'
  <2>1. CASE v = w
    <3>1. review'[v] = new
      BY <2>1 DEF SlotsInv
    <3>2. QED
      BY <2>1, <3>1 DEF Told
  <2>2. CASE v # w
    <3>1. review'[v] = review[v] /\ Told(v, review[v])
      BY <2>2 DEF SlotsInv, TellInv
    <3>2. QED
      BY <3>1 DEF Told
  <2>3. QED
    BY <2>1, <2>2
<1>2. QED
  BY <1>1 DEF TellInv

\* A write the proxy or the engine sent is marked with its session.
LEMMA OursAreMarked ==
  ASSUME HandlerInv, NEW w \in Writes, w \notin Direct, api[w] # "none"
  PROVE  as[w].session # Nobody
<1>1. PICK r \in Requests : w \in {DryRun[r], Real[r]}
  BY DEF Direct
<1>2. Checked(req[r]) /\ Marked(r, req[r], w) /\ req[r] \in Handlers
  BY <1>1 DEF HandlerInv, HandlerTypes, Sound
<1>3. req[r].pc # "idle" /\ as[w] = [user |-> Human[req[r].s], session |-> req[r].s, own |-> FALSE]
  BY <1>2 DEF Marked, Early
<1>4. req[r].s \in SessionIds /\ as[w].session = req[r].s
  BY <1>2, <1>3 DEF Checked
<1>5. QED
  BY <1>4, NobodyAssumption

\* A review's step keeps what is told of its write.
LEMMA ReviewTold ==
  ASSUME SlotsInv, HandlerInv, TellInv, NEW w \in Writes, SendReview(w) \/ Handle(w)
  PROVE  TellInv'
<1>0. /\ review[w] \in Reviews /\ Told(w, review[w]) /\ as' = as
      /\ bypass \subseteq Direct \cap Plain /\ logged \subseteq Writes
  BY DEF SlotsInv, TellInv, SendReview, Handle, apiVars
<1>1. CASE SendReview(w)
  <2> DEFINE via == as[w].session # Nobody
  <2>1. PICK pc \in {"body", "error"} :
          /\ review' = [review EXCEPT ![w] = [pc |-> pc, via |-> via]]
          /\ bypass' = bypass /\ logged \subseteq logged' /\ logged' \subseteq Writes
    BY <1>0, <1>1 DEF SendReview, TakeReview
  <2>7. [pc |-> pc, via |-> via] \in Reviews
    BY DEF Reviews, InHandler
  <2>2. PICK new \in Reviews : new = [pc |-> pc, via |-> via]
    BY <2>7
  <2>0. new.pc \in {"body", "error"} /\ new.via = via
    BY <2>2
  <2>3. w \notin Direct => via
    BY <1>1, OursAreMarked DEF SendReview
  <2>4. w \in Direct => ~via
    BY <1>0 DEF Told
  <2> HIDE DEF via
  <2>5. Told(w, new)'
    BY <1>0, <2>0, <2>3, <2>4 DEF Told
  <2>6. QED
    BY <1>0, <2>1, <2>2, <2>5, TellMoves
<1>2. CASE Handle(w)
  <2>1. PICK pc \in {"record", "allow", "allowed", "error"} :
          /\ review' = [review EXCEPT ![w].pc = pc]
          /\ \/ /\ review[w].pc = "body" /\ bypass' = bypass /\ logged' = logged
                /\ pc = IF Bypassed(w) THEN "record" ELSE "allow"
             \/ pc = "error" /\ bypass' = bypass /\ logged' \in {logged, logged \cup {w}}
             \/ pc = "allow" /\ bypass' = bypass /\ logged' = logged \cup {w}
             \/ review[w].pc = "record" /\ pc = "allow" /\ bypass' = bypass \cup {w} /\ logged' = logged
             \/ review[w].pc = "allow" /\ pc = "allowed" /\ bypass' = bypass /\ logged' = logged
    BY <1>2 DEF Handle, ReadReview, AllowUnread, Record, ReviewEnds, RefuseReview, RecordFails, Allow,
                ReviewAt, ReviewGoto, Return
  <2>0. PICK new \in Reviews : new = [review[w] EXCEPT !.pc = pc]
    BY <1>0 DEF Reviews, InHandler
  <2>2. new.pc = pc /\ new.via = review[w].via
    BY <1>0, <2>0 DEF Reviews
  <2>3. review' = [review EXCEPT ![w] = new]
    BY <2>0, <2>1
  <2>4. bypass' \subseteq Direct \cap Plain /\ bypass \subseteq bypass'
    <3>1. review[w].pc = "record" => w \in Direct \cap Plain
      BY <1>0 DEF Told
    <3>2. QED
      BY <1>0, <2>1, <3>1
  <2>5. logged \subseteq logged' /\ logged' \subseteq Writes
    BY <1>0, <2>1
  <2>6. Told(w, new)'
    <3>1. review[w].pc # "none"
      BY <1>2 DEF Handle, ReadReview, AllowUnread, Record, ReviewEnds, RefuseReview, RecordFails, Allow, ReviewAt
    <3>2. pc = "record" => w \in Plain /\ ~review[w].via
      BY <2>1 DEF Bypassed
    <3>3. w \in Direct \cap Plain /\ pc \in {"allow", "allowed"} => w \in bypass' \cup logged'
      BY <1>0, <2>1 DEF Told, Bypassed
    <3>4. QED
      BY <1>0, <2>2, <3>1, <3>2, <3>3 DEF Told
  <2>7. QED
    BY <1>0, <2>2, <2>3, <2>4, <2>5, <2>6, TellMoves
<1>3. QED
  BY <1>1, <1>2

\* Every step keeps what is told.
LEMMA TellStep == SlotsInv /\ HandlerInv /\ TellInv /\ [Next]_vars => TellInv'
<1> SUFFICES ASSUME SlotsInv, HandlerInv, TellInv, [Next]_vars PROVE TellInv'
  OBVIOUS
<1>1. CASE UNCHANGED <<webhookVars, as>>
  BY <1>1, TellStays
<1>2. CASE Exit
  <2>1. /\ review' = [w \in Writes |-> IF review[w].pc \in InHandler THEN [review[w] EXCEPT !.pc = "error"]
                                                                  ELSE review[w]]
        /\ bypass' = bypass /\ logged' = logged /\ as' = as
    BY <1>2 DEF Exit, apiVars
  <2>2. ASSUME NEW w \in Writes PROVE Told(w, review[w])'
    <3>1. review[w] \in Reviews /\ Told(w, review[w])
      BY DEF SlotsInv, TellInv
    <3>2. CASE review[w].pc \in InHandler
      <4>1. review'[w].pc = "error" /\ review'[w].via = review[w].via
        BY <2>1, <3>1, <3>2 DEF Reviews
      <4>2. QED
        BY <2>1, <3>1, <3>2, <4>1 DEF Told, InHandler
    <3>3. CASE review[w].pc \notin InHandler
      BY <2>1, <3>1, <3>3 DEF Told
    <3>4. QED
      BY <3>2, <3>3
  <2>3. QED
    BY <2>1, <2>2 DEF TellInv
<1>3. CASE \E w \in Writes : SendReview(w) \/ Handle(w)
  BY <1>3, ReviewTold
<1>4. CASE Start \/ BindFails \/ Shutdown \/ Expire \/ Close \/ Tick
  BY <1>1, <1>4 DEF Start, BindFails, Shutdown, Expire, Close, Tick, apiVars
<1>5. CASE \E l \in Listeners : Bind(l) \/ ListenerFails(l)
  BY <1>1, <1>5 DEF Bind, ListenerFails, apiVars
<1>6. CASE \E s \in SessionIds : NewSession(s) \/ Revoke(s)
  BY <1>1, <1>6 DEF NewSession, Revoke, apiVars
<1>7. ASSUME NEW r \in Requests, Send(r) \/ Decided(r) \/ Answer(r) PROVE TellInv'
  <2>1. UNCHANGED webhookVars
    BY <1>7 DEF Send, Decided, Answer, Lookup, Judge, ReadBody, Measure, MeasureEnds, Refuse, Forward, Complete
  <2>2. CASE UNCHANGED apiVars
    BY <1>1, <2>1, <2>2 DEF apiVars
  <2>3. ASSUME NEW w \in {DryRun[r], Real[r]}, Admit(w, r) PROVE TellInv'
    <3>1. \A v \in Direct : v # w /\ v \in Writes
      BY <2>3 DEF Direct
    <3>2. \A v \in Direct : as'[v] = as[v]
      BY <2>3, <3>1 DEF Admit, HandlerInv, HandlerTypes
    <3>3. QED
      BY <2>1, <3>2, TellStays
  <2>4. QED
    BY <1>7, <2>2, <2>3 DEF Send, Decided, Answer, Lookup, Judge, ReadBody, Measure, MeasureEnds, Refuse,
                            Forward, Complete
<1>8. CASE \E w \in Writes : WriteDirectly(w) \/ EndAdmission(w)
  BY <1>1, <1>8 DEF WriteDirectly, EndAdmission
<1>9. CASE UNCHANGED vars
  BY <1>1, <1>9 DEF vars, apiVars
<1>10. QED
  BY <1>2, <1>3, <1>4, <1>5, <1>6, <1>7, <1>8, <1>9 DEF Next

\* For any number of writes, whichever reviews are refused, cut short, not read
\* or not recorded and whenever the process dies: the bypass table has only
\* writes made without blastgate, and the webhook lets no such write pass as
\* observed that neither the table nor the log tells of.
THEOREM BypassIsToldHolds == Spec => []BypassIsTold
<1>1. TellInv => BypassIsTold
  BY DEF TellInv, Told, BypassIsTold, Direct
<1>2. QED
  BY <1>1, SlotsInitially, SlotsStep, HandlersInitially, HandlersStep, TellInitially, TellStep, PTL DEF Spec

-----------------------------------------------------------------------------
(* Types *)

ProcessTypes ==
  /\ phase \in {"down", "bind", "serve", "stop", "closed"}
  /\ bound \subseteq Listeners
  /\ errc \in BOOLEAN /\ expired \in BOOLEAN
  /\ starts \in 0 .. MaxStarts

\* Every step keeps the types of the process.
LEMMA ProcessStep == ProcessTypes /\ [Next]_vars => ProcessTypes'
<1> SUFFICES ASSUME ProcessTypes, [Next]_vars PROVE ProcessTypes'
  OBVIOUS
<1> USE DEF ProcessTypes
<1>1. CASE UNCHANGED processVars
  BY <1>1 DEF processVars
<1>2. CASE Start
  BY <1>2, ServeAssumption DEF Start
<1>3. CASE BindFails \/ Shutdown \/ Expire \/ Close \/ Exit
  BY <1>3 DEF BindFails, Shutdown, Expire, Close, Exit
<1>4. CASE \E l \in Listeners : Bind(l) \/ ListenerFails(l)
  BY <1>4 DEF Bind, ListenerFails
<1>5. CASE Tick \/ \E s \in SessionIds : NewSession(s) \/ Revoke(s)
  BY <1>1, <1>5 DEF Tick, NewSession, Revoke
<1>6. CASE \E r \in Requests : Send(r) \/ Decided(r) \/ Answer(r)
  BY <1>1, <1>6 DEF Send, Decided, Answer, Lookup, Judge, ReadBody, Measure, MeasureEnds, Refuse, Forward, Complete
<1>7. CASE \E w \in Writes : WriteDirectly(w) \/ SendReview(w) \/ EndAdmission(w) \/ Handle(w)
  BY <1>1, <1>7 DEF WriteDirectly, SendReview, EndAdmission, Handle
<1>8. CASE UNCHANGED vars
  BY <1>1, <1>8 DEF vars
<1>9. QED
  BY <1>2, <1>3, <1>4, <1>5, <1>6, <1>7, <1>8 DEF Next

\* serveCmd, its handlers, the webhook's reviews and both tables have their
\* types in every state.
THEOREM ServeTypeCorrect == Spec => []ServeTypeOK
<1>1. SlotsInv /\ HandlerInv /\ TellInv /\ ProcessTypes => ServeTypeOK
  <2>1. TellInv => bypass \subseteq Writes /\ logged \subseteq Writes
    BY DEF TellInv, Direct
  <2>2. QED
    BY <2>1 DEF SlotsInv, HandlerInv, HandlerTypes, ProcessTypes, ServeTypeOK, WebhookTypeOK
<1>2. Init => ProcessTypes
  <2>1. Init => phase = "down" /\ bound = {} /\ errc = FALSE /\ expired = FALSE /\ starts = 0
    BY DEF Init
  <2>2. 0 \in 0 .. MaxStarts
    BY ServeAssumption
  <2>3. QED
    BY <2>1, <2>2 DEF ProcessTypes
<1>3. QED
  BY <1>1, <1>2, ProcessStep, SlotsInitially, SlotsStep, HandlersInitially, HandlersStep, TellInitially,
     TellStep, PTL DEF Spec
=============================================================================
