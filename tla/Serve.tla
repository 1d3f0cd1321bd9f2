-------------------------------- MODULE Serve --------------------------------
(***************************************************************************)
(* The server process (cmd/blastgate/serve.go) around the proxy's handler    *)
(* (internal/proxy), agent sessions (internal/session, the session command)  *)
(* and the bypass webhook.  The API server is outside: it asks the webhook   *)
(* about every write it admits, the dry-runs the engine sends included, and  *)
(* goes on whatever the answer (failurePolicy: Ignore).  So a request may    *)
(* wait for the API server, which waits for a handler of the same process.   *)
(*                                                                           *)
(* Requests are writes; what Decide does inside is Gate's.  A session's      *)
(* token is its id.                                                          *)
(***************************************************************************)
EXTENDS Webhook, Sequences

CONSTANTS
  Listeners,     \* proxy, admin, webhook
  SessionIds,
  SessionTTL,
  Human,         \* the person each session acts for
  Requests,
  DryRun,        \* the dry-run of a request, as the API server sees it
  Real,          \* its forwarded write
  MaxStarts,     \* bound on Start
  MaxTime        \* bound on Tick

Direct == Writes \ ({DryRun[r] : r \in Requests} \cup {Real[r] : r \in Requests})

ASSUME ServeAssumption ==
  /\ {"proxy", "webhook"} \subseteq Listeners
  /\ DryRun \in [Requests -> Writes] /\ Real \in [Requests -> Writes]
  /\ \A q, r \in Requests : DryRun[q] # Real[r] /\ (q # r => DryRun[q] # DryRun[r] /\ Real[q] # Real[r])
  /\ SessionTTL \in Nat /\ MaxStarts \in Nat /\ MaxTime \in Nat

VARIABLES
  phase,      \* where serveCmd is
  bound,      \* the addresses it has bound
  errc,       \* a ServeTLS goroutine has returned
  expired,    \* shutdown's five seconds have passed
  starts,
  sessions,   \* the sessions table
  now,
  req,        \* a proxy handler per request
  completes,  \* history: how often Complete was called for it
  api,        \* the API server's side of each write
  as          \* whom it takes the write to be from

processVars == <<phase, bound, errc, expired, starts>>
sessionVars == <<sessions, now>>
proxyVars == <<req, completes>>
apiVars == <<api, as>>
vars == <<webhookVars, processVars, sessionVars, proxyVars, apiVars>>

Never == MaxTime + 1
Rows == [expires : Nat, revoked : 0 .. Never]   \* Never: revoked_at is NULL

ASSUME NobodyAssumption == Nobody \notin Rows /\ Nobody \notin SessionIds

Deciding == {"decide", "measure", "held"}
Handling == {"lookup", "judge", "body", "sent", "complete"} \cup Deciding
Handlers == [
  pc   : Handling \cup {"idle", "done", "cut"},
  s    : SessionIds \cup {Nobody},
  row  : Rows \cup {Nobody},                 \* Authenticate's copy
  asks : {"nothing", "header", "trailer"},   \* where it carries an identity of its own
  over : BOOLEAN,                            \* history: the session was over when it was sent
  seen : BOOLEAN]                            \* history: Decide saw it

Identities == [user : {Human[s] : s \in SessionIds} \cup {Nobody}, session : SessionIds \cup {Nobody},
               own  : BOOLEAN]

ServeTypeOK ==
  /\ WebhookTypeOK
  /\ phase \in {"down", "bind", "serve", "stop", "closed"}
  /\ bound \subseteq Listeners
  /\ errc \in BOOLEAN /\ expired \in BOOLEAN
  /\ starts \in 0 .. MaxStarts
  /\ sessions \in [SessionIds -> Rows \cup {Nobody}]
  /\ now \in 0 .. MaxTime
  /\ req \in [Requests -> Handlers]
  /\ completes \in [Requests -> 0 .. 1]
  /\ api \in [Writes -> {"none", "admission", "stored"}]
  /\ as \in [Writes -> Identities]

Init ==
  /\ WebhookInit
  /\ phase = "down" /\ bound = {} /\ errc = FALSE /\ expired = FALSE /\ starts = 0
  /\ sessions = [s \in SessionIds |-> Nobody]
  /\ now = 0
  /\ req = [r \in Requests |-> [pc |-> "idle", s |-> Nobody, row |-> Nobody, asks |-> "nothing", over |-> FALSE, seen |-> FALSE]]
  /\ completes = [r \in Requests |-> 0]
  /\ api = [w \in Writes |-> "none"]
  /\ as = [w \in Writes |-> [user |-> Nobody, session |-> Nobody, own |-> FALSE]]

-----------------------------------------------------------------------------
(* serveCmd *)

\* Configuration, policy, client CAs, store, TLS files and upstream: any of
\* them may end the start, which leaves nothing behind (DataDir).
Start ==
  /\ phase = "down" /\ starts < MaxStarts
  /\ phase' = "bind" /\ starts' = starts + 1
  /\ UNCHANGED <<webhookVars, bound, errc, expired, sessionVars, proxyVars, apiVars>>

\* Every address is bound before any is served.
Bind(l) ==
  /\ phase = "bind" /\ l \notin bound
  /\ bound' = bound \cup {l}
  /\ phase' = IF bound' = Listeners THEN "serve" ELSE "bind"
  /\ UNCHANGED <<webhookVars, errc, expired, starts, sessionVars, proxyVars, apiVars>>

BindFails ==
  /\ phase = "bind" /\ bound # Listeners
  /\ bound' = {} /\ phase' = "down"
  /\ UNCHANGED <<webhookVars, errc, expired, starts, sessionVars, proxyVars, apiVars>>

Serving(l) == phase = "serve" /\ l \in bound

\* A listener ends by itself; the others go on until the select sees it.
ListenerFails(l) ==
  /\ Serving(l)
  /\ bound' = bound \ {l} /\ errc' = TRUE
  /\ UNCHANGED <<webhookVars, phase, expired, starts, sessionVars, proxyVars, apiVars>>

\* The select: a signal or errc; every server's Shutdown closes its listener.
Shutdown ==
  /\ phase = "serve"
  /\ phase' = "stop" /\ bound' = {} /\ errc' = FALSE /\ expired' = FALSE
  /\ UNCHANGED <<webhookVars, starts, sessionVars, proxyVars, apiVars>>

ExpireNever == FALSE /\ UNCHANGED vars                                \* mutant

Expire ==
  /\ phase = "stop" /\ ~expired
  /\ expired' = TRUE
  /\ UNCHANGED <<webhookVars, phase, bound, errc, starts, sessionVars, proxyVars, apiVars>>

Idle ==
  /\ \A r \in Requests : req[r].pc \notin Handling
  /\ \A w \in Writes : review[w].pc \notin InHandler

\* shutdown returns: all is answered or the time is up.  serveCmd returns and
\* its deferred Close closes the store, on which late handlers still call.
Close ==
  /\ phase = "stop" /\ (Idle \/ expired)
  /\ phase' = "closed"
  /\ UNCHANGED <<webhookVars, bound, errc, expired, starts, sessionVars, proxyVars, apiVars>>

\* The process is gone, with the handlers still running.  Also what a kill
\* does at any time.
Exit ==
  /\ phase \in {"serve", "stop", "closed"}
  /\ phase' = "down" /\ bound' = {} /\ errc' = FALSE /\ expired' = FALSE
  /\ req' = [r \in Requests |-> IF req[r].pc \in Handling THEN [req[r] EXCEPT !.pc = "cut"] ELSE req[r]]
  /\ review' = [w \in Writes |-> IF review[w].pc \in InHandler THEN [review[w] EXCEPT !.pc = "error"] ELSE review[w]]
  /\ slots' = 0
  /\ UNCHANGED <<bypass, logged, starts, sessionVars, completes, apiVars>>

StoreOpen == phase # "closed"

-----------------------------------------------------------------------------
(* Agent sessions: `session new`, `session revoke`, the console's revoke *)

Live(row, t) == row.revoked = Never /\ t < row.expires

NewSession(s) ==
  /\ sessions[s] = Nobody
  /\ sessions' = [sessions EXCEPT ![s] = [expires |-> now + SessionTTL, revoked |-> Never]]
  /\ UNCHANGED <<webhookVars, processVars, now, proxyVars, apiVars>>

\* RevokeSession, also what `session new` does when it could not print the
\* kubeconfig: the first revocation stands.
Revoke(s) ==
  /\ sessions[s] # Nobody
  /\ sessions' = [sessions EXCEPT ![s].revoked = IF @ = Never THEN now ELSE @]
  /\ UNCHANGED <<webhookVars, processVars, now, proxyVars, apiVars>>

Tick ==
  /\ now < MaxTime
  /\ now' = now + 1
  /\ UNCHANGED <<webhookVars, processVars, sessions, proxyVars, apiVars>>

-----------------------------------------------------------------------------
(* The proxy's ServeHTTP *)

Handler(r, new) == req' = [req EXCEPT ![r] = new]
HandlerGoto(r, pc) == Handler(r, [req[r] EXCEPT !.pc = pc])

\* The agent sends it, with the token of a session.
Send(r) ==
  /\ req[r].pc = "idle" /\ Serving("proxy")
  /\ \E s \in SessionIds, asks \in {"nothing", "header", "trailer"} :
       /\ sessions[s] # Nobody
       /\ Handler(r, [pc |-> "lookup", s |-> s, row |-> Nobody, asks |-> asks,
                      over |-> ~Live(sessions[s], now), seen |-> FALSE])
  /\ UNCHANGED <<webhookVars, processVars, sessionVars, completes, apiVars>>

\* SessionByTokenHash; a closed store is 503.
Lookup(r) ==
  /\ req[r].pc = "lookup"
  /\ Handler(r, IF StoreOpen THEN [req[r] EXCEPT !.pc = "judge", !.row = sessions[req[r].s]]
                             ELSE [req[r] EXCEPT !.pc = "done"])
  /\ UNCHANGED <<webhookVars, processVars, sessionVars, completes, apiVars>>

JudgeUnexpired(r) ==                                                  \* mutant
  /\ req[r].pc = "judge"
  /\ HandlerGoto(r, IF req[r].row.revoked = Never /\ req[r].asks # "header" THEN "body" ELSE "done")
  /\ UNCHANGED <<webhookVars, processVars, sessionVars, completes, apiVars>>

\* Revoked or expired: 401.  A header that names an identity: 403.
Judge(r) ==
  /\ req[r].pc = "judge"
  /\ HandlerGoto(r, IF Live(req[r].row, now) /\ req[r].asks # "header" THEN "body" ELSE "done")
  /\ UNCHANGED <<webhookVars, processVars, sessionVars, completes, apiVars>>

\* The body does not arrive whole, is too large, or brought a trailer that
\* names an identity: refused before Decide.
ReadBody(r) ==
  /\ req[r].pc = "body"
  /\ \/ HandlerGoto(r, "done")
     \/ req[r].asks # "trailer" /\ Handler(r, [req[r] EXCEPT !.pc = "decide", !.seen = TRUE])
  /\ UNCHANGED <<webhookVars, processVars, sessionVars, completes, apiVars>>

\* The API server takes a write of r's, as Rewrite and the engine's request
\* sign it: the human, and the session in an extra of its own.
Admit(w, r) ==
  /\ api' = [api EXCEPT ![w] = "admission"]
  /\ as' = [as EXCEPT ![w] = [user    |-> Human[req[r].s], session |-> req[r].s,
                              own     |-> req[r].asks # "nothing"]]

\* Decide: the engine sends its dry-run, or answers without one.
Measure(r) ==
  /\ req[r].pc = "decide"
  /\ \/ Admit(DryRun[r], r) /\ HandlerGoto(r, "measure")
     \/ HandlerGoto(r, "held") /\ UNCHANGED apiVars
  /\ UNCHANGED <<webhookVars, processVars, sessionVars, completes>>

\* The dry-run is answered or the score budget is spent.
MeasureEnds(r) ==
  /\ req[r].pc = "measure"
  /\ HandlerGoto(r, "held")
  /\ UNCHANGED <<webhookVars, processVars, sessionVars, completes, apiVars>>

\* Decide refuses: at once, or after the hold.
Refuse(r) ==
  /\ req[r].pc = "held"
  /\ HandlerGoto(r, "complete")
  /\ UNCHANGED <<webhookVars, processVars, sessionVars, completes, apiVars>>

\* Decide forwards: at once, or after the hold; its rows need the store.
Forward(r) ==
  /\ req[r].pc = "held" /\ StoreOpen
  /\ Admit(Real[r], r)
  /\ HandlerGoto(r, "sent")
  /\ UNCHANGED <<webhookVars, processVars, sessionVars, completes>>

AnswerUnlessAborted(r) ==                                             \* mutant
  /\ req[r].pc = "sent"
  /\ \/ api[Real[r]] = "stored" /\ HandlerGoto(r, "complete")
     \/ HandlerGoto(r, "done")
  /\ UNCHANGED <<webhookVars, processVars, sessionVars, completes, apiVars>>

\* The answer is passed on; or the client leaves and ReverseProxy panics, or
\* the API server cannot be reached.  Complete is deferred in all of them.
Answer(r) ==
  /\ req[r].pc = "sent"
  /\ HandlerGoto(r, "complete")
  /\ UNCHANGED <<webhookVars, processVars, sessionVars, completes, apiVars>>

Complete(r) ==
  /\ req[r].pc = "complete"
  /\ completes' = [completes EXCEPT ![r] = @ + 1]
  /\ HandlerGoto(r, "done")
  /\ UNCHANGED <<webhookVars, processVars, sessionVars, apiVars>>

-----------------------------------------------------------------------------
(* The API server *)

\* Somebody writes without blastgate.
WriteDirectly(w) ==
  /\ w \in Direct /\ api[w] = "none"
  /\ api' = [api EXCEPT ![w] = "admission"]
  /\ UNCHANGED <<webhookVars, processVars, sessionVars, proxyVars, as>>

SendReview(w) ==
  /\ api[w] = "admission" /\ ReviewAt(w, "none") /\ Serving("webhook")
  /\ TakeReview(w, as[w].session # Nobody)
  /\ UNCHANGED <<processVars, sessionVars, proxyVars, apiVars>>

\* The webhook has answered, cannot be reached or is too slow.
EndAdmission(w) ==
  /\ api[w] = "admission"
  /\ api' = [api EXCEPT ![w] = "stored"]
  /\ UNCHANGED <<webhookVars, processVars, sessionVars, proxyVars, as>>

\* A row needs the store; without it record has only an error to log.
Handle(w) ==
  /\ ReadReview(w) \/ AllowUnread(w) \/ (StoreOpen /\ Record(w)) \/ ReviewEnds(w)
  /\ UNCHANGED <<processVars, sessionVars, proxyVars, apiVars>>

-----------------------------------------------------------------------------

Decided(r) == Lookup(r) \/ Judge(r) \/ ReadBody(r) \/ Measure(r) \/ MeasureEnds(r)
              \/ Refuse(r) \/ Forward(r) \/ Complete(r)

Next ==
  \/ Start \/ BindFails \/ Shutdown \/ Expire \/ Close \/ Exit
  \/ \E l \in Listeners : Bind(l) \/ ListenerFails(l)
  \/ \E s \in SessionIds : NewSession(s) \/ Revoke(s)
  \/ Tick
  \/ \E r \in Requests : Send(r) \/ Decided(r) \/ Answer(r)
  \/ \E w \in Writes : WriteDirectly(w) \/ SendReview(w) \/ EndAdmission(w) \/ Handle(w)

Spec == Init /\ [][Next]_vars

\* The select runs when errc has an error, timers fire and a process that
\* has returned ends; a handler of the webhook is driven by its timeouts.
\* Nothing is assumed of agents, of the API server or of the store.
FairSpec ==
  /\ Spec
  /\ WF_vars(errc /\ Shutdown) /\ WF_vars(Expire) /\ WF_vars(Close) /\ WF_vars(phase = "closed" /\ Exit)
  /\ \A w \in Writes : WF_vars(ReviewEnds(w) /\ UNCHANGED <<processVars, sessionVars, proxyVars, apiVars>>)

-----------------------------------------------------------------------------
(* Properties *)

\* The semaphore counts the handlers in ServeHTTP, whatever way they leave it
\* and whatever dies: a slot that is not given back is lost for good.
SlotsAreReviews == slots = Cardinality({w \in Writes : review[w].pc \in InHandler})

\* The bypass table has only writes made without blastgate: never a write the
\* proxy forwarded nor a dry-run the engine sent, whoever's session was revoked
\* meanwhile.  And a write the webhook let pass as observed is in it, or the
\* log tells that it is not.
BypassIsTold ==
  /\ bypass \subseteq Direct \cap Plain
  /\ \A w \in Direct \cap Plain : review[w].pc = "allowed" => w \in bypass \cup logged

\* What the API server gets through blastgate it gets as the session's human,
\* marked with the session, with no identity of the client's, and of a session
\* that was not over when the request was sent.
ForwardedAsTheHuman ==
  \A r \in Requests : \A w \in {DryRun[r], Real[r]} :
    api[w] # "none" => /\ as[w] = [user |-> Human[req[r].s], session |-> req[r].s, own |-> FALSE]
                       /\ ~req[r].over

\* Decider: "Complete ... is called exactly once for every request Decide saw",
\* and for no other, however the answer ended.
CompletedOnce ==
  \A r \in Requests : req[r].pc = "done" => completes[r] = IF req[r].seen THEN 1 ELSE 0

\* serveCmd ends once any of its listeners has, whatever its requests do: no
\* half of a server is left running for good.
HalfServerStops == (phase = "serve" /\ errc) \/ phase = "stop" ~> phase = "down"

\* Every review leaves its handler, whatever its sender and the disk do.
EveryReviewEnds == \A w \in Writes : review[w].pc \in InHandler ~> review[w].pc \notin InHandler
=============================================================================
