-------------------------------- MODULE SignIn --------------------------------
(***************************************************************************)
(* The front door of the admin listener (internal/admin/auth.go), the       *)
(* ui_sessions table it keeps (internal/store/admin.go) and the browser     *)
(* that talks to it (ui/src/api.ts, App.tsx).                               *)
(*                                                                          *)
(* A browser has one cookie jar and any number of tabs; each tab remembers  *)
(* the CSRF value of the session it last heard of and the approver it       *)
(* shows.  A call travels: the cookie is taken from the jar when it is      *)
(* sent, each store statement it makes is a step of its own, and its answer *)
(* reaches the jar and the tab later, after other calls' answers may have.  *)
(* A browser may also be somebody else's, with copies of cookies in its jar *)
(* that their owners have long signed out of or replaced.                   *)
(*                                                                          *)
(* A session id stands for its cookie and for its CSRF value: both are 256  *)
(* random bits minted together, so neither is ever guessed or repeated.     *)
(* The clock is read and the limiter's lock taken in one step: nothing      *)
(* keeps a handler between the two for anything like a login window.        *)
(***************************************************************************)
EXTENDS Naturals, Sequences, FiniteSets

CONSTANTS
  Approvers,       \* approver accounts, each with its login token
  Sids,            \* session ids that can be minted (a bound)
  Tabs, Browsers, Hosts,
  BrowserOf,       \* the browser of a tab
  HostOf,          \* the address a browser connects from
  Copiers,         \* the browsers whose jar may be given a copied cookie
  LoginAttempts, LoginWindow, LimiterHosts,
  SessionTTL,
  MaxTime,         \* bound on the clock
  Null

ASSUME PlacesAssumption == BrowserOf \in [Tabs -> Browsers] /\ HostOf \in [Browsers -> Hosts]
                           /\ Copiers \subseteq Browsers
ASSUME TimesAssumption == LoginAttempts \in Nat \ {0} /\ LoginWindow \in Nat /\ LimiterHosts \in Nat
                          /\ SessionTTL \in Nat /\ MaxTime \in Nat
ASSUME NullAssumption == Null \notin Sids \cup Approvers

VARIABLES
  accounts,        \* the approvers table: live or revoked
  uiSessions,      \* the ui_sessions table
  limiter,         \* the login limiter's window of each host
  jar,             \* the session cookie each browser holds
  page,            \* what each tab remembers
  call,            \* the call each tab has in flight
  clock,
  ended,           \* history: sessions whose end has been answered
  attempts         \* history: when each host's login attempts were let through

vars == <<accounts, uiSessions, limiter, jar, page, call, clock, ended, attempts>>
tables == <<accounts, uiSessions>>
browser == <<jar, page>>

Sessions == [approver : Approvers, expires : Nat, revoked : BOOLEAN]
NoSession == [approver |-> Null]

Windows == [start : Nat, n : Nat]
NoWindow == [n |-> 0]

Pages == [csrf : Sids \cup {Null}, shown : Approvers \cup {Null}]
SignedOut == [csrf |-> Null, shown |-> Null]

\* load and refused are the two callers of whoami: a page that loads, and a
\* page whose stream was refused.  decide is any state-changing call.
Kinds == {"login", "logout", "load", "refused", "decide"}
Gets == {"load", "refused"}
Answers == {"ok", "unauthenticated", "cleared", "csrf", "limited"}
Pcs == {"sent", "lookup", "replace", "create", "judge", "logout"} \cup Answers

\* by is the approver whose token a login carries (Null: no approver's, or not
\* a login); session the one it opened; seen the joined row of
\* UISessionByHash.  over is history: the session of the call's cookie had
\* been ended or had expired, or its approver been revoked, by the time the
\* call was sent.
Seen == [expires : Nat, revoked : BOOLEAN, approverRevoked : BOOLEAN]
NoneSeen == [expires |-> 0, revoked |-> FALSE, approverRevoked |-> FALSE]
Calls == [pc : Pcs, kind : Kinds, cookie : Sids \cup {Null}, csrf : Sids \cup {Null},
          by : Approvers \cup {Null}, session : Sids \cup {Null}, seen : Seen,
          over : BOOLEAN]
NoCall == [pc |-> "idle"]

TypeOK ==
  /\ accounts \in [Approvers -> {"live", "revoked"}]
  /\ uiSessions \in [Sids -> Sessions \cup {NoSession}]
  /\ limiter \in [Hosts -> Windows \cup {NoWindow}]
  /\ jar \in [Browsers -> Sids \cup {Null}]
  /\ page \in [Tabs -> Pages]
  /\ call \in [Tabs -> Calls \cup {NoCall}]
  /\ clock \in Nat
  /\ ended \in SUBSET Sids
  /\ attempts \in [Hosts -> Seq(Nat)]

Init ==
  /\ accounts = [a \in Approvers |-> "live"]
  /\ uiSessions = [s \in Sids |-> NoSession]
  /\ limiter = [h \in Hosts |-> NoWindow]
  /\ jar = [b \in Browsers |-> Null]
  /\ page = [t \in Tabs |-> SignedOut]
  /\ call = [t \in Tabs |-> NoCall]
  /\ clock = 0
  /\ ended = {}
  /\ attempts = [h \in Hosts |-> <<>>]

-----------------------------------------------------------------------------
(* The store *)

HasRow(s) == uiSessions[s] # NoSession
Expired(s) == HasRow(s) /\ uiSessions[s].expires <= clock

RevokeUISessionElsewhere(s) ==       \* mutant: the old session is left to its twelve hours
  UNCHANGED uiSessions

\* A cookie that names no row (ErrNotFound) is no error to either caller.
RevokeUISession(s) ==
  uiSessions' = IF s # Null /\ HasRow(s) THEN [uiSessions EXCEPT ![s].revoked = TRUE] ELSE uiSessions

CreateUISessionUnowned(s, a) ==      \* mutant: the approver's id is not written
  /\ ~HasRow(s)
  /\ uiSessions' = [uiSessions EXCEPT ![s] =
       [approver |-> Null, expires |-> clock + SessionTTL, revoked |-> FALSE]]

CreateUISession(s, a) ==
  /\ ~HasRow(s)
  /\ uiSessions' = [uiSessions EXCEPT ![s] =
       [approver |-> a, expires |-> clock + SessionTTL, revoked |-> FALSE]]

UISessionByHash(s) ==
  [expires |-> uiSessions[s].expires, revoked |-> uiSessions[s].revoked,
   approverRevoked |-> accounts[uiSessions[s].approver] = "revoked"]

\* One transaction: the account and a sweep of the sessions it has by now.
RevokeApprover(a) ==
  /\ accounts' = [accounts EXCEPT ![a] = "revoked"]
  /\ uiSessions' = [s \in Sids |->
       IF HasRow(s) /\ uiSessions[s].approver = a
       THEN [uiSessions[s] EXCEPT !.revoked = TRUE] ELSE uiSessions[s]]
  /\ UNCHANGED <<limiter, jar, page, call, clock, ended, attempts>>

-----------------------------------------------------------------------------
(* The login limiter *)

Pruned == [h \in Hosts |->
  IF limiter[h] # NoWindow /\ clock >= limiter[h].start + LoginWindow THEN NoWindow ELSE limiter[h]]

\* The window an attempt of host counts in.
WindowOf(h) == IF Pruned[h] = NoWindow THEN [start |-> clock, n |-> 0] ELSE Pruned[h]

AllowsOneMore(h) ==                  \* mutant: off by one, and no bound on hosts
  Pruned[h] = NoWindow \/ Pruned[h].n <= LoginAttempts

Allows(h) ==
  IF Pruned[h] = NoWindow
  THEN Cardinality({g \in Hosts : Pruned[g] # NoWindow}) < LimiterHosts
  ELSE Pruned[h].n < LoginAttempts

allow(h) ==
  IF Allows(h)
  THEN /\ limiter' = [Pruned EXCEPT ![h] = [WindowOf(h) EXCEPT !.n = @ + 1]]
       /\ attempts' = [attempts EXCEPT ![h] = Append(@, clock)]
  ELSE limiter' = Pruned /\ UNCHANGED attempts

-----------------------------------------------------------------------------
(* The browser sends *)

\* A session that no call may get in with any more.
Over(s) == s \in ended \/ Expired(s) \/ (HasRow(s) /\ accounts[uiSessions[s].approver] = "revoked")

Send(t, kind, by) ==
  /\ call[t] = NoCall
  /\ LET cookie == jar[BrowserOf[t]] IN
       call' = [call EXCEPT ![t] =
         [pc |-> "sent", kind |-> kind, cookie |-> cookie,
          csrf |-> IF kind \in Gets THEN Null ELSE page[t].csrf,
          by |-> by, session |-> Null, seen |-> NoneSeen,
          over |-> kind # "login" /\ cookie # Null /\ Over(cookie)]]
  /\ UNCHANGED <<tables, limiter, jar, clock, ended, attempts>>

\* The sign-in form is there only while the tab shows nobody.
SendLogin(t, by) == page[t].shown = Null /\ Send(t, "login", by) /\ UNCHANGED page

Load(t) == Send(t, "load", Null) /\ page' = [page EXCEPT ![t] = SignedOut]

\* A browser's cookie is copied: whoever was given it may present it from
\* then on, whatever becomes of its session.
Copy(b) ==
  /\ b \in Copiers
  /\ \E a \in Browsers : jar[a] # Null /\ jar' = [jar EXCEPT ![b] = jar[a]]
  /\ UNCHANGED <<tables, limiter, page, call, clock, ended, attempts>>

\* A tab that is signed in decides, signs out, or has its stream refused.
SendCall(t, kind) == page[t].shown # Null /\ Send(t, kind, Null) /\ UNCHANGED page

-----------------------------------------------------------------------------
(* login *)

Go(t, pc) == call' = [call EXCEPT ![t].pc = pc]

Limit(t) ==
  /\ call[t].pc = "sent" /\ call[t].kind = "login"
  /\ LET h == HostOf[BrowserOf[t]] IN
       /\ allow(h)
       /\ Go(t, IF Allows(h) THEN "lookup" ELSE "limited")
  /\ UNCHANGED <<tables, browser, clock, ended>>

\* by = Null is every body the handler refuses: not JSON, not one token, not
\* an approver's token.
Lookup(t) ==
  /\ call[t].pc = "lookup"
  /\ Go(t, IF call[t].by # Null /\ accounts[call[t].by] = "live" THEN "replace" ELSE "unauthenticated")
  /\ UNCHANGED <<tables, limiter, browser, clock, ended, attempts>>

Replace(t) ==
  /\ call[t].pc = "replace"
  /\ RevokeUISession(call[t].cookie)
  /\ Go(t, "create")
  /\ UNCHANGED <<accounts, limiter, browser, clock, ended, attempts>>

Create(t) ==
  /\ call[t].pc = "create"
  /\ \E s \in Sids :
       /\ CreateUISession(s, call[t].by)
       /\ call' = [call EXCEPT ![t] = [@ EXCEPT !.pc = "ok", !.session = s]]
  /\ UNCHANGED <<accounts, limiter, browser, clock, ended, attempts>>

-----------------------------------------------------------------------------
(* Require, and logout behind it *)

\* No row is ever deleted, so every cookie the server set names one.
Find(t) ==
  /\ call[t].pc = "sent" /\ call[t].kind # "login"
  /\ LET s == call[t].cookie IN
       \/ s = Null /\ Go(t, "unauthenticated")
       \/ /\ s # Null
          /\ call' = [call EXCEPT ![t] = [@ EXCEPT !.pc = "judge", !.seen = UISessionByHash(s)]]
  /\ UNCHANGED <<tables, limiter, browser, clock, ended, attempts>>

live(u) == ~u.revoked /\ ~u.approverRevoked /\ clock < u.expires

\* The copy of the row and the CSRF header are Require's alone.
Judged(t, pc) == call' = [call EXCEPT ![t] = [@ EXCEPT !.pc = pc, !.seen = NoneSeen, !.csrf = Null]]

\* "ok" is the handler's answer: what it does besides is another module's.
Judge(t) ==
  /\ call[t].pc = "judge"
  /\ LET c == call[t] IN
       \/ ~live(c.seen) /\ Judged(t, "cleared")
       \/ live(c.seen) /\ c.kind \notin Gets /\ c.csrf # c.cookie /\ Judged(t, "csrf")
       \/ /\ live(c.seen) /\ (c.kind \in Gets \/ c.csrf = c.cookie)
          /\ Judged(t, IF c.kind = "logout" THEN "logout" ELSE "ok")
  /\ UNCHANGED <<tables, limiter, browser, clock, ended, attempts>>

Logout(t) ==
  /\ call[t].pc = "logout"
  /\ RevokeUISession(call[t].cookie)
  /\ Go(t, "ok")
  /\ UNCHANGED <<accounts, limiter, browser, clock, ended, attempts>>

-----------------------------------------------------------------------------
(* The browser hears *)

\* Set-Cookie acts on whatever the jar holds by then.
JarAfter(c, held) ==
  IF c.pc = "ok" /\ c.kind = "login" THEN c.session
  ELSE IF c.pc = "cleared" \/ (c.pc = "ok" /\ c.kind = "logout") THEN Null
  ELSE held

\* A 401 anywhere but at login signs the tab out, and so does a sign-out
\* however it is answered.  whoami after a refused stream renews the CSRF
\* value and not the name.
PageAfter(c, p) ==
  IF c.kind = "logout" \/ (c.kind # "login" /\ c.pc \in {"unauthenticated", "cleared"}) THEN SignedOut
  ELSE IF c.pc # "ok" THEN p
  ELSE CASE c.kind = "login"   -> [csrf |-> c.session, shown |-> c.by]
         [] c.kind = "load"    -> [csrf |-> c.cookie, shown |-> uiSessions[c.cookie].approver]
         [] c.kind = "refused" -> [p EXCEPT !.csrf = c.cookie]
         [] OTHER              -> p

\* A login's answer ends the session it replaced, a sign-out's its own.
EndedBy(c) == IF c.pc = "ok" /\ c.kind \in {"login", "logout"} THEN {c.cookie} \ {Null} ELSE {}

Answer(t) ==
  /\ call[t].pc \in Answers
  /\ jar' = [jar EXCEPT ![BrowserOf[t]] = JarAfter(call[t], @)]
  /\ page' = [page EXCEPT ![t] = PageAfter(call[t], @)]
  /\ ended' = ended \cup EndedBy(call[t])
  /\ call' = [call EXCEPT ![t] = NoCall]
  /\ UNCHANGED <<tables, limiter, clock, attempts>>

\* The call is cut off, or a statement fails: what it did stays done.  A
\* sign-out signs its tab out all the same.
Lose(t) ==
  /\ call[t] # NoCall
  /\ page' = IF call[t].kind = "logout" THEN [page EXCEPT ![t] = SignedOut] ELSE page
  /\ call' = [call EXCEPT ![t] = NoCall]
  /\ UNCHANGED <<tables, limiter, jar, clock, ended, attempts>>

Tick == clock < MaxTime /\ clock' = clock + 1
        /\ UNCHANGED <<tables, limiter, browser, call, ended, attempts>>

Next ==
  \/ \E t \in Tabs :
       \/ \E by \in Approvers \cup {Null} : SendLogin(t, by)
       \/ \E kind \in {"decide", "logout", "refused"} : SendCall(t, kind)
       \/ Load(t)
       \/ Limit(t) \/ Lookup(t) \/ Replace(t) \/ Create(t)
       \/ Find(t) \/ Judge(t) \/ Logout(t)
       \/ Answer(t) \/ Lose(t)
  \/ \E b \in Browsers : Copy(b)
  \/ \E a \in Approvers : RevokeApprover(a)
  \/ Tick

Spec == Init /\ [][Next]_vars

-----------------------------------------------------------------------------
(* Safety *)

\* Once a session is over no call gets in with it, a copy of its cookie
\* included: not after its sign-out or a sign-in that replaced it was
\* answered, not past its twelve hours, and not after its approver was
\* revoked, though a login that read the account before the revocation may
\* open the session after the sweep.
NoEntryAfterEnd ==
  \A t \in Tabs :
    call[t].pc \in {"ok", "logout"} /\ call[t].kind # "login" => ~call[t].over

\* However an address times its attempts around the window's edge, and
\* whoever else knocks, it gets fewer than two budgets in any stretch
\* shorter than a window.
LimitHolds ==
  \A h \in Hosts : \A i \in DOMAIN attempts[h] :
    i + 2 * LoginAttempts - 1 \in DOMAIN attempts[h] =>
      attempts[h][i + 2 * LoginAttempts - 1] - attempts[h][i] >= LoginWindow

-----------------------------------------------------------------------------
(* What the console's documentation says, and the code does not keep *)

\* A decision taken in a tab is taken as the approver the tab shows.
ActsAsShown ==
  \A t \in Tabs :
    call[t].pc = "ok" /\ call[t].kind = "decide" =>
      uiSessions[call[t].cookie].approver = page[t].shown
===============================================================================
