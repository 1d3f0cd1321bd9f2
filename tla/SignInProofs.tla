----------------------------- MODULE SignInProofs -----------------------------
(***************************************************************************)
(* What TLAPS proves of SignIn, for any number of approvers, sessions,      *)
(* browsers and tabs: type correctness, that no call gets in with a         *)
(* session that is over, and that the login limiter gives no address two    *)
(* budgets within a window.                                                 *)
(***************************************************************************)
EXTENDS SignIn, TLAPS

\* The empty tables, jars and pages have their types.
LEMMA InitTyped == Init => TypeOK
BY NullAssumption DEF Init, TypeOK, Pages, SignedOut

\* A call under way is a call with all its fields; NoCall has another pc.
LEMMA CallTyped ==
  ASSUME TypeOK, NEW t \in Tabs, call[t].pc \in Pcs \/ call[t] # NoCall
  PROVE  call[t] \in Calls
BY DEF TypeOK, NoCall, Pcs, Answers

\* A session that has a row has all its columns.
LEMMA SessionTyped ==
  ASSUME TypeOK, NEW s \in Sids, HasRow(s)
  PROVE  uiSessions[s] \in Sessions
BY DEF TypeOK, HasRow

\* Moving a call on keeps its type.
LEMMA GoTyped ==
  ASSUME TypeOK, NEW t \in Tabs, NEW pc \in Pcs, call[t] \in Calls, Go(t, pc)
  PROVE  call' \in [Tabs -> Calls \cup {NoCall}]
BY DEF TypeOK, Go, Calls

\* Ending a session keeps the table's type.
LEMMA RevokeTyped ==
  ASSUME TypeOK, NEW s \in Sids \cup {Null}, RevokeUISession(s)
  PROVE  uiSessions' \in [Sids -> Sessions \cup {NoSession}]
BY SessionTyped, NullAssumption DEF TypeOK, RevokeUISession, Sessions

\* The limiter's windows and the attempts let through keep their types.
LEMMA AllowTyped ==
  ASSUME TypeOK, NEW h \in Hosts, allow(h)
  PROVE  limiter' \in [Hosts -> Windows \cup {NoWindow}] /\ attempts' \in [Hosts -> Seq(Nat)]
<1>1. Pruned \in [Hosts -> Windows \cup {NoWindow}]
  BY DEF TypeOK, Pruned
<1>2. WindowOf(h) \in Windows
  BY <1>1 DEF TypeOK, WindowOf, Windows
<1>3. [WindowOf(h) EXCEPT !.n = @ + 1] \in Windows
  BY <1>2 DEF Windows
<1>4. Append(attempts[h], clock) \in Seq(Nat)
  BY DEF TypeOK
<1> QED
  BY <1>1, <1>3, <1>4 DEF TypeOK, allow

\* A page after an answer is a page.
LEMMA PageTyped ==
  ASSUME TypeOK, NEW t \in Tabs, call[t] \in Calls,
         call[t].pc = "ok" /\ call[t].kind = "load" =>
           call[t].cookie \in Sids /\ HasRow(call[t].cookie)
  PROVE  PageAfter(call[t], page[t]) \in Pages
<1>1. SignedOut \in Pages
  BY DEF SignedOut, Pages
<1>2. CASE call[t].kind = "load" /\ call[t].pc = "ok"
  <2>1. uiSessions[call[t].cookie].approver \in Approvers
    BY <1>2, SessionTyped DEF Sessions
  <2> QED
    BY <1>1, <1>2, <2>1 DEF PageAfter, Pages, Calls
<1>3. CASE ~(call[t].kind = "load" /\ call[t].pc = "ok")
  BY <1>1, <1>3 DEF TypeOK, PageAfter, Pages, Calls, Kinds
<1> QED
  BY <1>2, <1>3

-----------------------------------------------------------------------------
(* The inductive invariant *)

Closed(s) == HasRow(s) /\ (uiSessions[s].revoked \/ uiSessions[s].expires <= clock)

\* A session Require lets nobody in with.
Shut(s) == HasRow(s) /\ (Closed(s) \/ accounts[uiSessions[s].approver] = "revoked")

\* What holds of a call under way.  Its cookie names a row; what was over
\* when it was sent still is; a session it reports ended is ended on record;
\* the copy Require judges was read after the call was sent; and a call that
\* got in did so with a session that was not over by then.
CallInv(t) ==
  LET c == call[t] IN c # NoCall =>
    /\ c.cookie # Null => HasRow(c.cookie)
    /\ c.over => c.cookie # Null /\ Shut(c.cookie)
    /\ c.pc \in {"lookup", "replace", "create"} => c.kind = "login"
    /\ c.pc \in {"replace", "create"} => c.by # Null
    /\ c.pc \in {"judge", "logout"} => c.kind # "login" /\ c.cookie # Null
    /\ c.pc = "logout" => c.kind = "logout"
    /\ c.pc = "create" /\ c.cookie # Null => Closed(c.cookie)
    /\ c.pc = "ok" /\ c.kind = "login" => c.session # Null /\ HasRow(c.session)
    /\ c.pc = "ok" /\ c.kind # "login" => c.cookie # Null
    /\ c.pc = "ok" /\ c.kind \in {"login", "logout"} /\ c.cookie # Null => Closed(c.cookie)
    /\ c.pc = "judge" =>
         /\ c.seen.expires = uiSessions[c.cookie].expires
         /\ c.over => c.seen.revoked \/ c.seen.expires <= clock \/ c.seen.approverRevoked
    /\ c.pc \in {"ok", "logout"} /\ c.kind # "login" => ~c.over

IInv ==
  /\ TypeOK
  /\ \A b \in Browsers : jar[b] # Null => HasRow(jar[b])
  /\ \A s \in ended : Closed(s)
  /\ \A t \in Tabs : CallInv(t)

\* The store only grows: rows stay, ends and revocations are for good, and
\* what a row says of its owner and its expiry never changes.
Grows ==
  /\ \A s \in Sids : HasRow(s) =>
       /\ HasRow(s)'
       /\ uiSessions'[s].approver = uiSessions[s].approver
       /\ uiSessions'[s].expires = uiSessions[s].expires
       /\ uiSessions[s].revoked => uiSessions'[s].revoked
  /\ \A a \in Approvers : accounts[a] = "revoked" => accounts'[a] = "revoked"
  /\ clock' >= clock

\* What is over stays over.
LEMMA ClosedStays ==
  ASSUME TypeOK, TypeOK', Grows, NEW s \in Sids, Closed(s)
  PROVE  Closed(s)'
<1>1. uiSessions[s].expires \in Nat
  BY SessionTyped DEF Closed, Sessions
<1> QED
  BY <1>1 DEF Closed, Grows, TypeOK

\* What is shut stays shut.
LEMMA ShutStays ==
  ASSUME TypeOK, TypeOK', Grows, NEW s \in Sids, Shut(s)
  PROVE  Shut(s)'
<1>1. HasRow(s) /\ uiSessions[s].approver \in Approvers
  BY SessionTyped DEF Shut, Sessions
<1>2. HasRow(s)' /\ uiSessions'[s].approver = uiSessions[s].approver
  BY <1>1 DEF Grows
<1> QED
  BY <1>1, <1>2, ClosedStays DEF Shut, Grows

\* So what was over when a call was sent still is.
LEMMA OverStays ==
  ASSUME TypeOK, TypeOK', Grows, NEW t \in Tabs, call[t] \in Calls, call[t] # NoCall, CallInv(t), call[t].over
  PROVE  LET cookie == call[t].cookie IN
         /\ cookie # Null /\ uiSessions'[cookie] # NoSession
         /\ \/ uiSessions'[cookie].revoked \/ uiSessions'[cookie].expires <= clock'
            \/ accounts'[uiSessions'[cookie].approver] = "revoked"
<1>1. call[t].cookie # Null /\ Shut(call[t].cookie)
  BY DEF CallInv
<1>2. PICK s \in Sids : s = call[t].cookie
  BY <1>1 DEF Calls
<1>3. Shut(s)'
  BY <1>1, <1>2, ShutStays
<1> QED
  BY <1>1, <1>2, <1>3 DEF Shut, Closed, HasRow

\* So a call that did not move keeps its invariant.
LEMMA GrowsKeepsCalls ==
  ASSUME TypeOK, TypeOK', Grows, NEW t \in Tabs, call'[t] = call[t], CallInv(t)
  PROVE  CallInv(t)'
<1> DEFINE c == call[t]
<1>1. CASE c = NoCall
  BY <1>1 DEF CallInv
<1>2. CASE c # NoCall
  <2>1. c \in Calls
    BY <1>2, CallTyped
  <2>2. c.cookie \in Sids \cup {Null}
        /\ c.session \in Sids \cup {Null} /\ c.seen.expires \in Nat
    BY <2>1 DEF Calls, Seen
  <2>3. c.cookie # Null => HasRow(c.cookie) /\ uiSessions'[c.cookie] # NoSession
          /\ uiSessions'[c.cookie].approver = uiSessions[c.cookie].approver
          /\ uiSessions'[c.cookie].expires = uiSessions[c.cookie].expires
    BY <1>2, <2>2 DEF CallInv, Grows, HasRow
  <2>4. c.over =>
          /\ c.cookie # Null /\ uiSessions'[c.cookie] # NoSession
          /\ \/ uiSessions'[c.cookie].revoked \/ uiSessions'[c.cookie].expires <= clock'
             \/ accounts'[uiSessions'[c.cookie].approver] = "revoked"
    BY <1>2, <2>1, OverStays
  <2>6. ASSUME c.cookie # Null, Closed(c.cookie)
        PROVE  uiSessions'[c.cookie] # NoSession
               /\ (uiSessions'[c.cookie].revoked \/ uiSessions'[c.cookie].expires <= clock')
    <3>1. PICK s \in Sids : s = c.cookie
      BY <2>2, <2>6
    <3>2. Closed(s)'
      BY <2>6, <3>1, ClosedStays
    <3> QED
      BY <3>1, <3>2 DEF Closed, HasRow
  <2>7. c.session # Null /\ HasRow(c.session) => uiSessions'[c.session] # NoSession
    BY <2>2 DEF Grows, HasRow
  <2>8. c.seen.expires <= clock => c.seen.expires <= clock'
    BY <2>2 DEF Grows, TypeOK
  <2> QED
    BY <1>2, <2>2, <2>3, <2>4, <2>6, <2>7, <2>8 DEF CallInv, Shut, Closed, HasRow
<1> QED
  BY <1>1, <1>2

-----------------------------------------------------------------------------
(* One step *)

\* Sending a call: a whole call, about what is over by now.
LEMMA SendStep ==
  ASSUME IInv, NEW t \in Tabs, NEW kind \in Kinds, NEW by \in Approvers \cup {Null},
         page' \in [Tabs -> Pages], Send(t, kind, by)
  PROVE  IInv'
<1>1. BrowserOf[t] \in Browsers /\ jar[BrowserOf[t]] \in Sids \cup {Null}
  BY PlacesAssumption DEF IInv, TypeOK
<1>2. call'[t] \in Calls
  BY <1>1 DEF Send, IInv, TypeOK, Calls, Pcs, Pages, NoneSeen, Seen
<1>3. TypeOK'
  BY <1>2 DEF Send, IInv, TypeOK, tables
<1>4. Grows
  BY DEF Send, IInv, TypeOK, tables, Grows, HasRow
<1>5. CallInv(t)'
  <2>1. call'[t].cookie # Null => HasRow(call[t].cookie)'
    BY <1>1 DEF Send, IInv, TypeOK, tables, HasRow
  <2>2. call'[t].over => call'[t].cookie # Null /\ Shut(call[t].cookie)'
    <3>1. PICK k \in Sids \cup {Null} : k = jar[BrowserOf[t]]
      BY <1>1
    <3>2. call'[t].cookie = k /\ (call'[t].over => k # Null /\ Over(k))
      BY <3>1 DEF Send, IInv, TypeOK
    <3>3. k # Null /\ Over(k) => Shut(k)
      BY DEF IInv, TypeOK, Over, Expired, Shut, Closed
    <3>4. Shut(k) => Shut(k)'
      BY <1>1 DEF Send, IInv, TypeOK, tables, Shut, Closed, HasRow
    <3> QED
      BY <3>2, <3>3, <3>4 DEF Shut, Closed, HasRow
  <2>4. call'[t].pc = "sent"
    BY DEF Send, IInv, TypeOK
  <2> QED
    BY <2>1, <2>2, <2>4 DEF CallInv
<1>6. \A u \in Tabs \ {t} : CallInv(u)'
  BY <1>3, <1>4, GrowsKeepsCalls DEF Send, IInv, TypeOK
<1> QED
  BY <1>3, <1>5, <1>6 DEF Send, IInv, tables, HasRow, Closed

\* A step of the server: it moves one call and leaves the browser alone.
LEMMA ServerStep ==
  ASSUME IInv, TypeOK', Grows, NEW t \in Tabs,
         UNCHANGED <<jar, ended>>, \A u \in Tabs \ {t} : call'[u] = call[u], CallInv(t)'
  PROVE  IInv'
<1>1. \A u \in Tabs \ {t} : CallInv(u)'
  BY GrowsKeepsCalls DEF IInv, TypeOK
<1>2. \A s \in ended' : Closed(s)'
  BY ClosedStays DEF IInv, TypeOK
<1>3. \A b \in Browsers : jar'[b] # Null => HasRow(jar[b])'
  BY DEF Grows, IInv, TypeOK, HasRow
<1> QED
  BY <1>1, <1>2, <1>3 DEF IInv

\* Statements that write nothing leave the store as it was.
LEMMA StillGrows == ASSUME TypeOK, UNCHANGED <<tables, clock>> PROVE Grows
BY DEF Grows, tables, HasRow, TypeOK

\* Ending a session is growth.
LEMMA RevokeGrows ==
  ASSUME TypeOK, NEW s \in Sids \cup {Null}, RevokeUISession(s), UNCHANGED <<accounts, clock>>
  PROVE  Grows /\ (s # Null /\ HasRow(s) => Closed(s)')
<1>1. CASE s # Null /\ HasRow(s)
  <2>1. uiSessions[s] \in Sessions /\ s \in Sids
    BY <1>1, SessionTyped
  <2>2. uiSessions' = [uiSessions EXCEPT ![s].revoked = TRUE]
    BY <1>1 DEF RevokeUISession
  <2>3. uiSessions'[s] \in Sessions /\ uiSessions'[s].revoked
        /\ uiSessions'[s].approver = uiSessions[s].approver /\ uiSessions'[s].expires = uiSessions[s].expires
    BY <2>1, <2>2 DEF TypeOK, Sessions
  <2>4. uiSessions'[s] # NoSession
    BY <2>3, NullAssumption DEF Sessions, NoSession
  <2>5. \A r \in Sids \ {s} : uiSessions'[r] = uiSessions[r]
    BY <2>2 DEF TypeOK
  <2> QED
    BY <2>3, <2>4, <2>5 DEF Grows, Closed, HasRow, TypeOK
<1>2. CASE ~(s # Null /\ HasRow(s))
  BY <1>2 DEF RevokeUISession, Grows, HasRow, TypeOK
<1> QED
  BY <1>1, <1>2

\* Opening a session is growth: its row was not there before.
LEMMA CreateGrows ==
  ASSUME TypeOK, NEW s \in Sids, NEW a \in Approvers, CreateUISession(s, a), UNCHANGED <<accounts, clock>>
  PROVE  /\ Grows /\ HasRow(s)'
         /\ uiSessions' \in [Sids -> Sessions \cup {NoSession}]
<1>1. [approver |-> a, expires |-> clock + SessionTTL, revoked |-> FALSE] \in Sessions
  BY TimesAssumption DEF TypeOK, Sessions
<1>2. uiSessions'[s] \in Sessions /\ \A r \in Sids \ {s} : uiSessions'[r] = uiSessions[r]
  BY <1>1 DEF CreateUISession, TypeOK
<1>3. uiSessions'[s] # NoSession
  BY <1>2, NullAssumption DEF Sessions, NoSession
<1> QED
  BY <1>1, <1>2, <1>3 DEF CreateUISession, Grows, HasRow, TypeOK

\* The account and the sweep.
LEMMA RevokeApproverStep == ASSUME IInv, NEW a \in Approvers, RevokeApprover(a) PROVE IInv'
<1>1. ASSUME NEW s \in Sids, HasRow(s)
      PROVE  /\ uiSessions'[s] \in Sessions
             /\ uiSessions'[s].approver = uiSessions[s].approver
             /\ uiSessions'[s].expires = uiSessions[s].expires
             /\ uiSessions[s].revoked => uiSessions'[s].revoked
  BY <1>1, SessionTyped DEF RevokeApprover, IInv, TypeOK, Sessions
<1>2. \A s \in Sids : ~HasRow(s) => uiSessions'[s] = uiSessions[s]
  BY DEF RevokeApprover, IInv, TypeOK
<1>3. TypeOK'
  <2>1. \A s \in Sids : uiSessions'[s] \in Sessions \cup {NoSession}
    BY <1>1, <1>2 DEF HasRow
  <2>2. uiSessions' \in [Sids -> Sessions \cup {NoSession}]
    BY <2>1 DEF RevokeApprover
  <2> QED
    BY <2>2 DEF RevokeApprover, IInv, TypeOK
<1>4. \A s \in Sids : HasRow(s) => HasRow(s)'
  BY <1>1, NullAssumption DEF HasRow, Sessions, NoSession
<1>5. Grows
  BY <1>1, <1>4 DEF Grows, RevokeApprover, IInv, TypeOK
<1>6. \A t \in Tabs : CallInv(t)'
  BY <1>3, <1>5, GrowsKeepsCalls DEF RevokeApprover, IInv
<1>7. \A s \in ended' : Closed(s)'
  BY <1>3, <1>5, ClosedStays DEF RevokeApprover, IInv, TypeOK
<1>8. \A b \in Browsers : jar'[b] # Null => HasRow(jar[b])'
  BY <1>5 DEF Grows, RevokeApprover, IInv, TypeOK, HasRow
<1> QED
  BY <1>3, <1>6, <1>7, <1>8 DEF IInv

\* The steps of a login.
LEMMA LoginSteps ==
  ASSUME IInv, NEW t \in Tabs, Limit(t) \/ Lookup(t) \/ Replace(t) \/ Create(t)
  PROVE  IInv'
<1> DEFINE c == call[t]
<1>1. c \in Calls /\ c # NoCall
  <2>1. c.pc \in {"sent", "lookup", "replace", "create"}
    BY DEF Limit, Lookup, Replace, Create
  <2>2. c # NoCall
    BY <2>1 DEF NoCall
  <2> QED
    BY <2>2, CallTyped DEF IInv
<1>2. CallInv(t) /\ TypeOK
  BY DEF IInv
<1>3. CASE Limit(t)
  <2>1. HostOf[BrowserOf[t]] \in Hosts
    BY PlacesAssumption
  <2>2. TypeOK'
    BY <1>1, <1>2, <1>3, <2>1, AllowTyped, GoTyped DEF Limit, TypeOK, tables, browser, Pcs, Answers
  <2>3. Grows
    BY <1>2, <1>3, StillGrows DEF Limit, tables
  <2>4. CallInv(t)'
    BY <1>1, <1>2, <1>3 DEF Limit, Go, CallInv, TypeOK, tables, HasRow, Closed, Shut, Calls
  <2> QED
    BY <1>3, <2>2, <2>3, <2>4, ServerStep DEF Limit, Go, browser, IInv, TypeOK
<1>4. CASE Lookup(t)
  <2>1. TypeOK'
    BY <1>1, <1>2, <1>4, GoTyped DEF Lookup, TypeOK, tables, browser, Pcs, Answers
  <2>2. Grows
    BY <1>2, <1>4, StillGrows DEF Lookup, tables
  <2>3. CallInv(t)'
    BY <1>1, <1>2, <1>4 DEF Lookup, Go, CallInv, TypeOK, tables, HasRow, Closed, Shut, Calls
  <2> QED
    BY <1>4, <2>1, <2>2, <2>3, ServerStep DEF Lookup, Go, browser, IInv, TypeOK
<1>5. CASE Replace(t)
  <2>1. c.cookie \in Sids \cup {Null}
    BY <1>1 DEF Calls
  <2>2. TypeOK'
    BY <1>1, <1>2, <1>5, <2>1, GoTyped, RevokeTyped DEF Replace, TypeOK, browser, Pcs
  <2>3. Grows /\ (c.cookie # Null => uiSessions'[c.cookie] # NoSession
                    /\ (uiSessions'[c.cookie].revoked \/ uiSessions'[c.cookie].expires <= clock'))
    <3>1. PICK s \in Sids \cup {Null} : s = c.cookie
      BY <2>1
    <3>2. Grows /\ (s # Null /\ HasRow(s) => Closed(s)')
      BY <1>2, <1>5, <3>1, RevokeGrows DEF Replace
    <3> QED
      BY <1>1, <1>2, <3>1, <3>2 DEF CallInv, Closed, HasRow
  <2>4. CallInv(t)'
    <3>1. c.over =>
            /\ c.cookie # Null /\ uiSessions'[c.cookie] # NoSession
            /\ \/ uiSessions'[c.cookie].revoked \/ uiSessions'[c.cookie].expires <= clock'
               \/ accounts'[uiSessions'[c.cookie].approver] = "revoked"
      BY <1>1, <1>2, <2>2, <2>3, OverStays
    <3>3. call'[t] = [c EXCEPT !.pc = "create"]
      BY <1>2, <1>5 DEF Replace, Go, TypeOK
    <3>4. c.kind = "login" /\ c.by # Null
      BY <1>1, <1>2, <1>5 DEF Replace, CallInv
    <3> QED
      BY <1>1, <2>3, <3>1, <3>3, <3>4 DEF CallInv, Calls, Shut, Closed, HasRow
  <2> QED
    BY <1>5, <2>2, <2>3, <2>4, ServerStep DEF Replace, Go, browser, IInv, TypeOK
<1>6. CASE Create(t)
  <2>1. PICK s \in Sids : CreateUISession(s, c.by) /\ call' = [call EXCEPT ![t] = [@ EXCEPT !.pc = "ok", !.session = s]]
    BY <1>6 DEF Create
  <2>2. c.by \in Approvers
    BY <1>1, <1>2, <1>6 DEF Create, CallInv, Calls
  <2>3. /\ Grows /\ uiSessions'[s] # NoSession
        /\ uiSessions' \in [Sids -> Sessions \cup {NoSession}]
    BY <1>2, <1>6, <2>1, <2>2, CreateGrows DEF Create, HasRow
  <2>4. call'[t] = [c EXCEPT !.pc = "ok", !.session = s] /\ call'[t] \in Calls
    BY <1>1, <1>2, <2>1 DEF TypeOK, Calls, Pcs, Answers
  <2>5. TypeOK'
    BY <1>2, <1>6, <2>1, <2>3, <2>4 DEF Create, TypeOK, browser
  <2>6. CallInv(t)'
    <3>1. c.over =>
            /\ c.cookie # Null /\ uiSessions'[c.cookie] # NoSession
            /\ \/ uiSessions'[c.cookie].revoked \/ uiSessions'[c.cookie].expires <= clock'
               \/ accounts'[uiSessions'[c.cookie].approver] = "revoked"
      BY <1>1, <1>2, <2>3, <2>5, OverStays
    <3>3. c.kind = "login"
      BY <1>1, <1>2, <1>6 DEF Create, CallInv
    <3>4. ASSUME c.cookie # Null
          PROVE  uiSessions'[c.cookie] # NoSession
                 /\ (uiSessions'[c.cookie].revoked \/ uiSessions'[c.cookie].expires <= clock')
      <4>1. PICK r \in Sids : r = c.cookie
        BY <1>1, <3>4 DEF Calls
      <4>2. Closed(r)'
        BY <1>1, <1>2, <1>6, <2>3, <2>5, <3>4, <4>1, ClosedStays DEF CallInv, Create
      <4> QED
        BY <4>1, <4>2 DEF Closed, HasRow
    <3> QED
      BY <1>1, <2>3, <2>4, <3>1, <3>3, <3>4, NullAssumption DEF CallInv, Calls, Shut, Closed, HasRow
  <2> QED
    BY <1>6, <2>1, <2>3, <2>5, <2>6, ServerStep DEF Create, browser, IInv, TypeOK
<1> QED
  BY <1>3, <1>4, <1>5, <1>6

\* The steps of Require and logout.
LEMMA RequireSteps ==
  ASSUME IInv, NEW t \in Tabs, Find(t) \/ Judge(t) \/ Logout(t)
  PROVE  IInv'
<1> DEFINE c == call[t]
<1>1. c \in Calls /\ c # NoCall
  <2>1. c.pc \in {"sent", "judge", "logout"}
    BY DEF Find, Judge, Logout
  <2>2. c # NoCall
    BY <2>1 DEF NoCall
  <2> QED
    BY <2>2, CallTyped DEF IInv
<1>2. CallInv(t) /\ TypeOK
  BY DEF IInv
<1>3. c.cookie \in Sids \cup {Null} /\ c.seen \in Seen /\ c.over \in BOOLEAN
  BY <1>1 DEF Calls
<1>4. CASE Find(t)
  <2>1. Grows
    BY <1>2, <1>4, StillGrows DEF Find, tables
  <2>2. CASE c.cookie = Null
    <3>1. Go(t, "unauthenticated")
      BY <1>4, <2>2 DEF Find
    <3>2. TypeOK'
      BY <1>1, <1>2, <1>4, <3>1, GoTyped DEF Find, TypeOK, tables, browser, Pcs, Answers
    <3>3. CallInv(t)'
      BY <1>1, <1>2, <1>4, <3>1 DEF Find, Go, CallInv, TypeOK, tables, HasRow, Closed, Shut, Calls
    <3> QED
      BY <1>4, <2>1, <3>1, <3>2, <3>3, ServerStep DEF Find, Go, browser, IInv, TypeOK
  <2>3. CASE c.cookie # Null
    <3>1. HasRow(c.cookie) /\ c.cookie \in Sids
      BY <1>1, <1>2, <1>3, <2>3 DEF CallInv
    <3>2. uiSessions[c.cookie] \in Sessions
      BY <1>2, <3>1, SessionTyped
    <3>3. UISessionByHash(c.cookie) \in Seen
      BY <3>2 DEF UISessionByHash, Seen, Sessions
    <3>4. call'[t] = [c EXCEPT !.pc = "judge", !.seen = UISessionByHash(c.cookie)] /\ c.kind # "login"
          /\ \A u \in Tabs \ {t} : call'[u] = call[u]
      BY <1>2, <1>4, <2>3, <3>1 DEF Find, TypeOK
    <3>5. call'[t] \in Calls
      BY <1>1, <3>3, <3>4 DEF Calls, Pcs
    <3>6. TypeOK'
      BY <1>2, <1>4, <2>3, <3>1, <3>4, <3>5 DEF Find, TypeOK, tables, browser
    <3>7. LET u == UISessionByHash(c.cookie) IN
          /\ c.over => u.revoked \/ u.expires <= clock \/ u.approverRevoked
          /\ u.expires = uiSessions[c.cookie].expires
      BY <1>1, <1>2 DEF CallInv, UISessionByHash, Shut, Closed
    <3>8. CallInv(t)'
      BY <1>1, <1>2, <1>4, <2>3, <3>4, <3>5, <3>7 DEF CallInv, Calls, Find, tables, HasRow, Closed, Shut
    <3> QED
      BY <1>4, <2>1, <3>4, <3>6, <3>8, ServerStep DEF Find, browser
  <2> QED
    BY <2>2, <2>3
<1>5. CASE Judge(t)
  <2>1. Grows
    BY <1>2, <1>5, StillGrows DEF Judge, tables
  <2>2. PICK pc \in {"cleared", "csrf", "logout", "ok"} :
          /\ Judged(t, pc)
          /\ pc \in {"logout", "ok"} => live(c.seen)
          /\ pc = "logout" => c.kind = "logout"
          /\ pc = "ok" => c.kind # "logout"
    BY <1>5 DEF Judge
  <2>7. call'[t] = [c EXCEPT !.pc = pc, !.seen = NoneSeen, !.csrf = Null]
    BY <1>2, <2>2 DEF Judged, TypeOK
  <2>3. TypeOK'
    <3>1. call'[t] \in Calls
      <4>1. NoneSeen \in Seen /\ pc \in Pcs /\ Null \in Sids \cup {Null}
        BY DEF NoneSeen, Seen, Pcs, Answers
      <4> QED
        BY <1>1, <2>7, <4>1, ZenonT(60) DEF Calls
    <3> QED
      BY <1>2, <1>5, <2>2, <3>1 DEF Judge, Judged, TypeOK, tables, browser
  <2>4. c.kind # "login" /\ c.cookie # Null
    BY <1>1, <1>2, <1>5 DEF CallInv, Judge
  <2>5. live(c.seen) => ~c.over
    BY <1>1, <1>2, <1>3, <1>5 DEF CallInv, Judge, live, Seen, TypeOK
  <2>6. CallInv(t)'
    <3>1. /\ call'[t].pc = pc /\ call'[t].kind = c.kind /\ call'[t].cookie = c.cookie /\ call'[t].over = c.over
      BY <1>1, <2>7 DEF Calls
    <3> QED
      BY <1>1, <1>2, <1>5, <2>2, <2>4, <2>5, <3>1 DEF Judge, CallInv, TypeOK, tables, HasRow, Closed, Shut
  <2> QED
    BY <1>5, <2>1, <2>2, <2>3, <2>6, ServerStep DEF Judge, Judged, browser, IInv, TypeOK
<1>6. CASE Logout(t)
  <2>1. PICK s \in Sids : s = c.cookie
    BY <1>1, <1>2, <1>3, <1>6 DEF CallInv, Logout
  <2>2. HasRow(s)
    BY <1>1, <1>2, <2>1, NullAssumption DEF CallInv
  <2>3. Grows /\ Closed(s)'
    BY <1>2, <1>6, <2>1, <2>2, RevokeGrows, NullAssumption DEF Logout
  <2>4. TypeOK'
    BY <1>1, <1>2, <1>3, <1>6, GoTyped, RevokeTyped DEF Logout, TypeOK, browser, Pcs, Answers
  <2>5. c.over =>
          /\ c.cookie # Null /\ uiSessions'[c.cookie] # NoSession
          /\ \/ uiSessions'[c.cookie].revoked \/ uiSessions'[c.cookie].expires <= clock'
             \/ accounts'[uiSessions'[c.cookie].approver] = "revoked"
    BY <1>1, <1>2, <2>3, <2>4, OverStays
  <2>6. uiSessions'[c.cookie] # NoSession /\ (uiSessions'[c.cookie].revoked \/ uiSessions'[c.cookie].expires <= clock')
        /\ uiSessions'[c.cookie].approver = uiSessions[c.cookie].approver
    BY <2>1, <2>2, <2>3 DEF Closed, HasRow, Grows
  <2>7. call'[t] = [c EXCEPT !.pc = "ok"]
    BY <1>2, <1>6 DEF Logout, Go, TypeOK
  <2>8. CallInv(t)'
    BY <1>1, <1>2, <1>6, <2>5, <2>6, <2>7 DEF Logout, CallInv, Calls, HasRow, Closed, Shut
  <2> QED
    BY <1>6, <2>3, <2>4, <2>8, ServerStep DEF Logout, Go, browser, IInv, TypeOK
<1> QED
  BY <1>4, <1>5, <1>6

\* The browser hears: it takes the cookie of a row, and ends are on record.
LEMMA AnswerStep == ASSUME IInv, NEW t \in Tabs, Answer(t) PROVE IInv'
<1> DEFINE c == call[t]
<1>1. c \in Calls /\ c # NoCall
  <2>1. c # NoCall
    BY DEF Answer, Answers, NoCall
  <2> QED
    BY <2>1, CallTyped DEF IInv
<1>2. CallInv(t) /\ TypeOK
  BY DEF IInv
<1>3. c.cookie \in Sids \cup {Null} /\ c.session \in Sids \cup {Null}
  BY <1>1 DEF Calls
<1>4. BrowserOf[t] \in Browsers
  BY PlacesAssumption
<1>5. ASSUME NEW held \in Sids \cup {Null}, held # Null => HasRow(held)
      PROVE  JarAfter(c, held) \in Sids \cup {Null} /\ (JarAfter(c, held) # Null => HasRow(JarAfter(c, held)))
  BY <1>1, <1>2, <1>3, <1>5 DEF JarAfter, CallInv
<1>6. jar' \in [Browsers -> Sids \cup {Null}] /\ \A b \in Browsers : jar'[b] # Null => uiSessions[jar'[b]] # NoSession
  BY <1>2, <1>4, <1>5 DEF Answer, IInv, TypeOK, HasRow
<1>7. \A s \in EndedBy(c) : s \in Sids /\ Closed(s)
  BY <1>1, <1>2, <1>3 DEF EndedBy, CallInv
<1>8. PageAfter(c, page[t]) \in Pages
  BY <1>1, <1>2, <1>3, PageTyped DEF CallInv
<1>9. TypeOK'
  BY <1>2, <1>6, <1>7, <1>8 DEF Answer, TypeOK, tables
<1>10. Grows
  BY <1>2, StillGrows DEF Answer, tables
<1>11. \A u \in Tabs : CallInv(u)'
  <2>1. CallInv(t)'
    BY <1>2 DEF Answer, CallInv, TypeOK
  <2>2. ASSUME NEW u \in Tabs \ {t} PROVE CallInv(u)'
    BY <1>2, <1>9, <1>10, GrowsKeepsCalls DEF Answer, IInv, TypeOK
  <2> QED
    BY <2>1, <2>2
<1>12. \A s \in ended' : Closed(s)'
  BY <1>7 DEF Answer, IInv, tables, Closed, HasRow
<1> QED
  BY <1>6, <1>9, <1>11, <1>12 DEF IInv, Answer, tables, HasRow

\* A copied cookie names a row, as every cookie the server set does.
LEMMA CopyStep == ASSUME IInv, NEW b \in Browsers, Copy(b) PROVE IInv'
<1>1. PICK s \in Sids : HasRow(s) /\ jar' = [jar EXCEPT ![b] = s]
  BY DEF Copy, IInv, TypeOK
<1>2. TypeOK'
  BY <1>1 DEF Copy, IInv, TypeOK, tables
<1>3. \A a \in Browsers : jar'[a] # Null => uiSessions[jar'[a]] # NoSession
  BY <1>1 DEF IInv, TypeOK, HasRow
<1>4. Grows
  BY StillGrows DEF Copy, IInv, tables
<1>5. \A t \in Tabs : CallInv(t)'
  BY <1>2, <1>4, GrowsKeepsCalls DEF Copy, IInv
<1> QED
  BY <1>2, <1>3, <1>5 DEF Copy, IInv, tables, HasRow, Closed

\* A call that is lost, and the clock.
LEMMA LoseStep == ASSUME IInv, NEW t \in Tabs, Lose(t) PROVE IInv'
<1>1. TypeOK'
  BY DEF Lose, IInv, TypeOK, tables, SignedOut, Pages
<1>2. Grows
  BY StillGrows DEF Lose, IInv, tables
<1>3. CallInv(t)'
  BY DEF Lose, CallInv, IInv, TypeOK
<1> QED
  BY <1>1, <1>2, <1>3, ServerStep DEF Lose, IInv, TypeOK

\* Time passes.
LEMMA TickStep == ASSUME IInv, Tick PROVE IInv'
<1>1. TypeOK'
  BY DEF Tick, IInv, TypeOK, tables, browser
<1>2. Grows
  BY DEF Tick, IInv, TypeOK, tables, Grows, HasRow
<1>3. \A t \in Tabs : CallInv(t)'
  BY <1>1, <1>2, GrowsKeepsCalls DEF Tick, IInv
<1>4. \A s \in ended' : Closed(s)'
  BY <1>1, <1>2, ClosedStays DEF Tick, IInv, TypeOK
<1> QED
  BY <1>1, <1>3, <1>4 DEF Tick, IInv, tables, browser, HasRow

\* Every step keeps the invariant.
LEMMA NextInv == IInv /\ [Next]_vars => IInv'
<1> SUFFICES ASSUME IInv, [Next]_vars PROVE IInv'
  OBVIOUS
<1>1. ASSUME NEW t \in Tabs, NEW by \in Approvers \cup {Null}, SendLogin(t, by) PROVE IInv'
  BY <1>1, SendStep DEF SendLogin, Kinds, IInv, TypeOK
<1>2. ASSUME NEW t \in Tabs, NEW kind \in {"decide", "logout", "refused"}, SendCall(t, kind) PROVE IInv'
  BY <1>2, SendStep DEF SendCall, Kinds, IInv, TypeOK
<1>3. ASSUME NEW t \in Tabs, Load(t) PROVE IInv'
  <2>1. page' \in [Tabs -> Pages]
    BY <1>3 DEF Load, SignedOut, Pages, IInv, TypeOK
  <2> QED
    BY <1>3, <2>1, SendStep DEF Load, Kinds
<1>4. CASE UNCHANGED vars
  <2>1. TypeOK'
    BY <1>4 DEF vars, IInv, TypeOK
  <2>2. Grows
    BY <1>4, StillGrows DEF vars, tables, IInv
  <2>3. \A t \in Tabs : CallInv(t)'
    BY <1>4, <2>1, <2>2, GrowsKeepsCalls DEF vars, IInv
  <2>4. \A s \in ended' : Closed(s)'
    BY <1>4, <2>1, <2>2, ClosedStays DEF vars, IInv, TypeOK
  <2> QED
    BY <1>4, <2>1, <2>3, <2>4 DEF vars, IInv, HasRow
<1> QED
  BY <1>1, <1>2, <1>3, <1>4, LoginSteps, RequireSteps, AnswerStep, LoseStep, CopyStep,
     RevokeApproverStep, TickStep DEF Next

\* The invariant holds of the empty tables.
LEMMA InitInv == Init => IInv
BY InitTyped DEF Init, IInv, CallInv, NoCall

\* The invariant says what NoEntryAfterEnd does.
LEMMA EntryFromInv == IInv => NoEntryAfterEnd
BY DEF IInv, CallInv, NoEntryAfterEnd, NoCall

-----------------------------------------------------------------------------
(* The limiter *)

\* When the attempts a host was let through opened a window: the openings lie
\* a window apart, and none of them covers more than the budget.
Openings(a, O) ==
  /\ O \subseteq DOMAIN a
  /\ \A p, q \in O : p < q => a[q] - a[p] >= LoginWindow
  /\ \A i \in DOMAIN a : \E p \in O : p <= i /\ i < p + LoginAttempts

\* The attempts come in the order of the clock.
InOrder(a, now) ==
  /\ \A i, j \in DOMAIN a : i <= j => a[i] <= a[j]
  /\ \A i \in DOMAIN a : a[i] <= now

\* The window w the limiter keeps is that of the last opening and counts what
\* was let through since; when it keeps none, every window is over.
Kept(a, O, w, now) ==
  \/ /\ w = NoWindow
     /\ \A p \in O : a[p] + LoginWindow <= now
  \/ /\ w \in Windows /\ w.n \in 1 .. LoginAttempts /\ w.n <= Len(a)
     /\ Len(a) + 1 - w.n \in O /\ a[Len(a) + 1 - w.n] = w.start
     /\ \A p \in O : p <= Len(a) + 1 - w.n

LimitInv ==
  \A h \in Hosts :
    /\ InOrder(attempts[h], clock)
    /\ \E O \in SUBSET (DOMAIN attempts[h]) :
         Openings(attempts[h], O) /\ Kept(attempts[h], O, limiter[h], clock)

\* Two budgets reach across three openings, or start with one of the two.
LEMMA LimitFromInv == TypeOK /\ LimitInv => LimitHolds
<1> SUFFICES ASSUME TypeOK, LimitInv, NEW h \in Hosts, NEW i \in DOMAIN attempts[h],
                    i + 2 * LoginAttempts - 1 \in DOMAIN attempts[h]
             PROVE  attempts[h][i + 2 * LoginAttempts - 1] - attempts[h][i] >= LoginWindow
  BY DEF LimitHolds
<1> DEFINE a == attempts[h]
           j == i + 2 * LoginAttempts - 1
<1>1. PICK O \in SUBSET (DOMAIN a) : Openings(a, O)
  BY DEF LimitInv
<1>2. InOrder(a, clock)
  BY DEF LimitInv
<1>3. a \in Seq(Nat) /\ LoginAttempts \in Nat \ {0} /\ LoginWindow \in Nat
  BY TimesAssumption DEF TypeOK
<1>4. DOMAIN a = 1 .. Len(a) /\ Len(a) \in Nat /\ i \in Nat /\ \A k \in DOMAIN a : a[k] \in Nat
  BY <1>3
<1>5. i + LoginAttempts - 1 \in DOMAIN a
  BY <1>3, <1>4
<1>6. PICK q \in O : q <= i + LoginAttempts - 1 /\ i + LoginAttempts - 1 < q + LoginAttempts
  BY <1>1, <1>5 DEF Openings
<1>7. q \in Nat /\ q \in DOMAIN a /\ i <= q /\ q + LoginAttempts \in DOMAIN a /\ q + LoginAttempts <= j
  BY <1>1, <1>3, <1>4, <1>6
<1>8. PICK r \in O : r <= q + LoginAttempts /\ q + LoginAttempts < r + LoginAttempts
  BY <1>1, <1>7 DEF Openings
<1>9. r \in DOMAIN a /\ q < r /\ r <= j
  BY <1>1, <1>3, <1>4, <1>7, <1>8
<1>10. a[r] - a[q] >= LoginWindow
  BY <1>1, <1>6, <1>8, <1>9 DEF Openings
<1>11. a[i] <= a[q] /\ a[r] <= a[j]
  BY <1>2, <1>7, <1>9 DEF InOrder
<1>12. a[i] \in Nat /\ a[q] \in Nat /\ a[r] \in Nat /\ a[j] \in Nat
  BY <1>4, <1>7, <1>9
<1> HIDE DEF a, j
<1> QED
  BY <1>3, <1>10, <1>11, <1>12, SMTT(30) DEF a, j

\* Pruning a window that is over keeps what the limiter keeps true, and so
\* does time that passes.
LEMMA PruneKeeps ==
  ASSUME NEW a \in Seq(Nat), NEW O \in SUBSET (DOMAIN a), NEW w \in Windows \cup {NoWindow},
         NEW now \in Nat, InOrder(a, now), Openings(a, O), Kept(a, O, w, now)
  PROVE  Kept(a, O, IF w # NoWindow /\ now >= w.start + LoginWindow THEN NoWindow ELSE w, now)
<1>1. CASE w = NoWindow \/ ~(now >= w.start + LoginWindow)
  BY <1>1
<1>2. CASE w # NoWindow /\ now >= w.start + LoginWindow
  <2> DEFINE l == Len(a) + 1 - w.n
  <2>1. l \in O /\ a[l] = w.start /\ \A p \in O : p <= l
    BY <1>2 DEF Kept
  <2>2. \A p \in O : a[p] <= w.start
    BY <2>1 DEF InOrder
  <2>3. \A p \in O : a[p] \in Nat
    OBVIOUS
  <2>4. w.start \in Nat /\ LoginWindow \in Nat
    BY <1>2, TimesAssumption DEF Windows
  <2>5. \A p \in O : a[p] + LoginWindow <= now
    BY <1>2, <2>2, <2>3, <2>4
  <2> QED
    BY <1>2, <2>5 DEF Kept
<1> QED
  BY <1>1, <1>2

\* An attempt let through at now comes last in order.
LEMMA AppendInOrder ==
  ASSUME NEW a \in Seq(Nat), NEW now \in Nat, InOrder(a, now)
  PROVE  InOrder(Append(a, now), now)
<1> DEFINE b == Append(a, now)
<1>1. DOMAIN b = 1 .. Len(a) + 1 /\ DOMAIN a = 1 .. Len(a) /\ Len(a) \in Nat
  OBVIOUS
<1>2. b[Len(a) + 1] = now /\ \A i \in DOMAIN a : b[i] = a[i] /\ a[i] \in Nat
  OBVIOUS
<1> HIDE DEF b
<1>3. ASSUME NEW i \in DOMAIN b PROVE b[i] <= now
  BY <1>1, <1>2 DEF InOrder
<1>4. ASSUME NEW i \in DOMAIN b, NEW j \in DOMAIN b, i <= j PROVE b[i] <= b[j]
  <2>1. CASE j = Len(a) + 1
    BY <1>2, <1>3, <2>1
  <2>2. CASE j # Len(a) + 1
    BY <1>1, <1>2, <1>4, <2>2 DEF InOrder
  <2> QED
    BY <2>1, <2>2
<1>5. InOrder(b, now)
  BY <1>3, <1>4 DEF InOrder
<1> QED
  BY <1>5 DEF b

\* With no window kept, an attempt opens one.
LEMMA OpensWindow ==
  ASSUME NEW a \in Seq(Nat), NEW O \in SUBSET (DOMAIN a), NEW now \in Nat,
         Openings(a, O), Kept(a, O, NoWindow, now)
  PROVE  \E Q \in SUBSET (DOMAIN Append(a, now)) :
           Openings(Append(a, now), Q) /\ Kept(Append(a, now), Q, [start |-> now, n |-> 1], now)
<1> DEFINE b == Append(a, now)
           e == Len(a) + 1
           Q == O \cup {e}
<1>1. DOMAIN b = 1 .. e /\ DOMAIN a = 1 .. Len(a) /\ Len(a) \in Nat /\ Len(b) = e
  OBVIOUS
<1>2. b[e] = now /\ \A i \in DOMAIN a : b[i] = a[i] /\ a[i] \in Nat
  OBVIOUS
<1>3. LoginAttempts \in Nat \ {0} /\ LoginWindow \in Nat
  BY TimesAssumption
<1>4. \A p \in O : a[p] + LoginWindow <= now
  BY DEF Kept, NoWindow
<1> HIDE DEF b
<1>5. ASSUME NEW p \in Q, NEW q \in Q, p < q PROVE b[q] - b[p] >= LoginWindow
  <2>1. CASE q \in O
    <3>1. p \in O
      BY <1>1, <1>5, <2>1
    <3> QED
      BY <1>2, <1>5, <2>1, <3>1 DEF Openings
  <2>2. CASE q = e
    <3>1. p \in O
      BY <1>1, <1>5, <2>2
    <3> QED
      BY <1>2, <1>3, <1>4, <2>2, <3>1
  <2> QED
    BY <2>1, <2>2
<1>6. ASSUME NEW i \in DOMAIN b PROVE \E p \in Q : p <= i /\ i < p + LoginAttempts
  <2>1. CASE i = e
    BY <1>1, <1>3, <2>1
  <2>2. CASE i # e
    BY <1>1, <2>2 DEF Openings
  <2> QED
    BY <2>1, <2>2
<1>7. Openings(b, Q)
  BY <1>1, <1>5, <1>6 DEF Openings
<1>8. Kept(b, Q, [start |-> now, n |-> 1], now)
  <2> DEFINE w == [start |-> now, n |-> 1]
  <2>1. w \in Windows /\ w.n = 1 /\ w.start = now /\ w.n \in 1 .. LoginAttempts
    BY <1>3 DEF Windows
  <2> HIDE DEF w
  <2>2. Len(b) + 1 - w.n = e /\ w.n <= Len(b)
    BY <1>1, <2>1
  <2>3. \A p \in Q : p <= e
    BY <1>1
  <2>4. Kept(b, Q, w, now)
    BY <1>2, <2>1, <2>2, <2>3 DEF Kept
  <2> QED
    BY <2>4 DEF w
<1>9. Q \in SUBSET (DOMAIN b)
  BY <1>1
<1> QED
  BY <1>7, <1>8, <1>9 DEF b

\* With a window kept that has room, an attempt counts in it.
LEMMA CountsInWindow ==
  ASSUME NEW a \in Seq(Nat), NEW O \in SUBSET (DOMAIN a), NEW now \in Nat, NEW w \in Windows,
         Openings(a, O), Kept(a, O, w, now), w.n < LoginAttempts
  PROVE  \E Q \in SUBSET (DOMAIN Append(a, now)) :
           Openings(Append(a, now), Q) /\ Kept(Append(a, now), Q, [w EXCEPT !.n = @ + 1], now)
<1> DEFINE b == Append(a, now)
           e == Len(a) + 1
           x == [w EXCEPT !.n = @ + 1]
<1>1. DOMAIN b = 1 .. e /\ DOMAIN a = 1 .. Len(a) /\ Len(a) \in Nat /\ Len(b) = e
  OBVIOUS
<1>2. \A i \in DOMAIN a : b[i] = a[i] /\ a[i] \in Nat
  OBVIOUS
<1>3. LoginAttempts \in Nat \ {0} /\ LoginWindow \in Nat /\ w.n \in Nat /\ w.start \in Nat
  BY TimesAssumption DEF Windows
<1>4. x \in Windows /\ x.n = w.n + 1 /\ x.start = w.start
  BY DEF Windows
<1> HIDE DEF b, x
<1>5. w # NoWindow
  BY DEF Windows, NoWindow
<1>6. /\ w.n \in 1 .. LoginAttempts /\ w.n <= Len(a)
      /\ e - w.n \in O /\ a[e - w.n] = w.start
      /\ \A p \in O : p <= e - w.n
  BY <1>5 DEF Kept
<1>7. \A p, q \in O : p < q => b[q] - b[p] >= LoginWindow
  BY <1>2 DEF Openings
<1>8. ASSUME NEW i \in DOMAIN b PROVE \E p \in O : p <= i /\ i < p + LoginAttempts
  <2>1. CASE i = e
    <3>1. e - w.n <= i /\ i < (e - w.n) + LoginAttempts
      BY <1>1, <1>3, <2>1
    <3> QED
      BY <1>6, <3>1
  <2>2. CASE i # e
    BY <1>1, <2>2 DEF Openings
  <2> QED
    BY <2>1, <2>2
<1>9. O \subseteq DOMAIN b
  BY <1>1
<1>10. Openings(b, O)
  BY <1>7, <1>8, <1>9 DEF Openings
<1>11. Len(b) + 1 - x.n = e - w.n /\ x.n \in 1 .. LoginAttempts /\ x.n <= Len(b)
  BY <1>1, <1>3, <1>4, <1>6
<1>12. e - w.n \in DOMAIN a
  BY <1>6
<1>13. Kept(b, O, x, now)
  BY <1>2, <1>4, <1>6, <1>11, <1>12 DEF Kept
<1> QED
  BY <1>9, <1>10, <1>13 DEF b, x

\* allow keeps the invariant of every host, of those it prunes as well.
LEMMA AllowStep ==
  ASSUME TypeOK, LimitInv, NEW h \in Hosts, allow(h), clock' = clock
  PROVE  LimitInv'
<1> SUFFICES ASSUME NEW g \in Hosts
             PROVE  /\ InOrder(attempts'[g], clock)
                    /\ \E O \in SUBSET (DOMAIN attempts'[g]) :
                         Openings(attempts'[g], O) /\ Kept(attempts'[g], O, limiter'[g], clock)
  BY DEF LimitInv
<1>1. attempts[g] \in Seq(Nat) /\ limiter[g] \in Windows \cup {NoWindow} /\ clock \in Nat
  BY DEF TypeOK
<1>2. PICK O \in SUBSET (DOMAIN attempts[g]) : Openings(attempts[g], O) /\ Kept(attempts[g], O, limiter[g], clock)
  BY DEF LimitInv
<1>3. InOrder(attempts[g], clock)
  BY DEF LimitInv
<1>4. Pruned[g] = IF limiter[g] # NoWindow /\ clock >= limiter[g].start + LoginWindow THEN NoWindow ELSE limiter[g]
  BY DEF Pruned
<1>5. Kept(attempts[g], O, Pruned[g], clock)
  BY <1>1, <1>2, <1>3, <1>4, PruneKeeps
<1>6. CASE g # h \/ ~Allows(h)
  <2>1. attempts'[g] = attempts[g] /\ limiter'[g] = Pruned[g]
    BY <1>6 DEF allow, TypeOK, Pruned
  <2> QED
    BY <1>2, <1>3, <1>5, <2>1
<1>7. CASE g = h /\ Allows(h)
  <2>1. attempts'[g] = Append(attempts[g], clock) /\ limiter'[g] = [WindowOf(g) EXCEPT !.n = @ + 1]
    BY <1>7 DEF allow, TypeOK, Pruned
  <2>2. InOrder(attempts'[g], clock)
    BY <1>1, <1>3, <2>1, AppendInOrder
  <2>3. CASE Pruned[g] = NoWindow
    <3>1. limiter'[g] = [start |-> clock, n |-> 1]
      BY <2>1, <2>3 DEF WindowOf
    <3>2. Kept(attempts[g], O, NoWindow, clock)
      BY <1>5, <2>3
    <3>3. \E Q \in SUBSET (DOMAIN Append(attempts[g], clock)) :
            /\ Openings(Append(attempts[g], clock), Q)
            /\ Kept(Append(attempts[g], clock), Q, [start |-> clock, n |-> 1], clock)
      BY <1>1, <1>2, <3>2, OpensWindow
    <3> QED
      BY <2>1, <2>2, <3>1, <3>3
  <2>4. CASE Pruned[g] # NoWindow
    <3>1. Pruned[g] \in Windows /\ Pruned[g].n < LoginAttempts
      BY <1>1, <1>4, <1>7, <2>4 DEF Allows
    <3>2. limiter'[g] = [Pruned[g] EXCEPT !.n = @ + 1]
      BY <2>1, <2>4 DEF WindowOf
    <3>3. \E Q \in SUBSET (DOMAIN Append(attempts[g], clock)) :
            /\ Openings(Append(attempts[g], clock), Q)
            /\ Kept(Append(attempts[g], clock), Q, [Pruned[g] EXCEPT !.n = @ + 1], clock)
      BY <1>1, <1>2, <1>5, <3>1, CountsInWindow
    <3> QED
      BY <2>1, <2>2, <3>2, <3>3, Zenon
  <2> QED
    BY <2>3, <2>4
<1> QED
  BY <1>6, <1>7

\* Only a login's attempt and the clock touch what the limiter depends on.
LEMMA LimitStep == TypeOK /\ LimitInv /\ [Next]_vars => LimitInv'
<1> SUFFICES ASSUME TypeOK, LimitInv, [Next]_vars PROVE LimitInv'
  OBVIOUS
<1>1. ASSUME NEW t \in Tabs, Limit(t) PROVE LimitInv'
  <2>1. HostOf[BrowserOf[t]] \in Hosts
    BY PlacesAssumption
  <2> QED
    BY <1>1, <2>1, AllowStep DEF Limit
<1>2. CASE Tick
  <2> SUFFICES ASSUME NEW h \in Hosts
               PROVE  /\ InOrder(attempts[h], clock')
                      /\ \E O \in SUBSET (DOMAIN attempts[h]) :
                           Openings(attempts[h], O) /\ Kept(attempts[h], O, limiter[h], clock')
    BY <1>2 DEF LimitInv, Tick
  <2>1. attempts[h] \in Seq(Nat) /\ clock \in Nat /\ clock' = clock + 1 /\ LoginWindow \in Nat
    BY <1>2, TimesAssumption DEF TypeOK, Tick
  <2>2. \A i \in DOMAIN attempts[h] : attempts[h][i] \in Nat
    BY <2>1
  <2>3. InOrder(attempts[h], clock')
    BY <2>1, <2>2 DEF LimitInv, InOrder
  <2>4. PICK O \in SUBSET (DOMAIN attempts[h]) : Openings(attempts[h], O) /\ Kept(attempts[h], O, limiter[h], clock)
    BY DEF LimitInv
  <2>5. \A p \in O : attempts[h][p] + LoginWindow <= clock => attempts[h][p] + LoginWindow <= clock'
    BY <2>1, <2>2
  <2>6. Kept(attempts[h], O, limiter[h], clock')
    BY <2>4, <2>5 DEF Kept
  <2> QED
    BY <2>3, <2>4, <2>6
<1>3. CASE UNCHANGED <<limiter, attempts, clock>>
  BY <1>3 DEF LimitInv
<1>4. ASSUME NEW t \in Tabs,
             \/ \E by \in Approvers \cup {Null} : SendLogin(t, by)
             \/ \E kind \in {"decide", "logout", "refused"} : SendCall(t, kind)
             \/ Load(t) \/ Lookup(t) \/ Replace(t) \/ Create(t)
             \/ Find(t) \/ Judge(t) \/ Logout(t) \/ Answer(t) \/ Lose(t)
      PROVE  UNCHANGED <<limiter, attempts, clock>>
  BY <1>4 DEF SendLogin, SendCall, Load, Send, Lookup, Replace, Create, Find, Judge, Logout, Answer, Lose
<1>5. ASSUME (\E a \in Approvers : RevokeApprover(a)) \/ (\E b \in Browsers : Copy(b))
      PROVE  UNCHANGED <<limiter, attempts, clock>>
  BY <1>5 DEF RevokeApprover, Copy
<1>6. UNCHANGED vars => UNCHANGED <<limiter, attempts, clock>>
  BY DEF vars
<1> QED
  BY <1>1, <1>2, <1>3, <1>4, <1>5, <1>6 DEF Next

\* No attempts, no windows.
LEMMA LimitInitially == Init => LimitInv
<1> SUFFICES ASSUME Init, NEW h \in Hosts
             PROVE  /\ InOrder(attempts[h], clock)
                    /\ \E O \in SUBSET (DOMAIN attempts[h]) :
                         Openings(attempts[h], O) /\ Kept(attempts[h], O, limiter[h], clock)
  BY DEF LimitInv
<1>1. attempts[h] = << >> /\ limiter[h] = NoWindow /\ DOMAIN attempts[h] = {}
  BY DEF Init
<1>2. InOrder(attempts[h], clock)
  BY <1>1 DEF InOrder
<1>3. Openings(attempts[h], {}) /\ Kept(attempts[h], {}, limiter[h], clock)
  BY <1>1 DEF Openings, Kept
<1> QED
  BY <1>1, <1>2, <1>3

-----------------------------------------------------------------------------

\* Type correctness of the front door: tables, limiter, jars, pages, calls.
THEOREM SignInTypeCorrect == Spec => []TypeOK
<1>1. IInv => TypeOK
  BY DEF IInv
<1> QED
  BY <1>1, InitInv, NextInv, PTL DEF Spec

\* Once a session is over no call sent afterwards gets in with it, for any
\* number of tabs, sessions and approvers and any interleaving of logins,
\* sign-outs, revocations and expiry, by the browser that held its cookie or
\* by one that was given a copy.
THEOREM NoEntryAfterEndHolds == Spec => []NoEntryAfterEnd
BY InitInv, NextInv, EntryFromInv, PTL DEF Spec

\* The login limiter: however an address times its attempts around the edge
\* of a window, whoever else knocks and for any budget and window, two budgets
\* of its attempts are let through over a window at least.
THEOREM LoginsAreLimited == Spec => []LimitHolds
<1>1. Init => IInv /\ LimitInv
  BY InitInv, LimitInitially
<1>2. (IInv /\ LimitInv) /\ [Next]_vars => (IInv /\ LimitInv)'
  BY NextInv, LimitStep DEF IInv
<1>3. IInv /\ LimitInv => LimitHolds
  BY LimitFromInv DEF IInv
<1> QED
  BY <1>1, <1>2, <1>3, PTL DEF Spec
===============================================================================
