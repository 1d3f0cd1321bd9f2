--------------------------------- MODULE Gate ---------------------------------
(***************************************************************************)
(* gate.Decide (internal/gate) and the proxy around it, composed with the   *)
(* approval service.  Each request is a goroutine: it is measured and put   *)
(* to the policy, and a held one looks for an approval, waits for one,      *)
(* measures again, and forwards only after its snapshot, its decision row   *)
(* and the spending of its approval, in that order.  Meanwhile people       *)
(* approve and deny, other requests (retries included) run through the same *)
(* steps, clients leave, statements fail and the process may die.           *)
(*                                                                          *)
(* The cluster is seen only through measurements: each Assess may return    *)
(* any impact, and the policy any verdict it has for that impact (labels    *)
(* are part of what it judges and not of the digest).  Wording is left out, *)
(* with it the "impact changed" flag, which only picks a sentence.          *)
(***************************************************************************)
EXTENDS ApprovalService

CONSTANTS
  Requests,      \* one per HTTP request: a retry is another request
  RequestKey,    \* its session and digest
  Verdict,       \* Policy.Evaluate: the verdicts an impact may be given
  Bundle,        \* whether Take makes a directory for an impact's write
  Impatient,     \* bound: the requests whose client may leave
  MaxCrashes     \* bound on Crash

ASSUME GateAssumption ==
  /\ Impatient \subseteq Requests
  /\ RequestKey \in [Requests -> Keys]
  /\ Verdict \in [Impacts -> (SUBSET {"allow", "hold", "deny"}) \ {{}}]
  /\ Bundle \in [Impacts -> (SUBSET BOOLEAN) \ {{}}]
  /\ MaxCrashes \in Nat
  /\ Null \notin Rows /\ Null # "answered"

VARIABLES
  req,           \* the gate's Verdict record and place, per request
  audit,         \* the audit table, by request
  snapshots,     \* requests with a snapshot directory on disk
  sent,          \* history: requests that reached the API server
  spends,        \* history: which request spent which approval, and the time it judged
  crashes

gateVars == <<req, audit, snapshots, sent, spends, crashes>>
vars == <<storeVars, serviceVars, gateVars>>

Deciding == {"verify", "expire", "supersede", "create", "wait", "remeasure",
             "snapshot", "record", "consume", "spend", "expireLate", "refuse"}
Pcs == Deciding \cup {"new", "forward", "respond", "done", "lost"}

\* What the reverse proxy makes of a request it was handed; Null is the
\* gate's own answer to one it was not.
Outcomes == {Null, "answered", "unknown", "unreachable"}

Requested == [
  pc       : Pcs,
  kind     : {Null, "read", "write", "unparseable"},
  impact   : Impacts \cup {Null},             \* v.imp
  decision : {Null, "allow", "hold", "deny"}, \* v.decision
  policy   : {Null, "allow", "hold", "deny"}, \* the last verdict, pv
  id       : ApprovalIds \cup {Null},         \* v.approvalID
  latest   : ApprovalIds \cup {Null},         \* the row Verify found
  row      : Rows \cup {Null},                \* its copy, ap
  again    : BOOLEAN,                         \* inside recheck
  ticket   : ApprovalIds \cup {Null},
  saved    : BOOLEAN,                         \* v.snapshot is a directory
  now      : Nat,                             \* when Consume judged the copy
  outcome  : Outcomes,
  gone     : BOOLEAN]                         \* ctx.Err() # nil

AuditRows == [kind : {"decision", "result"}, decision : {Null, "allow", "hold", "deny"},
              id : ApprovalIds \cup {Null}, saved : BOOLEAN, outcome : Outcomes]
Spends == [request : Requests, id : ApprovalIds, at : Nat]

TypeOK ==
  /\ ServiceTypeOK
  /\ req \in [Requests -> Requested]
  /\ audit \in [Requests -> Seq(AuditRows)]
  /\ snapshots \subseteq Requests /\ sent \subseteq Requests
  /\ spends \subseteq Spends
  /\ crashes \in 0 .. MaxCrashes

NewRequest == [pc |-> "new", kind |-> Null, impact |-> Null, decision |-> Null, policy |-> Null,
               id |-> Null, latest |-> Null, row |-> Null, again |-> FALSE, ticket |-> Null,
               saved |-> FALSE, now |-> 0, outcome |-> Null, gone |-> FALSE]

Init ==
  /\ ServiceInit
  /\ req = [r \in Requests |-> NewRequest]
  /\ audit = [r \in Requests |-> <<>>]
  /\ snapshots = {} /\ sent = {} /\ spends = {}
  /\ crashes = 0

At(r, pc) == req[r].pc = pc
Become(r, new) == req' = [req EXCEPT ![r] = new]
Goto(r, pc) == Become(r, [req[r] EXCEPT !.pc = pc])

-----------------------------------------------------------------------------
(* Decide *)

AfterPolicyUnhandled(v) == CASE v = "allow" -> "snapshot" [] v = "hold" -> "verify" [] OTHER -> v    \* mutant

\* Where a measured and judged write goes.
AfterPolicy(v) == CASE v = "allow" -> "snapshot" [] v = "hold" -> "verify" [] OTHER -> "refuse"

\* normalize.FromRequest, then for a write Assess and Evaluate.  None of it
\* touches shared state.
Arrive(r) ==
  /\ At(r, "new")
  /\ \/ Become(r, [req[r] EXCEPT !.pc = "refuse", !.kind = "unparseable", !.decision = "deny"])
     \/ Become(r, [req[r] EXCEPT !.pc = "forward", !.kind = "read", !.decision = "allow"])
     \/ \E impact \in Impacts : \E v \in Verdict[impact] :
          Become(r, [req[r] EXCEPT !.pc = AfterPolicy(v), !.kind = "write",
                                   !.impact = impact, !.decision = v, !.policy = v])
  /\ UNCHANGED <<storeVars, serviceVars, audit, snapshots, sent, spends, crashes>>

\* Where hold and recheck go on each answer of Verify.  A held request waits
\* on a pending row; a rechecked one gets a ticket for the row it waited on.
OnAnswer(v, id, row, answer) ==
  CASE answer = "verified" -> [v EXCEPT !.pc = "snapshot", !.id = id, !.row = row]
    [] answer = "denied"   -> [v EXCEPT !.pc = "refuse", !.id = id]
    [] answer = "pending"  -> IF v.again THEN [v EXCEPT !.pc = "refuse", !.ticket = v.id]
                                         ELSE [v EXCEPT !.pc = "wait", !.id = id]
    [] answer = "none"     -> [v EXCEPT !.pc = "create"]
    [] OTHER               -> [v EXCEPT !.pc = answer, !.latest = id, !.row = row]

Verify(r) ==
  /\ At(r, "verify") /\ ~req[r].gone
  /\ LET k == RequestKey[r] IN
       \/ RowsOf(k) = {} /\ Goto(r, "create")
       \/ \E id \in Latest(k) :
            LET row == approvals[id]
            IN Become(r, OnAnswer(req[r], id, row, VerifyAnswer(id, row, k, req[r].impact)))
  /\ UNCHANGED <<storeVars, serviceVars, audit, snapshots, sent, spends, crashes>>

VerifyWrite(r) ==
  /\ ~req[r].gone
  /\ \/ At(r, "expire") /\ WriteStatus(req[r].latest, req[r].row.status, "expired")
     \/ At(r, "supersede") /\ WriteStatus(req[r].latest, "approved", "superseded")
  /\ Become(r, [req[r] EXCEPT !.pc = "create", !.latest = Null, !.row = Null])
  /\ UNCHANGED <<serviceVars, audit, snapshots, sent, spends, crashes>>

\* createPending: hold waits on the new row, recheck gives its ticket.
Create(r) ==
  /\ At(r, "create") /\ ~req[r].gone
  /\ \E id \in ApprovalIds :
       /\ CreatePending(id, RequestKey[r], req[r].impact)
       /\ Become(r, IF req[r].again THEN [req[r] EXCEPT !.pc = "refuse", !.id = id, !.ticket = id]
                                    ELSE [req[r] EXCEPT !.pc = "wait", !.id = id])
  /\ UNCHANGED <<serviceVars, audit, snapshots, sent, spends, crashes>>

\* A statement of Verify or createPending fails, as each one does once the
\* client has left: 503.
StoreFails(r) ==
  /\ req[r].pc \in {"verify", "expire", "supersede", "create"}
  /\ Become(r, [req[r] EXCEPT !.pc = "refuse", !.latest = Null, !.row = Null])
  /\ UNCHANGED <<storeVars, serviceVars, audit, snapshots, sent, spends, crashes>>

\* One poll of wait.  A poll that finds the row still waiting, or that fails,
\* changes nothing.
Poll(r) ==
  /\ At(r, "wait") /\ ~req[r].gone
  /\ LET status == approvals[req[r].id].status IN
       /\ status \notin Waiting
       /\ Become(r, CASE status = "approved" -> [req[r] EXCEPT !.pc = "remeasure"]
                      [] status = "denied"   -> [req[r] EXCEPT !.pc = "refuse"]
                      [] OTHER               -> [req[r] EXCEPT !.pc = "refuse", !.ticket = req[r].id])
  /\ UNCHANGED <<storeVars, serviceVars, audit, snapshots, sent, spends, crashes>>

WaitEndsWithClient(r) ==          \* mutant: no deadline timer
  /\ At(r, "wait") /\ req[r].gone
  /\ Become(r, [req[r] EXCEPT !.pc = "refuse", !.ticket = req[r].id])
  /\ UNCHANGED <<storeVars, serviceVars, audit, snapshots, sent, spends, crashes>>

\* The window is over (Hold counts from the start of the request, so it may
\* be over before the first poll) or the client has left.
WaitEnds(r) ==
  /\ At(r, "wait")
  /\ Become(r, [req[r] EXCEPT !.pc = "refuse", !.ticket = req[r].id])
  /\ UNCHANGED <<storeVars, serviceVars, audit, snapshots, sent, spends, crashes>>

OnRemeasuredApproved(v, impact, verdict) ==   \* mutant: an approval overrides the policy
  [v EXCEPT !.pc = "verify", !.impact = impact, !.policy = verdict, !.again = TRUE]

\* Where recheck goes on the verdict for the new measurement.  decision stays
\* "hold" unless the policy now refuses.
OnRemeasured(v, impact, verdict) ==
  IF verdict = "deny"
  THEN [v EXCEPT !.pc = "refuse", !.impact = impact, !.policy = verdict, !.decision = verdict]
  ELSE [v EXCEPT !.pc = "verify", !.impact = impact, !.policy = verdict, !.again = TRUE]

Remeasure(r) ==
  /\ At(r, "remeasure")
  /\ IF req[r].gone
     THEN Become(r, [req[r] EXCEPT !.pc = "refuse", !.ticket = req[r].id])
     ELSE \E impact \in Impacts : \E v \in Verdict[impact] : Become(r, OnRemeasured(req[r], impact, v))
  /\ UNCHANGED <<storeVars, serviceVars, audit, snapshots, sent, spends, crashes>>

-----------------------------------------------------------------------------
(* forward and refuse *)

Append1(r, kind) ==
  audit' = [audit EXCEPT ![r] = Append(@,
    [kind |-> kind, decision |-> req[r].decision, id |-> req[r].id, saved |-> req[r].saved,
     outcome |-> req[r].outcome])]

Discard(r) == snapshots' = snapshots \ {r}

\* A delete that loses data always gets a directory, an update only when the
\* object exists at this moment, a create never.  A Take that fails removes
\* what it wrote.
Take(r) ==
  \E made \in Bundle[req[r].impact] :
    /\ snapshots' = IF made THEN snapshots \cup {r} ELSE snapshots
    /\ Become(r, [req[r] EXCEPT !.pc = "record", !.saved = made])

\* Take within its budget; one that fails or comes late refuses the request.
Snapshot(r) ==
  /\ At(r, "snapshot")
  /\ \/ ~req[r].gone /\ Take(r)
     \/ Goto(r, "refuse") /\ Discard(r)
  /\ UNCHANGED <<storeVars, serviceVars, audit, sent, spends, crashes>>

AuditDecisionBestEffort(r) ==     \* mutant: a failed decision row is only logged
  /\ At(r, "record")
  /\ Append1(r, "decision") \/ UNCHANGED audit
  /\ Goto(r, IF req[r].row = Null THEN "forward" ELSE "consume")
  /\ UNCHANGED <<storeVars, serviceVars, snapshots, sent, spends, crashes>>

\* The decision row of a write about to be forwarded.  When it cannot be
\* written there is no second attempt.
AuditDecision(r) ==
  /\ At(r, "record")
  /\ \/ /\ Append1(r, "decision")
        /\ Goto(r, IF req[r].row = Null THEN "forward" ELSE "consume")
        /\ UNCHANGED snapshots
     \/ Goto(r, "respond") /\ Discard(r) /\ UNCHANGED audit
  /\ UNCHANGED <<storeVars, serviceVars, sent, spends, crashes>>

NotForwardedKeep(r) == Goto(r, "respond") /\ UNCHANGED <<snapshots, spends>>     \* mutant: no Discard

\* A consume that loses, lapses or fails, or a client that has left: the
\* request is answered and its snapshot removed.
NotForwarded(r) == Goto(r, "respond") /\ Discard(r) /\ UNCHANGED spends

SpendAttached(r) ==               \* mutant: the client leaving fails a consume that committed
  /\ At(r, "spend")
  /\ \/ /\ ConsumeApproval(req[r].id, req[r].row.nonce)
        /\ spends' = spends \cup {[request |-> r, id |-> req[r].id, at |-> req[r].now]}
        /\ IF req[r].gone THEN Goto(r, "respond") /\ Discard(r) ELSE Goto(r, "forward") /\ UNCHANGED snapshots
     \/ ~ConsumeWhere(req[r].id, req[r].row.nonce) /\ NotForwarded(r) /\ UNCHANGED storeVars
  /\ UNCHANGED <<serviceVars, audit, sent, crashes>>

\* ctx.Err(), then the lapse, judged on the copy at the time read here.
\* Nothing asks for the client again before the request is forwarded.
Consume(r) ==
  /\ At(r, "consume")
  /\ \/ req[r].gone /\ NotForwarded(r)
     \/ /\ ~req[r].gone
        /\ Become(r, [req[r] EXCEPT !.pc = IF Lapsed(req[r].row) THEN "expireLate" ELSE "spend",
                                    !.now = clock])
        /\ UNCHANGED <<snapshots, spends>>
  /\ UNCHANGED <<storeVars, serviceVars, audit, sent, crashes>>

\* The transaction, detached from the client; it may wait for the database
\* while the clock runs, people decide and the client leaves.
Spend(r) ==
  /\ At(r, "spend")
  /\ LET nonce == req[r].row.nonce IN
     \/ /\ ConsumeApproval(req[r].id, nonce)
        /\ spends' = spends \cup {[request |-> r, id |-> req[r].id, at |-> req[r].now]}
        /\ Goto(r, "forward") /\ UNCHANGED snapshots
     \/ ~ConsumeWhere(req[r].id, nonce) /\ NotForwarded(r) /\ UNCHANGED storeVars
  /\ UNCHANGED <<serviceVars, audit, sent, crashes>>

ConsumeLate(r) ==
  /\ At(r, "expireLate")
  /\ WriteStatus(req[r].id, "approved", "expired")
  /\ NotForwarded(r)
  /\ UNCHANGED <<serviceVars, audit, sent, crashes>>

\* The consume statement itself fails: nothing was committed.
ConsumeFails(r) ==
  /\ req[r].pc \in {"spend", "expireLate"}
  /\ NotForwarded(r)
  /\ UNCHANGED <<storeVars, serviceVars, audit, sent, crashes>>

\* refuse: the decision row of a request that is not forwarded.  Failing to
\* write it is only logged.
Refuse(r) ==
  /\ At(r, "refuse")
  /\ Append1(r, "decision") \/ UNCHANGED audit
  /\ Goto(r, "respond")
  /\ UNCHANGED <<storeVars, serviceVars, snapshots, sent, spends, crashes>>

-----------------------------------------------------------------------------
(* The proxy *)

Ended(v, pc) == [v EXCEPT !.pc = pc, !.latest = Null, !.row = Null, !.again = FALSE,
                               !.ticket = Null, !.now = 0, !.gone = FALSE]

\* ServeHTTP hands the request to the reverse proxy, on the client's own
\* context: it is answered; or the client has left, or the API server is not
\* reached or does not answer, and the ErrorHandler cannot tell whether the
\* write arrived.  Neither the snapshot nor the approval is given back.
Forward(r) ==
  /\ At(r, "forward")
  /\ \E outcome \in Outcomes \ {Null} :
       /\ outcome = "unknown" => req[r].gone
       /\ Become(r, [req[r] EXCEPT !.pc = "respond", !.outcome = outcome])
       /\ \/ sent' = sent \cup {r}
          \/ outcome # "answered" /\ UNCHANGED sent
  /\ UNCHANGED <<storeVars, serviceVars, audit, snapshots, spends, crashes>>

\* Complete, deferred: the result row, whatever the end was.  The copy of the
\* approval and the context end with the goroutine.
Complete(r) ==
  /\ At(r, "respond")
  /\ Append1(r, "result") \/ UNCHANGED audit
  /\ Become(r, Ended(req[r], "done"))
  /\ UNCHANGED <<storeVars, serviceVars, snapshots, sent, spends, crashes>>

\* Where nothing is asked of the context any more, leaving makes no
\* difference.
ClientLeaves(r) ==
  /\ r \in Impatient
  /\ req[r].pc \in (Deciding \ {"refuse", "expireLate"}) \cup {"forward"} /\ ~req[r].gone
  /\ Become(r, [req[r] EXCEPT !.gone = TRUE])
  /\ UNCHANGED <<storeVars, serviceVars, audit, snapshots, sent, spends, crashes>>

\* The process dies.  Tables and snapshot directories stay, requests in
\* flight are lost; serve starts again and recovers nothing.
Crash ==
  /\ crashes < MaxCrashes
  /\ crashes' = crashes + 1
  /\ req' = [r \in Requests |->
       IF req[r].pc \in {"new", "done", "lost"} THEN req[r] ELSE Ended(req[r], "lost")]
  /\ UNCHANGED <<storeVars, serviceVars, audit, snapshots, sent, spends>>

\* What the request's own goroutine does.
Progress(r) ==
  \/ Verify(r) \/ VerifyWrite(r) \/ Create(r) \/ StoreFails(r)
  \/ Poll(r) \/ WaitEnds(r) \/ Remeasure(r)
  \/ Snapshot(r) \/ AuditDecision(r) \/ Consume(r) \/ Spend(r) \/ ConsumeLate(r)
  \/ ConsumeFails(r)
  \/ Refuse(r)

GateNext ==
  \/ \E r \in Requests : Arrive(r) \/ Progress(r) \/ Forward(r) \/ Complete(r) \/ ClientLeaves(r)
  \/ Crash

\* Every request of the instance has been answered: only then may the system
\* stop, so TLC's deadlock check covers every request still in flight.
Finished == (\A r \in Requests : req[r].pc \in {"done", "lost"}) /\ UNCHANGED vars

Next ==
  \/ DeciderNext /\ UNCHANGED gateVars
  \/ GateNext
  \/ Finished

Spec == Init /\ [][Next]_vars

\* Every statement and read a deciding request makes has a timeout of its
\* own (the score and snapshot budgets, the hold window, auditTimeout), so
\* its goroutine is never blocked for good.  Nothing is assumed of people,
\* clients, or the API server.
FairSpec == Spec /\ \A r \in Requests : WF_vars(Progress(r))

-----------------------------------------------------------------------------
(* Safety *)

SpentBy(r) == {s \in spends : s.request = r}

\* A held write reaches the API server only by spending one approval, of its
\* own session and digest, for the impact it measured last, judged before
\* that approval lapsed; the policy did not refuse that measurement; and no
\* second request ever spends the same approval.  A crash, a client that
\* leaves or a concurrent twin may come between any two of its steps.
ForwardedAsApproved ==
  \A r \in sent : req[r].kind = "write" =>
    /\ req[r].policy # "deny"
    /\ req[r].decision = "hold" =>
         \E s \in spends :
           /\ SpentBy(r) = {s}
           /\ approvals[s.id].status = "consumed"
           /\ approvals[s.id].key = RequestKey[r]
           /\ approvals[s.id].impact = req[r].impact
           /\ s.at <= approvals[s.id].expires
           /\ \A t \in spends : t.id = s.id => t = s

\* What is sent is on record before it is sent: the decision row, naming the
\* approval that was spent, and the snapshot wherever the write must have
\* one; a crash right after leaves both in place.  A request has one
\* decision row and one result row at most, in that order, and a result row
\* that names an answer or the gate's refusal can be believed: the write was
\* sent, or was not.
RecordedBeforeForward ==
  \A r \in Requests :
    /\ Len(audit[r]) <= 2
    /\ Len(audit[r]) = 2 => audit[r][1].kind = "decision" /\ audit[r][2].kind = "result"
    /\ r \in sent /\ req[r].kind = "write" =>
         /\ Len(audit[r]) > 0
         /\ audit[r][1].kind = "decision"
         /\ \A s \in SpentBy(r) : audit[r][1].id = s.id
         /\ Bundle[req[r].impact] = {TRUE} => audit[r][1].saved
         /\ audit[r][1].saved <=> r \in snapshots
    /\ \A n \in DOMAIN audit[r] : audit[r][n].kind = "result" =>
         /\ audit[r][n].outcome = "answered" => r \in sent
         /\ audit[r][n].outcome = Null => r \notin sent

\* The proxy could not tell whether the request it was handed arrived.
InDoubt(r) == req[r].outcome \in {"unknown", "unreachable"}

\* A snapshot left on disk is the undo bundle of a write that was sent or
\* may have been: one taken for a request that the gate then refused, at
\* whatever step, is gone by the time the request is answered.  (A crash can
\* leave one behind.)
NoStraySnapshot ==
  \A r \in Requests :
    req[r].pc \in {"respond", "done"} /\ r \in snapshots => r \in sent \/ InDoubt(r)

\* A person's yes is not burned by the gate: an approval is spent last, so a
\* request that spent one is handed to the API server.  It is used up
\* without a write only when the client left after the spend, when the API
\* server was not reached, or when the process died; never by a refusal.
NoYesWasted ==
  \A s \in spends :
    \/ s.request \in sent
    \/ req[s.request].pc \in {"forward", "lost"}
    \/ InDoubt(s.request)

\* Whatever the gate does to an approval on behalf of a request, it is for
\* cause: it expires only lapsed rows, supersedes only an approval of
\* another impact than the one just measured, and spends an approval only
\* for a request that it then forwards.
ApprovalsKeptUnlessUsed ==
  [][\A id \in ApprovalIds :
       LET row == approvals[id]
           new == approvals'[id]
       IN Exists(id) /\ row.status = "approved" /\ new # row =>
            \/ new.status = "expired" /\ Lapsed(row)
            \/ /\ new.status = "superseded"
               /\ \E r \in Requests : req[r].pc = "supersede" /\ req[r].impact # row.impact /\ RequestKey[r] = row.key
            \/ /\ new.status = "consumed"
               /\ \E r \in Requests : req[r].pc = "spend" /\ req'[r].pc = "forward"]_vars

-----------------------------------------------------------------------------
(* Liveness *)

\* Every request is decided: refused with a recorded answer, handed to the
\* API server, or lost with the process.  Nobody needs to approve anything.
\* (A request is decided once, so none is left undecided when at some later
\* moment none is being decided.)
EveryRequestDecided ==
  (\E r \in Requests : req[r].pc \in Deciding) ~> (\A r \in Requests : req[r].pc \notin Deciding)

-----------------------------------------------------------------------------
(* What the documentation says *)

\* README: "Approved in that window, the original request goes through and
\* the agent never notices".  A request whose approval was approved while it
\* waited, and which measures the same impact again while that approval is
\* still good, is not sent away with a ticket.
ApprovedInWindowGoesThrough ==
  [][\A r \in Requests :
       LET row == approvals[req[r].id] IN
       /\ req[r].pc = "verify" /\ req[r].again /\ req'[r].pc # "verify"
       /\ row.status = "approved" /\ ~Lapsed(row) /\ row.impact = req[r].impact
       => req'[r].ticket = Null]_vars
=============================================================================
