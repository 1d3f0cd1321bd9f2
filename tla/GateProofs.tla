------------------------------ MODULE GateProofs ------------------------------
(***************************************************************************)
(* What TLAPS proves of Gate, for every number of requests, approvals,      *)
(* approvers and crashes, every policy and every snapshot rule: type        *)
(* correctness, the safety invariants, and that approvals are lost only for *)
(* cause.                                                                   *)
(***************************************************************************)
EXTENDS Gate, ServiceProofs

-----------------------------------------------------------------------------
(* The inductive invariant: what a request between two of its steps already *)
(* knows about its approval, its decision row and its snapshot.             *)

\* An approved row carries a token signed over this very row.
RowSigned(id) ==
  LET row == approvals[id] IN
  Exists(id) /\ row.status = "approved" =>
    row.token = TokenOf(id, row.key, row.impact, row.nonce, row.expires)

\* row is a copy of the approval: only its status has changed since.
Copied(id, row) ==
  /\ id \in ApprovalIds /\ row \in Rows
  /\ Exists(id)
  /\ approvals[id].status \in Decisive
  /\ approvals[id].nonce = row.nonce /\ approvals[id].expires = row.expires

\* The pcs at which a request carries the approval it is about to spend.
Armed == {"snapshot", "record", "consume", "spend", "expireLate"}

\* A request about to write a status knows why.
ForCause(r) ==
  LET v == req[r] IN
  /\ v.pc = "expire" =>
       /\ v.latest \in ApprovalIds /\ v.row \in Rows
       /\ Lapsed(v.row)
       /\ v.row.status \in Waiting \cup {"approved"}
       /\ v.row.status = "approved" => Copied(v.latest, v.row)
  /\ v.pc = "supersede" =>
       /\ Copied(v.latest, v.row)
       /\ approvals[v.latest].key = RequestKey[r]
       /\ approvals[v.latest].impact # v.impact
  /\ v.pc = "expireLate" => Lapsed(v.row)

\* The policy allowed or held what was measured; a held request that got past
\* Verify carries an approval of its own key and of that measurement.
Carries(r) ==
  LET v == req[r] IN
  /\ v.pc = "new" => v.row = Null
  /\ v.pc \in Deciding \ {"refuse"} =>
       v.impact \in Impacts /\ v.decision \in {"allow", "hold"} /\ v.policy # "deny"
  /\ v.pc \in Deciding \ (Armed \cup {"refuse"}) => v.decision = "hold"
  /\ v.pc \in Armed =>
       /\ v.decision = "hold" => v.row # Null
       /\ v.row # Null =>
            /\ Copied(v.id, v.row)
            /\ approvals[v.id].key = RequestKey[r]
            /\ approvals[v.id].impact = v.impact
  /\ v.pc \in {"consume", "spend", "expireLate"} => v.row # Null
  /\ v.pc = "spend" => v.now <= v.row.expires

\* The decision row and the snapshot of a write about to be sent are there.
OnRecord(r) ==
  LET v == req[r] IN
  /\ Len(audit[r]) > 0
  /\ audit[r][1].kind = "decision" /\ audit[r][1].id = v.id /\ audit[r][1].saved = v.saved
  /\ Bundle[v.impact] = {TRUE} => v.saved
  /\ v.saved <=> r \in snapshots

\* The audit rows a request has, by where it is.
Written(r) ==
  LET v == req[r] IN
  /\ v.pc \in (Deciding \cup {"new"}) \ {"consume", "spend", "expireLate"} => audit[r] = <<>>
  /\ v.pc \notin {"done", "lost"} =>
       /\ Len(audit[r]) <= 1
       /\ Len(audit[r]) = 1 => audit[r][1].kind = "decision"
  /\ v.pc \in {"consume", "spend", "expireLate"} => OnRecord(r)
  /\ Len(audit[r]) <= 2
  /\ Len(audit[r]) = 2 => audit[r][1].kind = "decision" /\ audit[r][2].kind = "result"

\* The snapshot a request has, by where it is.
Bundled(r) ==
  LET v == req[r] IN
  /\ v.pc \in (Deciding \cup {"new"}) \ {"record", "consume", "spend", "expireLate"} => r \notin snapshots
  /\ v.pc = "record" => (v.saved <=> r \in snapshots) /\ (Bundle[v.impact] = {TRUE} => v.saved)
  /\ v.pc \in {"respond", "done"} /\ r \in snapshots => v.outcome # Null

\* What was sent, or is about to be.
Cleared(r) ==
  LET v == req[r] IN
  /\ r \in sent => v.pc \in {"respond", "done", "lost"}
  /\ v.kind = "write" /\ (v.pc = "forward" \/ r \in sent) =>
       /\ v.policy # "deny"
       /\ v.decision = "hold" => \E s \in spends : s.request = r
       /\ OnRecord(r)

\* What became of a request, and that its result row says it.
Told(r) ==
  LET v == req[r] IN
  /\ v.pc \in Deciding \cup {"new", "forward"} => v.outcome = Null
  /\ v.outcome = Null => r \notin sent
  /\ v.outcome = "answered" => r \in sent
  /\ \A n \in DOMAIN audit[r] : audit[r][n].kind = "result" => audit[r][n].outcome = v.outcome

AllTold == \A r \in Requests : Told(r)

\* A spend, by the request that made it.
SpendFits(s) ==
  LET v == req[s.request] IN
  /\ v.pc \in {"forward", "lost"} \/ v.outcome # Null
  /\ v.id = s.id
  /\ Exists(s.id) /\ approvals[s.id].status = "consumed"
  /\ approvals[s.id].key = RequestKey[s.request]
  /\ approvals[s.id].impact = v.impact
  /\ s.at <= approvals[s.id].expires

RequestFits(r) == ForCause(r) /\ Carries(r) /\ Written(r) /\ Bundled(r) /\ Cleared(r)

SpentApart == \A s, t \in spends : s.id = t.id \/ s.request = t.request => s = t

GInv ==
  /\ TypeOK
  /\ AllTold
  /\ \A id \in ApprovalIds : RowSigned(id)
  /\ \A r \in Requests : RequestFits(r)
  /\ \A s \in spends : SpendFits(s)
  /\ SpentApart

-----------------------------------------------------------------------------
(* Types *)

\* The gate starts with its types.
LEMMA InitTyped == Init => TypeOK
<1> SUFFICES ASSUME Init PROVE TypeOK
  OBVIOUS
<1>1. ServiceTypeOK
  BY ServiceInitTyped DEF Init
<1>2. NewRequest \in Requested
  BY DEF NewRequest, Requested, Pcs, Outcomes
<1>3. audit \in [Requests -> Seq(AuditRows)]
  BY DEF Init
<1> QED
  BY <1>1, <1>2, <1>3, GateAssumption DEF Init, TypeOK

\* A row with a status a row can have is a row.
LEMMA RowTyped ==
  ASSUME TypeOK, NEW id \in ApprovalIds
  PROVE  /\ approvals[id].status \in Statuses => approvals[id] \in Rows /\ Exists(id)
         /\ Exists(id) => approvals[id] \in Rows
BY RowInTable DEF TypeOK

\* A request's new record, and what else a step of the gate writes, in their
\* types.
LEMMA StepTypes ==
  ASSUME TypeOK, NEW r \in Requests, NEW new \in Requested, Become(r, new),
         StoreTypeOK', UNCHANGED serviceVars,
         audit' \in [Requests -> Seq(AuditRows)],
         snapshots' \subseteq Requests, sent' \subseteq Requests, spends' \subseteq Spends,
         UNCHANGED crashes
  PROVE  TypeOK'
BY DEF TypeOK, ServiceTypeOK, serviceVars, Become

\* The steps that touch only the request's own record.
LEMMA OwnTypes ==
  ASSUME TypeOK, NEW r \in Requests, NEW new \in Requested, Become(r, new),
         UNCHANGED <<storeVars, serviceVars, audit, snapshots, sent, spends, crashes>>
  PROVE  TypeOK'
<1>1. StoreTypeOK' /\ UNCHANGED serviceVars
  BY DEF TypeOK, ServiceTypeOK, StoreTypeOK, storeVars
<1> QED
  BY <1>1, StepTypes DEF TypeOK

\* Another place, with the rest of the record as it was.
LEMMA Elsewhere ==
  ASSUME TypeOK, NEW r \in Requests, NEW pc \in Pcs
  PROVE  /\ [req[r] EXCEPT !.pc = pc] \in Requested
         /\ [req[r] EXCEPT !.pc = pc, !.latest = Null, !.row = Null] \in Requested
         /\ [req[r] EXCEPT !.pc = pc, !.ticket = req[r].id] \in Requested
         /\ Ended(req[r], pc) \in Requested
BY ZenonT(60) DEF TypeOK, Requested, Ended

\* One more audit row of a request.
LEMMA AuditTypes ==
  ASSUME TypeOK, NEW r \in Requests, NEW kind \in {"decision", "result"},
         Append1(r, kind) \/ UNCHANGED audit
  PROVE  audit' \in [Requests -> Seq(AuditRows)]
<1> DEFINE line == [kind |-> kind, decision |-> req[r].decision, id |-> req[r].id,
                    saved |-> req[r].saved, outcome |-> req[r].outcome]
<1>1. line \in AuditRows
  BY DEF TypeOK, Requested, AuditRows
<1>2. audit[r] \in Seq(AuditRows)
  BY DEF TypeOK
<1>3. Append(audit[r], line) \in Seq(AuditRows)
  BY <1>1, <1>2
<1>4. audit' = audit \/ audit' = [audit EXCEPT ![r] = Append(@, line)]
  BY DEF Append1
<1> HIDE DEF line
<1> QED
  BY <1>3, <1>4 DEF TypeOK

\* Arrive, the reads and waits of Decide, and a client that leaves.
LEMMA QuietTypes ==
  ASSUME TypeOK, NEW r \in Requests,
         Arrive(r) \/ Verify(r) \/ StoreFails(r) \/ Poll(r) \/ WaitEnds(r) \/ Remeasure(r) \/ ClientLeaves(r)
  PROVE  TypeOK'
<1>0. req[r] \in Requested
  BY DEF TypeOK
<1>1. CASE Arrive(r)
  <2>1. \A impact \in Impacts : \A v \in {"allow", "hold", "deny"} :
          [req[r] EXCEPT !.pc = AfterPolicy(v), !.kind = "write",
                         !.impact = impact, !.decision = v, !.policy = v] \in Requested
    BY <1>0, ZenonT(60) DEF Requested, AfterPolicy, Pcs, Deciding
  <2>2. [req[r] EXCEPT !.pc = "refuse", !.kind = "unparseable", !.decision = "deny"] \in Requested
    BY <1>0 DEF Requested, Pcs, Deciding
  <2>3. [req[r] EXCEPT !.pc = "forward", !.kind = "read", !.decision = "allow"] \in Requested
    BY <1>0 DEF Requested, Pcs
  <2>4. \A impact \in Impacts : Verdict[impact] \subseteq {"allow", "hold", "deny"}
    BY GateAssumption
  <2> QED
    BY <1>1, <2>1, <2>2, <2>3, <2>4, OwnTypes DEF Arrive
<1>2. CASE Verify(r)
  <2>1. CASE Goto(r, "create")
    <3>1. [req[r] EXCEPT !.pc = "create"] \in Requested
      BY Elsewhere DEF Pcs, Deciding
    <3> QED
      BY <1>2, <2>1, <3>1, OwnTypes DEF Verify, Goto
  <2>2. ASSUME NEW id \in Latest(RequestKey[r]), NEW answer,
               answer = VerifyAnswer(id, approvals[id], RequestKey[r], req[r].impact),
               Become(r, OnAnswer(req[r], id, approvals[id], answer))
        PROVE  TypeOK'
    <3>1. id \in ApprovalIds /\ approvals[id] \in Rows
      BY RowTyped DEF Latest, RowsOf
    <3>2. answer \in {"expire", "pending", "none", "denied", "verified", "supersede"}
      BY <2>2 DEF VerifyAnswer
    <3>3. OnAnswer(req[r], id, approvals[id], answer) \in Requested
      <4> DEFINE v   == req[r]
                 row == approvals[id]
      <4>1. /\ [v EXCEPT !.pc = "snapshot", !.id = id, !.row = row] \in Requested
            /\ [v EXCEPT !.pc = "refuse", !.id = id] \in Requested
        BY <1>0, <3>1, ZenonT(60) DEF Requested, Pcs, Deciding
      <4>2. /\ [v EXCEPT !.pc = "refuse", !.ticket = v.id] \in Requested
            /\ [v EXCEPT !.pc = "create"] \in Requested
        BY Elsewhere DEF Pcs, Deciding
      <4>3. [v EXCEPT !.pc = "wait", !.id = id] \in Requested
        BY <1>0, <3>1 DEF Requested, Pcs, Deciding
      <4>4. \A pc \in {"expire", "supersede"} : [v EXCEPT !.pc = pc, !.latest = id, !.row = row] \in Requested
        BY <1>0, <3>1 DEF Requested, Pcs, Deciding
      <4> HIDE DEF v, row
      <4>5. OnAnswer(v, id, row, answer) \in Requested
        BY <3>2, <4>1, <4>2, <4>3, <4>4 DEF OnAnswer
      <4> QED
        BY <4>5 DEF v, row
    <3> QED
      BY <1>2, <2>2, <3>3, OwnTypes DEF Verify
  <2> QED
    BY <1>2, <2>1, <2>2 DEF Verify
<1>3. CASE StoreFails(r)
  <2>1. [req[r] EXCEPT !.pc = "refuse", !.latest = Null, !.row = Null] \in Requested
    BY Elsewhere DEF Pcs, Deciding
  <2> QED
    BY <1>3, <2>1, OwnTypes DEF StoreFails
<1>4. CASE Poll(r)
  <2>1. \A pc \in {"remeasure", "refuse"} :
          /\ [req[r] EXCEPT !.pc = pc] \in Requested
          /\ [req[r] EXCEPT !.pc = pc, !.ticket = req[r].id] \in Requested
    BY Elsewhere DEF Pcs, Deciding
  <2> QED
    BY <1>4, <2>1, OwnTypes DEF Poll
<1>5. CASE WaitEnds(r)
  <2>1. [req[r] EXCEPT !.pc = "refuse", !.ticket = req[r].id] \in Requested
    BY Elsewhere DEF Pcs, Deciding
  <2> QED
    BY <1>5, <2>1, OwnTypes DEF WaitEnds
<1>6. CASE Remeasure(r)
  <2>1. [req[r] EXCEPT !.pc = "refuse", !.ticket = req[r].id] \in Requested
    BY Elsewhere DEF Pcs, Deciding
  <2>2. \A impact \in Impacts : \A v \in {"allow", "hold", "deny"} :
          OnRemeasured(req[r], impact, v) \in Requested
    BY <1>0, ZenonT(60) DEF OnRemeasured, Requested, Pcs, Deciding
  <2>3. \A impact \in Impacts : Verdict[impact] \subseteq {"allow", "hold", "deny"}
    BY GateAssumption
  <2> QED
    BY <1>6, <2>1, <2>2, <2>3, OwnTypes DEF Remeasure
<1>7. CASE ClientLeaves(r)
  <2>1. [req[r] EXCEPT !.gone = TRUE] \in Requested
    BY <1>0 DEF Requested
  <2> QED
    BY <1>7, <2>1, OwnTypes DEF ClientLeaves
<1> QED
  BY <1>1, <1>2, <1>3, <1>4, <1>5, <1>6, <1>7

\* What a request that writes an approval knows of it.
LEMMA Writers ==
  ASSUME GInv, NEW r \in Requests
  PROVE  /\ req[r] \in Requested
         /\ req[r].pc = "expire" =>
              req[r].latest \in ApprovalIds /\ req[r].row \in Rows /\ req[r].row.status \in Statuses
         /\ req[r].pc = "supersede" => req[r].latest \in ApprovalIds
         /\ req[r].pc \in {"consume", "spend", "expireLate"} =>
              req[r].id \in ApprovalIds /\ req[r].row \in Rows
<1>1. req[r] \in Requested /\ ForCause(r) /\ Carries(r)
  BY DEF GInv, TypeOK, RequestFits
<1> QED
  BY <1>1 DEF ForCause, Carries, Copied, Rows, Armed

\* The steps that write the approvals table.
LEMMA WritingTypes ==
  ASSUME GInv, NEW r \in Requests,
         VerifyWrite(r) \/ Create(r) \/ Consume(r) \/ Spend(r) \/ ConsumeLate(r) \/ ConsumeFails(r)
  PROVE  TypeOK'
<1>0. TypeOK /\ ServiceTypeOK /\ req[r] \in Requested
  BY DEF GInv, TypeOK
<1>1. ASSUME UNCHANGED storeVars PROVE StoreTypeOK'
  BY <1>0, <1>1 DEF ServiceTypeOK, StoreTypeOK, storeVars
<1>2. CASE VerifyWrite(r)
  <2>1. \/ req[r].pc = "expire" /\ WriteStatus(req[r].latest, req[r].row.status, "expired")
        \/ req[r].pc = "supersede" /\ WriteStatus(req[r].latest, "approved", "superseded")
    BY <1>2 DEF VerifyWrite, At
  <2>2. StoreTypeOK'
    BY <1>0, <2>1, Writers, WriteTyped DEF Statuses, Final
  <2>3. [req[r] EXCEPT !.pc = "create", !.latest = Null, !.row = Null] \in Requested
    BY <1>0, Elsewhere DEF Pcs, Deciding
  <2> QED
    BY <1>0, <1>2, <2>2, <2>3, StepTypes DEF VerifyWrite, TypeOK
<1>3. CASE Create(r)
  <2>1. PICK id \in ApprovalIds :
          /\ CreatePending(id, RequestKey[r], req[r].impact)
          /\ Become(r, IF req[r].again THEN [req[r] EXCEPT !.pc = "refuse", !.id = id, !.ticket = id]
                                       ELSE [req[r] EXCEPT !.pc = "wait", !.id = id])
    BY <1>3 DEF Create
  <2>2. req[r].impact \in Impacts
    BY <1>3 DEF GInv, RequestFits, Carries, Create, At, Deciding
  <2>3. StoreTypeOK'
    <3>1. RequestKey[r] \in Keys
      BY GateAssumption
    <3> QED
      BY <1>0, <2>1, <2>2, <3>1, CreateTyped, ServiceAssumption, SMTT(30) DEF CreatePending, ServiceTypeOK
  <2>4. /\ [req[r] EXCEPT !.pc = "refuse", !.id = id, !.ticket = id] \in Requested
        /\ [req[r] EXCEPT !.pc = "wait", !.id = id] \in Requested
    BY <1>0, ZenonT(60) DEF Requested, Pcs, Deciding
  <2> QED
    BY <1>0, <1>3, <2>1, <2>3, <2>4, StepTypes DEF Create, TypeOK
<1>4. CASE Consume(r) \/ Spend(r) \/ ConsumeLate(r) \/ ConsumeFails(r)
  <2>1. /\ \/ UNCHANGED storeVars
           \/ req[r].pc = "spend" /\ ConsumeApproval(req[r].id, req[r].row.nonce)
           \/ req[r].pc = "expireLate" /\ WriteStatus(req[r].id, "approved", "expired")
        /\ req[r].pc \in {"consume", "spend", "expireLate"}
    BY <1>4 DEF Consume, Spend, ConsumeLate, ConsumeFails, At
  <2>2. StoreTypeOK'
    BY <1>0, <1>1, <2>1, Writers, ConsumeTyped, WriteTyped DEF Statuses, Final, Rows
  <2>3. \E new \in Requested : Become(r, new)
    <3>1. \A pc \in {"respond", "forward"} : [req[r] EXCEPT !.pc = pc] \in Requested
      BY <1>0, Elsewhere DEF Pcs
    <3>2. clock \in Nat
      BY <1>0 DEF ServiceTypeOK
    <3>3. \A pc \in {"expireLate", "spend"} : [req[r] EXCEPT !.pc = pc, !.now = clock] \in Requested
      BY <1>0, <3>2, ZenonT(60) DEF Requested, Pcs, Deciding
    <3>4. CASE Consume(r) /\ ~req[r].gone
      BY <3>3, <3>4 DEF Consume, NotForwarded
    <3>5. CASE ~(Consume(r) /\ ~req[r].gone)
      <4>1. Goto(r, "respond") \/ Goto(r, "forward")
        BY <1>4, <3>5 DEF Consume, Spend, ConsumeLate, ConsumeFails, NotForwarded
      <4> QED
        BY <3>1, <4>1 DEF Goto
    <3> QED
      BY <3>4, <3>5
  <2>4. spends' \subseteq Spends
    <3>1. CASE UNCHANGED spends
      BY <1>0, <3>1 DEF TypeOK
    <3>2. CASE Spend(r)
      <4>1. [request |-> r, id |-> req[r].id, at |-> req[r].now] \in Spends
        BY <1>0, <2>1, <3>2, Writers DEF Spends, Requested, Spend, At
      <4> QED
        BY <1>0, <3>2, <4>1 DEF Spend, NotForwarded, TypeOK
    <3> QED
      BY <1>4, <3>1, <3>2 DEF Consume, ConsumeLate, ConsumeFails, NotForwarded
  <2>5. /\ snapshots' \subseteq Requests
        /\ UNCHANGED <<serviceVars, audit, sent, crashes>>
    BY <1>0, <1>4 DEF Consume, Spend, ConsumeLate, ConsumeFails, NotForwarded, Discard, TypeOK
  <2> QED
    BY <1>0, <2>2, <2>3, <2>4, <2>5, StepTypes DEF TypeOK
<1> QED
  BY <1>2, <1>3, <1>4

\* What records a request, its snapshot and its end.
LEMMA EndTypes ==
  ASSUME GInv, NEW r \in Requests,
         Snapshot(r) \/ AuditDecision(r) \/ Refuse(r) \/ Forward(r) \/ Complete(r)
  PROVE  TypeOK'
<1>0. TypeOK /\ Carries(r)
  BY DEF GInv, RequestFits
<1>1. req[r] \in Requested
  BY <1>0 DEF TypeOK
<1>2. UNCHANGED <<storeVars, serviceVars, spends, crashes>>
  BY DEF Snapshot, AuditDecision, Refuse, Forward, Complete
<1>3. StoreTypeOK'
  BY <1>0, <1>2 DEF TypeOK, ServiceTypeOK, StoreTypeOK, storeVars
<1>4. audit' \in [Requests -> Seq(AuditRows)]
  <2>1. \E kind \in {"decision", "result"} : Append1(r, kind) \/ UNCHANGED audit
    BY DEF Snapshot, AuditDecision, Refuse, Forward, Complete
  <2> QED
    BY <1>0, <2>1, AuditTypes
<1>5. snapshots' \subseteq Requests /\ sent' \subseteq Requests /\ spends' \subseteq Spends
  <2>1. snapshots' \subseteq snapshots \cup {r} /\ sent' \subseteq sent \cup {r} /\ spends' = spends
    BY DEF Snapshot, Take, Discard, AuditDecision, Refuse, Forward, Complete
  <2> QED
    BY <1>0, <2>1 DEF TypeOK
<1>6. \E new \in Requested : Become(r, new)
  <2>1. CASE Snapshot(r)
    <3>1. \A made \in BOOLEAN : [req[r] EXCEPT !.pc = "record", !.saved = made] \in Requested
      BY <1>1 DEF Requested, Pcs, Deciding
    <3>2. [req[r] EXCEPT !.pc = "refuse"] \in Requested
      BY <1>0, Elsewhere DEF Pcs, Deciding
    <3>3. CASE Goto(r, "refuse")
      BY <3>2, <3>3 DEF Goto
    <3>4. CASE Take(r)
      <4>1. PICK made \in Bundle[req[r].impact] :
              Become(r, [req[r] EXCEPT !.pc = "record", !.saved = made])
        BY <3>4 DEF Take
      <4>2. made \in BOOLEAN
        <5>1. req[r].impact \in Impacts
          BY <1>0, <2>1 DEF Carries, Snapshot, At, Deciding
        <5> QED
          BY <5>1, GateAssumption
      <4> QED
        BY <3>1, <4>1, <4>2
    <3> QED
      BY <2>1, <3>3, <3>4 DEF Snapshot
  <2>2. CASE AuditDecision(r) \/ Refuse(r)
    <3>1. \E pc \in {"forward", "consume", "respond"} : Goto(r, pc)
      BY <2>2 DEF AuditDecision, Refuse
    <3>2. \A pc \in {"forward", "consume", "respond"} : [req[r] EXCEPT !.pc = pc] \in Requested
      BY <1>0, Elsewhere DEF Pcs, Deciding
    <3> QED
      BY <3>1, <3>2 DEF Goto
  <2>3. CASE Complete(r)
    <3>1. Ended(req[r], "done") \in Requested
      BY <1>0, Elsewhere DEF Pcs
    <3> QED
      BY <2>3, <3>1 DEF Complete
  <2>4. CASE Forward(r)
    <3>1. \A outcome \in Outcomes : [req[r] EXCEPT !.pc = "respond", !.outcome = outcome] \in Requested
      BY <1>1, ZenonT(60) DEF Requested, Pcs
    <3> QED
      BY <2>4, <3>1 DEF Forward
  <2> QED
    BY <2>1, <2>2, <2>3, <2>4
<1> QED
  BY <1>0, <1>2, <1>3, <1>4, <1>5, <1>6, StepTypes

\* Crash loses what was in flight.
LEMMA CrashTypes == ASSUME TypeOK, Crash PROVE TypeOK'
<1>1. \A r \in Requests : req[r] \in Requested /\ Ended(req[r], "lost") \in Requested
  BY Elsewhere DEF TypeOK, Pcs
<1>2. req' \in [Requests -> Requested]
  BY <1>1 DEF Crash
<1>3. crashes' \in 0 .. MaxCrashes
  BY GateAssumption DEF Crash, TypeOK
<1> QED
  BY <1>2, <1>3
  DEF Crash, TypeOK, ServiceTypeOK, StoreTypeOK, storeVars, serviceVars

\* A step is the deciders', one request's, a crash, or nothing.
LEMMA Steps ==
  ASSUME [Next]_vars
  PROVE  \/ DeciderNext /\ UNCHANGED gateVars
         \/ \E r \in Requests : Arrive(r) \/ Progress(r) \/ Forward(r) \/ Complete(r) \/ ClientLeaves(r)
         \/ Crash
         \/ UNCHANGED vars
BY DEF Next, GateNext, Finished

\* Every step keeps the types.
LEMMA StepTyped == ASSUME GInv, [Next]_vars PROVE TypeOK'
<1>0. TypeOK
  BY DEF GInv
<1>1. CASE UNCHANGED vars
  BY <1>0, <1>1 DEF vars, storeVars, serviceVars, gateVars, TypeOK, ServiceTypeOK, StoreTypeOK
<1>2. CASE DeciderNext /\ UNCHANGED gateVars
  BY <1>0, <1>2, DeciderTyped DEF gateVars, TypeOK
<1>3. ASSUME NEW r \in Requests,
             Arrive(r) \/ Progress(r) \/ Forward(r) \/ Complete(r) \/ ClientLeaves(r)
      PROVE  TypeOK'
  BY <1>0, <1>3, QuietTypes, WritingTypes, EndTypes DEF Progress
<1> QED
  BY <1>0, <1>1, <1>2, <1>3, Steps, CrashTypes

-----------------------------------------------------------------------------
(* Rows and copies of them *)

\* What every step leaves alone in a row that exists.
RowStays(id) ==
  LET row == approvals[id]
      new == approvals'[id]
  IN Exists(id) =>
       /\ Exists(id)'
       /\ new.key = row.key /\ new.impact = row.impact
       /\ row.status \in Decisive =>
            new.status \in Decisive /\ new.nonce = row.nonce /\ new.expires = row.expires
       /\ row.status = "consumed" => new.status = "consumed"

RowsStay == \A id \in ApprovalIds : RowStays(id) /\ RowSigned(id)'

\* Nothing written.
LEMMA SameRows == ASSUME GInv, UNCHANGED approvals PROVE RowsStay
BY DEF GInv, RowsStay, RowStays, RowSigned, Exists, TokenOf

\* A status write that finds the row in the status its writer read.
LEMMA StatusStays ==
  ASSUME GInv, NEW id \in ApprovalIds, NEW to \in Final,
         approvals[id].status \in Waiting \cup {"approved"}, to # "denied",
         approvals' = [approvals EXCEPT ![id].status = to]
  PROVE  RowsStay
<1>1. approvals[id] \in Rows /\ approvals \in [ApprovalIds -> Rows \cup {NoRow}]
  <2>1. approvals[id].status \in Statuses
    BY DEF Statuses
  <2> QED
    BY <2>1, RowTyped DEF GInv, TypeOK, ServiceTypeOK, StoreTypeOK
<1>2. /\ \A i \in ApprovalIds \ {id} : approvals'[i] = approvals[i]
      /\ approvals'[id] = [approvals[id] EXCEPT !.status = to]
  BY <1>1
<1>3. /\ approvals'[id].status = to /\ approvals'[id].key = approvals[id].key
      /\ approvals'[id].impact = approvals[id].impact /\ approvals'[id].nonce = approvals[id].nonce
      /\ approvals'[id].expires = approvals[id].expires
  BY <1>1, <1>2 DEF Rows
<1>4. to \in Decisive /\ to # "approved" /\ approvals[id].status # "consumed"
  BY DEF Final, Decisive, Waiting
<1>5. Exists(id)'
  BY <1>3 DEF Exists, NoRow, Final
<1>6. RowStays(id) /\ RowSigned(id)'
  BY <1>3, <1>4, <1>5 DEF RowStays, RowSigned
<1>7. ASSUME NEW i \in ApprovalIds \ {id} PROVE RowStays(i) /\ RowSigned(i)'
  BY <1>2, <1>7 DEF GInv, RowStays, RowSigned, Exists, TokenOf
<1> QED
  BY <1>6, <1>7 DEF RowsStay

\* A new row.
LEMMA CreateStays ==
  ASSUME GInv, NEW id \in ApprovalIds, NEW k, NEW impact, CreatePending(id, k, impact)
  PROVE  RowsStay
<1>1. approvals \in [ApprovalIds -> Rows \cup {NoRow}]
  BY DEF GInv, TypeOK, ServiceTypeOK, StoreTypeOK
<1>2. /\ ~Exists(id) /\ approvals'[id].status = "pending"
      /\ \A i \in ApprovalIds \ {id} : approvals'[i] = approvals[i]
  BY <1>1 DEF CreatePending, CreateApproval
<1>3. ASSUME NEW i \in ApprovalIds \ {id} PROVE RowStays(i) /\ RowSigned(i)'
  BY <1>2, <1>3 DEF GInv, RowStays, RowSigned, Exists, TokenOf
<1> QED
  BY <1>2, <1>3 DEF RowsStay, RowStays, RowSigned

\* The deciders.
LEMMA DecidersStay == ASSUME GInv, DeciderNext PROVE RowsStay
<1> SUFFICES ASSUME NEW id \in ApprovalIds PROVE RowStays(id) /\ RowSigned(id)'
  BY DEF RowsStay
<1>1. DecidedRow(id)
  BY DecidersDecide DEF GInv, TypeOK
<1>2. CASE approvals'[id] = approvals[id]
  BY <1>2 DEF GInv, RowStays, RowSigned, Exists, TokenOf
<1>3. CASE approvals'[id] # approvals[id]
  BY <1>1, <1>3 DEF DecidedRow, RowStays, RowSigned, Decisive, Waiting, TokenOf
<1> QED
  BY <1>2, <1>3

\* A copy of an approval is still one after the step.
LEMMA CopiedStays ==
  ASSUME RowsStay, NEW id, NEW row, Copied(id, row)
  PROVE  /\ id \in ApprovalIds /\ row \in Rows /\ approvals'[id] # NoRow
         /\ approvals'[id].status \in Decisive
         /\ approvals'[id].nonce = row.nonce /\ approvals'[id].expires = row.expires
         /\ approvals'[id].key = approvals[id].key /\ approvals'[id].impact = approvals[id].impact
BY DEF RowsStay, RowStays, Copied, Exists

\* A request the step does not touch keeps what it knows.
LEMMA SameRequest ==
  ASSUME GInv, RowsStay, clock \in Nat, clock' \in Nat, clock <= clock', NEW r \in Requests,
         req'[r] = req[r], audit'[r] = audit[r],
         r \in snapshots' <=> r \in snapshots, r \in sent' <=> r \in sent, spends \subseteq spends'
  PROVE  RequestFits(r)'
<1>1. RequestFits(r)
  BY DEF GInv
<1>2. ForCause(r)'
  <2>1. ASSUME NEW row \in Rows, Lapsed(row) PROVE Lapsed(row)'
    BY <2>1 DEF Lapsed, Rows
  <2>2. req[r].pc = "expireLate" => req[r].row \in Rows
    BY Writers
  <2>3. Copied(req[r].latest, req[r].row) => Copied(req[r].latest, req[r].row)'
    BY CopiedStays DEF Copied, Exists
  <2> QED
    BY <1>1, <2>1, <2>2, <2>3, CopiedStays DEF RequestFits, ForCause
<1>3. Carries(r)'
  <2>1. req[r].row # Null /\ Copied(req[r].id, req[r].row) => Copied(req[r].id, req[r].row)'
    BY CopiedStays DEF Copied, Exists
  <2> QED
    BY <1>1, <2>1, CopiedStays DEF RequestFits, Carries
<1>4. Written(r)' /\ Bundled(r)' /\ Cleared(r)'
  BY <1>1 DEF RequestFits, Written, Bundled, Cleared, OnRecord
<1> QED
  BY <1>2, <1>3, <1>4 DEF RequestFits

\* So does a spend of such a request.
LEMMA SameSpend ==
  ASSUME GInv, RowsStay, NEW s \in spends,
         req'[s.request].id = req[s.request].id, req'[s.request].impact = req[s.request].impact,
         req'[s.request].pc \in {"forward", "lost"} \/ req'[s.request].outcome # Null
  PROVE  SpendFits(s)'
<1>1. SpendFits(s) /\ s.id \in ApprovalIds
  BY DEF GInv, TypeOK, Spends
<1>2. RowStays(s.id) /\ approvals[s.id].status \in Decisive
  BY <1>1 DEF RowsStay, SpendFits, Decisive
<1> QED
  BY <1>1, <1>2 DEF SpendFits, RowStays

-----------------------------------------------------------------------------
(* Steps of one request *)

\* A step of request r: what it must do to keep the invariant.
LEMMA Framed ==
  ASSUME GInv, TypeOK', AllTold', RowsStay, clock <= clock', NEW r \in Requests, NEW new, Become(r, new),
         \A q \in Requests \ {r} :
           /\ audit'[q] = audit[q]
           /\ q \in snapshots' <=> q \in snapshots
           /\ q \in sent' <=> q \in sent,
         spends \subseteq spends', \A s \in spends' \ spends : s.request = r,
         \A s \in spends' : s.request = r => SpendFits(s)', SpentApart', RequestFits(r)'
  PROVE  GInv'
<1>1. clock \in Nat /\ clock' \in Nat
  BY DEF GInv, TypeOK, ServiceTypeOK
<1>2. \A q \in Requests \ {r} : req'[q] = req[q]
  BY DEF Become, GInv, TypeOK
<1>3. ASSUME NEW q \in Requests PROVE RequestFits(q)'
  BY <1>1, <1>2, SameRequest
<1>4. ASSUME NEW s \in spends' PROVE SpendFits(s)'
  <2>1. CASE s \in spends /\ s.request # r
    <3>1. s.request \in Requests /\ SpendFits(s)
      BY <2>1 DEF GInv, TypeOK, Spends
    <3>2. req'[s.request] = req[s.request]
      BY <1>2, <2>1, <3>1
    <3> QED
      BY <2>1, <3>1, <3>2, SameSpend DEF SpendFits
  <2> QED
    BY <2>1
<1> QED
  BY <1>3, <1>4 DEF GInv, RowsStay

\* A request still being decided has spent nothing and was not sent.
LEMMA NotYet ==
  ASSUME GInv, NEW r \in Requests, req[r].pc \in Deciding \cup {"new"}
  PROVE  r \notin sent /\ \A s \in spends : s.request # r
<1>1. r \notin sent
  BY DEF GInv, RequestFits, Cleared, Deciding
<1>2. ASSUME NEW s \in spends, s.request = r PROVE FALSE
  BY <1>2 DEF GInv, AllTold, Told, SpendFits, Deciding
<1> QED
  BY <1>1, <1>2

\* The steps that touch only the record of a request still being decided.
LEMMA OwnFits ==
  ASSUME GInv, TypeOK', AllTold', NEW r \in Requests, req[r].pc \in Deciding \cup {"new"}, NEW new, Become(r, new),
         UNCHANGED <<storeVars, serviceVars, audit, snapshots, sent, spends, crashes>>, RequestFits(r)'
  PROVE  GInv'
<1>1. RowsStay
  BY SameRows DEF storeVars
<1>2. clock <= clock'
  BY DEF GInv, TypeOK, ServiceTypeOK, serviceVars
<1>3. \A s \in spends' : s.request # r
  BY NotYet
<1>4. SpentApart'
  BY DEF GInv, SpentApart
<1> QED
  BY <1>1, <1>2, <1>3, <1>4, Framed

\* What is true of any request still being decided that has no snapshot and
\* no audit row.
LEMMA Fresh ==
  ASSUME GInv, NEW r \in Requests, req[r].pc \in (Deciding \cup {"new"}) \ {"record", "consume", "spend", "expireLate"}
  PROVE  audit[r] = <<>> /\ Len(audit[r]) = 0 /\ r \notin snapshots /\ r \notin sent
<1>1. audit[r] = <<>> /\ r \notin snapshots
  BY DEF GInv, RequestFits, Written, Bundled
<1>2. audit[r] \in Seq(AuditRows)
  BY DEF GInv, TypeOK
<1> QED
  BY <1>1, <1>2, NotYet

\* Such a request stays one by moving to another place of the kind, with the
\* row it needs there.
LEMMA StillFresh ==
  ASSUME GInv, NEW r \in Requests,
         req[r].pc \in (Deciding \cup {"new"}) \ {"record", "consume", "spend", "expireLate"},
         req'[r].pc \in Deciding \ {"record", "consume", "spend", "expireLate"},
         UNCHANGED <<audit, snapshots, sent, spends>>
  PROVE  Written(r)' /\ Bundled(r)' /\ Cleared(r)'
<1>1. audit'[r] = <<>> /\ Len(audit'[r]) = 0 /\ r \notin snapshots' /\ r \notin sent'
  BY Fresh
<1>2. req'[r].pc \notin {"forward", "respond", "done", "lost", "record", "consume", "spend", "expireLate"}
  BY DEF Deciding
<1>3. Written(r)'
  BY <1>1, <1>2 DEF Written
<1>4. Bundled(r)'
  BY <1>1, <1>2 DEF Bundled
<1>5. Cleared(r)'
  BY <1>1, <1>2 DEF Cleared
<1> QED
  BY <1>3, <1>4, <1>5


\* The record a step gives a request.
LEMMA Becomes == ASSUME TypeOK, NEW r \in Requests, NEW new, Become(r, new) PROVE req'[r] = new
BY DEF TypeOK, Become

\* A request arrives, is measured and judged.
LEMMA ArriveFits == ASSUME GInv, TypeOK', AllTold', NEW r \in Requests, Arrive(r) PROVE GInv'
<1>0. /\ TypeOK /\ req[r] \in Requested /\ req[r].pc = "new" /\ req[r].row = Null
      /\ UNCHANGED <<storeVars, serviceVars, audit, snapshots, sent, spends, crashes>>
  BY DEF GInv, TypeOK, RequestFits, Carries, Arrive, At
<1>1. ASSUME NEW new, Become(r, new), ForCause(r)', Carries(r)', new.pc \in {"snapshot", "verify", "refuse"}
      PROVE  GInv'
  <2>1. req'[r].pc \in {"snapshot", "verify", "refuse"}
    BY <1>0, <1>1, Becomes
  <2>2. Written(r)' /\ Bundled(r)' /\ Cleared(r)'
    BY <1>0, <2>1, StillFresh DEF Deciding
  <2> QED
    BY <1>0, <1>1, <2>2, OwnFits DEF RequestFits
<1>2. ASSUME NEW impact \in Impacts, NEW v \in Verdict[impact],
             Become(r, [req[r] EXCEPT !.pc = AfterPolicy(v), !.kind = "write",
                                      !.impact = impact, !.decision = v, !.policy = v])
      PROVE  GInv'
  <2> DEFINE n == [req[r] EXCEPT !.pc = AfterPolicy(v), !.kind = "write",
                                 !.impact = impact, !.decision = v, !.policy = v]
  <2>1. v \in {"allow", "hold", "deny"}
    BY <1>2, GateAssumption
  <2>2. /\ n.pc = AfterPolicy(v) /\ n.impact = impact /\ n.decision = v /\ n.policy = v /\ n.row = Null
    BY <1>0 DEF Requested
  <2>3. req'[r] = n
    BY <1>0, <1>2, Becomes
  <2> HIDE DEF n
  <2>4. AfterPolicy(v) \in {"snapshot", "verify", "refuse"} /\ (AfterPolicy(v) = "snapshot" => v = "allow")
        /\ (AfterPolicy(v) = "verify" => v = "hold")
    BY DEF AfterPolicy
  <2>5. ForCause(r)'
    BY <2>2, <2>3, <2>4 DEF ForCause
  <2>6. Carries(r)'
    BY <2>1, <2>2, <2>3, <2>4 DEF Carries, Armed, Deciding
  <2> QED
    BY <1>1, <1>2, <2>2, <2>4, <2>5, <2>6 DEF n
<1>3. CASE Become(r, [req[r] EXCEPT !.pc = "refuse", !.kind = "unparseable", !.decision = "deny"])
  <2>1. req'[r].pc = "refuse"
    BY <1>0, <1>3, Becomes, ZenonT(60) DEF Requested
  <2>2. ForCause(r)' /\ Carries(r)'
    BY <2>1 DEF ForCause, Carries, Armed
  <2> QED
    BY <1>0, <1>1, <1>3, <2>2 DEF Requested
<1>4. CASE Become(r, [req[r] EXCEPT !.pc = "forward", !.kind = "read", !.decision = "allow"])
  <2>1. req'[r].pc = "forward" /\ req'[r].kind = "read"
    BY <1>0, <1>4, Becomes, ZenonT(60) DEF Requested
  <2>2. ForCause(r)' /\ Carries(r)'
    BY <2>1 DEF ForCause, Carries, Armed, Deciding
  <2>3. audit'[r] = <<>> /\ Len(audit'[r]) = 0 /\ r \notin sent'
    BY <1>0, Fresh
  <2>4. Written(r)'
    BY <2>1, <2>3 DEF Written, Deciding
  <2>5. Bundled(r)'
    BY <2>1 DEF Bundled, Deciding
  <2>6. Cleared(r)'
    BY <2>1, <2>3 DEF Cleared
  <2> QED
    BY <1>0, <1>4, <2>2, <2>4, <2>5, <2>6, OwnFits DEF RequestFits
<1> QED
  BY <1>2, <1>3, <1>4 DEF Arrive

\* What Verify's answers say of the row it read.
LEMMA Answers ==
  ASSUME GInv, NEW r \in Requests, NEW id \in Latest(RequestKey[r]), NEW answer,
         answer = VerifyAnswer(id, approvals[id], RequestKey[r], req[r].impact)
  PROVE  /\ id \in ApprovalIds /\ approvals[id] \in Rows
         /\ answer \in {"expire", "pending", "none", "denied", "verified", "supersede"}
         /\ approvals[id].key = RequestKey[r]
         /\ answer = "expire" =>
              /\ Lapsed(approvals[id])
              /\ approvals[id].status \in Waiting \cup {"approved"}
              /\ approvals[id].status = "approved" => Copied(id, approvals[id])
         /\ answer = "verified" =>
              Copied(id, approvals[id]) /\ approvals[id].impact = req[r].impact
         /\ answer = "supersede" =>
              Copied(id, approvals[id]) /\ approvals[id].impact # req[r].impact
<1>1. id \in ApprovalIds /\ Exists(id) /\ approvals[id].key = RequestKey[r]
  BY DEF Latest, RowsOf
<1>2. approvals[id] \in Rows /\ RowSigned(id)
  BY <1>1, RowTyped DEF GInv
<1>3. answer \in {"expire", "pending", "none", "denied", "verified", "supersede"}
  BY DEF VerifyAnswer
<1>4. approvals[id].status = "approved" => Copied(id, approvals[id])
  BY <1>1, <1>2 DEF Copied, Decisive
<1>5. answer = "expire" => Lapsed(approvals[id]) /\ approvals[id].status \in Waiting \cup {"approved"}
  BY DEF VerifyAnswer
<1>6. answer \in {"verified", "supersede"} =>
        /\ approvals[id].status = "approved"
        /\ answer = "verified" <=>
             approvals[id].token =
               TokenOf(id, RequestKey[r], req[r].impact, approvals[id].nonce, approvals[id].expires)
  BY DEF VerifyAnswer
<1>7. approvals[id].status = "approved" =>
        (approvals[id].impact = req[r].impact <=>
           approvals[id].token =
             TokenOf(id, RequestKey[r], req[r].impact, approvals[id].nonce, approvals[id].expires))
  BY <1>1, <1>2 DEF RowSigned, TokenOf
<1> QED
  BY <1>1, <1>2, <1>3, <1>4, <1>5, <1>6, <1>7

\* Verify: the request goes where the answer sends it, with the row it read.
LEMMA VerifyFits == ASSUME GInv, TypeOK', AllTold', NEW r \in Requests, Verify(r) PROVE GInv'
<1>0. /\ TypeOK /\ req[r] \in Requested /\ req[r].pc = "verify" /\ Carries(r)
      /\ UNCHANGED <<storeVars, serviceVars, audit, snapshots, sent, spends, crashes>>
  BY DEF GInv, TypeOK, RequestFits, Verify, At
<1>1. /\ req[r].impact \in Impacts /\ req[r].decision = "hold" /\ req[r].policy # "deny"
      /\ UNCHANGED <<approvals, clock>>
  BY <1>0 DEF Carries, Deciding, Armed, storeVars, serviceVars
<1>2. ASSUME NEW new \in Requested, Become(r, new),
             new.pc \in {"create", "wait", "refuse", "snapshot", "expire", "supersede"},
             /\ new.impact = req[r].impact /\ new.decision = req[r].decision /\ new.policy = req[r].policy,
             new.pc = "snapshot" =>
               /\ Copied(new.id, new.row) /\ approvals[new.id].key = RequestKey[r]
               /\ approvals[new.id].impact = req[r].impact /\ new.row # Null,
             new.pc = "expire" =>
               /\ new.latest \in ApprovalIds /\ new.row \in Rows /\ Lapsed(new.row)
               /\ new.row.status \in Waiting \cup {"approved"}
               /\ new.row.status = "approved" => Copied(new.latest, new.row),
             new.pc = "supersede" =>
               /\ Copied(new.latest, new.row) /\ approvals[new.latest].key = RequestKey[r]
               /\ approvals[new.latest].impact # req[r].impact
      PROVE  GInv'
  <2>1. req'[r] = new
    BY <1>0, <1>2, Becomes
  <2>2. Written(r)' /\ Bundled(r)' /\ Cleared(r)'
    BY <1>0, <1>2, <2>1, StillFresh DEF Deciding
  <2>3. \A id, row : Copied(id, row) <=>
          /\ id \in ApprovalIds /\ row \in Rows /\ approvals'[id] # NoRow
          /\ approvals'[id].status \in Decisive
          /\ approvals'[id].nonce = row.nonce /\ approvals'[id].expires = row.expires
    BY <1>1 DEF Copied, Exists
  <2>4. ForCause(r)'
    BY <1>1, <1>2, <2>1, <2>3 DEF ForCause, Copied, Exists, Lapsed
  <2>5. Carries(r)'
    BY <1>1, <1>2, <2>1, <2>3 DEF Carries, Armed, Deciding, Copied, Exists
  <2> QED
    BY <1>0, <1>2, <2>2, <2>4, <2>5, OwnFits DEF RequestFits, Deciding
<1>3. CASE Goto(r, "create")
  <2> DEFINE new == [req[r] EXCEPT !.pc = "create"]
  <2>1. new \in Requested
    BY <1>0, Elsewhere DEF Pcs, Deciding
  <2>2. new.pc = "create" /\ new.impact = req[r].impact /\ new.decision = req[r].decision
        /\ new.policy = req[r].policy
    BY <1>0 DEF Requested
  <2>3. Become(r, new)
    BY <1>3 DEF Goto
  <2> HIDE DEF new
  <2> QED
    BY <1>2, <2>1, <2>2, <2>3
<1>4. ASSUME NEW id \in Latest(RequestKey[r]), NEW answer,
             answer = VerifyAnswer(id, approvals[id], RequestKey[r], req[r].impact),
             Become(r, OnAnswer(req[r], id, approvals[id], answer))
      PROVE  GInv'
  <2> DEFINE v   == req[r]
             row == approvals[id]
             new == OnAnswer(v, id, row, answer)
  <2>1. /\ id \in ApprovalIds /\ row \in Rows /\ row.key = RequestKey[r]
        /\ answer \in {"expire", "pending", "none", "denied", "verified", "supersede"}
        /\ answer = "expire" =>
             /\ Lapsed(row) /\ row.status \in Waiting \cup {"approved"}
             /\ row.status = "approved" => Copied(id, row)
        /\ answer = "verified" => Copied(id, row) /\ row.impact = v.impact
        /\ answer = "supersede" => Copied(id, row) /\ row.impact # v.impact
    BY <1>4, Answers
  <2>2. req'[r] = new /\ req'[r] \in Requested
    BY <1>0, <1>4, Becomes DEF TypeOK
  <2>3. v \in Requested
    BY <1>0
  <2>4. /\ new.impact = v.impact /\ new.decision = v.decision /\ new.policy = v.policy
        /\ new.pc \in {"create", "wait", "refuse", "snapshot", "expire", "supersede"}
    <3> HIDE DEF v, row
    <3> QED
      BY <2>1, <2>3 DEF OnAnswer, Requested
  <2>5. new.pc = "snapshot" => answer = "verified" /\ new.id = id /\ new.row = row
    <3> HIDE DEF v, row
    <3> QED
      BY <2>1, <2>3 DEF OnAnswer, Requested
  <2>6. new.pc \in {"expire", "supersede"} => answer = new.pc /\ new.latest = id /\ new.row = row
    <3> HIDE DEF v, row
    <3> QED
      BY <2>1, <2>3 DEF OnAnswer, Requested
  <2>7. row # Null
    BY <2>1, GateAssumption
  <2>8. Become(r, new)
    BY <1>4
  <2> HIDE DEF new
  <2> QED
    BY <1>2, <2>1, <2>2, <2>4, <2>5, <2>6, <2>7, <2>8
<1> QED
  BY <1>0, <1>3, <1>4 DEF Verify, At

\* A request that goes on, or is refused, without having reached its snapshot.
LEMMA EarlyFits ==
  ASSUME GInv, TypeOK', AllTold', RowsStay, NEW r \in Requests,
         req[r].pc \in (Deciding \cup {"new"}) \ {"record", "consume", "spend", "expireLate"},
         NEW new, Become(r, new), new.pc \in {"refuse", "remeasure", "verify", "create", "wait"},
         new.pc # "refuse" => new.impact \in Impacts /\ new.decision = "hold" /\ new.policy # "deny",
         UNCHANGED <<serviceVars, audit, snapshots, sent, spends>>
  PROVE  GInv'
<1>1. req'[r] = new
  BY Becomes DEF GInv
<1>2. Written(r)' /\ Bundled(r)' /\ Cleared(r)'
  BY <1>1, StillFresh DEF Deciding
<1>3. ForCause(r)'
  BY <1>1 DEF ForCause
<1>4. Carries(r)'
  BY <1>1 DEF Carries, Armed, Deciding
<1>5. clock <= clock'
  BY DEF GInv, TypeOK, ServiceTypeOK, serviceVars
<1>6. \A s \in spends' : s.request # r
  BY NotYet
<1>7. SpentApart'
  BY DEF GInv, SpentApart
<1> QED
  BY <1>2, <1>3, <1>4, <1>5, <1>6, <1>7, Framed DEF RequestFits

\* The waiting steps and a failed statement.
LEMMA WaitFits ==
  ASSUME GInv, TypeOK', AllTold', NEW r \in Requests, StoreFails(r) \/ Poll(r) \/ WaitEnds(r) \/ Remeasure(r)
  PROVE  GInv'
<1>0. /\ TypeOK /\ req[r] \in Requested /\ Carries(r)
      /\ req[r].pc \in {"verify", "expire", "supersede", "create", "wait", "remeasure"}
      /\ UNCHANGED <<storeVars, serviceVars, audit, snapshots, sent, spends, crashes>>
  BY DEF GInv, TypeOK, RequestFits, StoreFails, Poll, WaitEnds, Remeasure, At
<1>1. ASSUME NEW new, Become(r, new), new.pc \in {"refuse", "remeasure", "verify"},
             new.pc # "refuse" => new.impact \in Impacts /\ new.decision = "hold" /\ new.policy # "deny"
      PROVE  GInv'
  BY <1>0, <1>1, EarlyFits, SameRows DEF storeVars, Deciding
<1>2. CASE StoreFails(r)
  <2>1. [req[r] EXCEPT !.pc = "refuse", !.latest = Null, !.row = Null].pc = "refuse"
    BY <1>0 DEF Requested
  <2> QED
    BY <1>1, <1>2, <2>1 DEF StoreFails
<1>3. [req[r] EXCEPT !.pc = "refuse", !.ticket = req[r].id].pc = "refuse"
  BY <1>0 DEF Requested
<1>4. CASE Poll(r)
  <2> DEFINE new == [req[r] EXCEPT !.pc = "remeasure"]
  <2>1. req[r].impact \in Impacts /\ req[r].decision = "hold" /\ req[r].policy # "deny"
    BY <1>0, <1>4 DEF Carries, Deciding, Armed, Poll, At
  <2>2. /\ new.pc = "remeasure" /\ new.impact = req[r].impact /\ new.decision = req[r].decision
        /\ new.policy = req[r].policy
    BY <1>0 DEF Requested
  <2>3. [req[r] EXCEPT !.pc = "refuse"].pc = "refuse"
    BY <1>0 DEF Requested
  <2>4. Become(r, new) \/ Become(r, [req[r] EXCEPT !.pc = "refuse"])
        \/ Become(r, [req[r] EXCEPT !.pc = "refuse", !.ticket = req[r].id])
    BY <1>4 DEF Poll
  <2> HIDE DEF new
  <2> QED
    BY <1>1, <1>3, <2>1, <2>2, <2>3, <2>4
<1>5. CASE WaitEnds(r)
  BY <1>1, <1>3, <1>5 DEF WaitEnds
<1>6. CASE Remeasure(r)
  <2>1. req[r].decision = "hold"
    BY <1>0, <1>6 DEF Carries, Deciding, Armed, Remeasure, At
  <2>2. ASSUME NEW impact \in Impacts, NEW v \in Verdict[impact], Become(r, OnRemeasured(req[r], impact, v))
        PROVE  GInv'
    <3> DEFINE new == OnRemeasured(req[r], impact, v)
    <3>1. new.pc \in {"refuse", "verify"}
          /\ (new.pc = "verify" => new.impact = impact /\ new.decision = req[r].decision /\ new.policy # "deny")
      BY <1>0 DEF Requested, OnRemeasured
    <3>2. Become(r, new)
      BY <2>2
    <3> HIDE DEF new
    <3> QED
      BY <1>1, <2>1, <3>1, <3>2
  <2> QED
    BY <1>1, <1>3, <1>6, <2>2 DEF Remeasure
<1> QED
  BY <1>2, <1>4, <1>5, <1>6

\* Leaving changes nothing the invariant reads.
LEMMA LeaveFits == ASSUME GInv, TypeOK', AllTold', NEW r \in Requests, ClientLeaves(r) PROVE GInv'
<1>0. /\ TypeOK /\ req[r] \in Requested /\ RequestFits(r) /\ req[r].pc \in Deciding \cup {"forward"}
      /\ UNCHANGED <<storeVars, serviceVars, audit, snapshots, sent, spends, crashes>>
      /\ Become(r, [req[r] EXCEPT !.gone = TRUE])
  BY DEF GInv, TypeOK, ClientLeaves
<1>1. req'[r] = [req[r] EXCEPT !.gone = TRUE]
  BY <1>0, Becomes
<1>2. /\ req'[r].pc = req[r].pc /\ req'[r].kind = req[r].kind /\ req'[r].impact = req[r].impact
      /\ req'[r].decision = req[r].decision /\ req'[r].policy = req[r].policy /\ req'[r].id = req[r].id
      /\ req'[r].latest = req[r].latest /\ req'[r].row = req[r].row /\ req'[r].saved = req[r].saved
      /\ req'[r].now = req[r].now /\ req'[r].outcome = req[r].outcome
  BY <1>0, <1>1 DEF Requested
<1>3. UNCHANGED <<approvals, clock, audit, snapshots, sent, spends>>
  BY <1>0 DEF storeVars, serviceVars
<1>4. ForCause(r)' /\ Carries(r)'
  BY <1>0, <1>2, <1>3 DEF RequestFits, ForCause, Carries, Copied, Exists, Lapsed
<1>5. Written(r)' /\ Bundled(r)' /\ Cleared(r)'
  BY <1>0, <1>2, <1>3 DEF RequestFits, Written, Bundled, Cleared, OnRecord
<1>6. RowsStay
  BY <1>0, SameRows DEF storeVars
<1>7. ASSUME NEW s \in spends', s.request = r PROVE SpendFits(s)'
  <2>1. s \in spends /\ SpendFits(s)
    BY <1>3, <1>7 DEF GInv
  <2>2. req'[r].pc \in {"forward", "lost"} \/ req'[r].outcome # Null
    BY <1>2, <1>7, <2>1 DEF SpendFits
  <2> QED
    BY <1>2, <1>6, <1>7, <2>1, <2>2, SameSpend
<1>8. SpentApart'
  BY <1>3 DEF GInv, SpentApart
<1>9. clock <= clock' /\ RequestFits(r)'
  BY <1>0, <1>3, <1>4, <1>5 DEF TypeOK, ServiceTypeOK, RequestFits
<1> QED
  BY <1>0, <1>3, <1>6, <1>7, <1>8, <1>9, Framed

\* A status write that pins the status its writer read, won or lost.
LEMMA WriteStays ==
  ASSUME GInv, NEW id \in ApprovalIds, NEW from \in Waiting \cup {"approved"},
         NEW to \in {"expired", "superseded"}, WriteStatus(id, from, to)
  PROVE  RowsStay
<1>1. CASE SetApprovalStatus(id, from, to)
  BY <1>1, StatusStays DEF SetApprovalStatus, StatusWhere, Final
<1>2. CASE UNCHANGED storeVars
  BY <1>2, SameRows DEF storeVars
<1> QED
  BY <1>1, <1>2 DEF WriteStatus

\* Verify's status write, and the pending row.
LEMMA CreateFits == ASSUME GInv, TypeOK', AllTold', NEW r \in Requests, VerifyWrite(r) \/ Create(r) PROVE GInv'
<1>0. /\ TypeOK /\ req[r] \in Requested /\ Carries(r) /\ ForCause(r)
      /\ req[r].pc \in {"expire", "supersede", "create"}
      /\ UNCHANGED <<serviceVars, audit, snapshots, sent, spends>>
  BY DEF GInv, TypeOK, RequestFits, VerifyWrite, Create, At
<1>1. req[r].impact \in Impacts /\ req[r].decision = "hold" /\ req[r].policy # "deny"
  BY <1>0 DEF Carries, Deciding, Armed
<1>2. CASE VerifyWrite(r)
  <2> DEFINE new == [req[r] EXCEPT !.pc = "create", !.latest = Null, !.row = Null]
  <2>1. new.pc = "create" /\ new.impact = req[r].impact /\ new.decision = req[r].decision
        /\ new.policy = req[r].policy
    BY <1>0 DEF Requested
  <2>2. RowsStay
    <3>1. CASE req[r].pc = "expire" /\ WriteStatus(req[r].latest, req[r].row.status, "expired")
      BY <1>0, <3>1, WriteStays DEF ForCause
    <3>2. CASE req[r].pc = "supersede" /\ WriteStatus(req[r].latest, "approved", "superseded")
      BY <1>0, <3>2, WriteStays DEF ForCause, Copied
    <3> QED
      BY <1>2, <3>1, <3>2 DEF VerifyWrite, At
  <2>3. Become(r, new)
    BY <1>2 DEF VerifyWrite
  <2> HIDE DEF new
  <2> QED
    BY <1>0, <1>1, <2>1, <2>2, <2>3, EarlyFits DEF Deciding
<1>3. CASE Create(r)
  <2>1. PICK id \in ApprovalIds :
          /\ CreatePending(id, RequestKey[r], req[r].impact)
          /\ Become(r, IF req[r].again THEN [req[r] EXCEPT !.pc = "refuse", !.id = id, !.ticket = id]
                                       ELSE [req[r] EXCEPT !.pc = "wait", !.id = id])
    BY <1>3 DEF Create
  <2> DEFINE new == [req[r] EXCEPT !.pc = "wait", !.id = id]
  <2>2. RowsStay
    BY <2>1, CreateStays
  <2>3. new.pc = "wait" /\ new.impact = req[r].impact /\ new.decision = req[r].decision
        /\ new.policy = req[r].policy
    BY <1>0 DEF Requested
  <2>4. [req[r] EXCEPT !.pc = "refuse", !.id = id, !.ticket = id].pc = "refuse"
    BY <1>0 DEF Requested
  <2>5. Become(r, new) \/ Become(r, [req[r] EXCEPT !.pc = "refuse", !.id = id, !.ticket = id])
    BY <2>1
  <2> HIDE DEF new
  <2> QED
    BY <1>0, <1>1, <2>2, <2>3, <2>4, <2>5, EarlyFits DEF Deciding
<1> QED
  BY <1>2, <1>3

-----------------------------------------------------------------------------
(* The snapshot, the decision row and the spend *)

\* A request's audit rows after one more, or none.
LEMMA OneMore ==
  ASSUME TypeOK, NEW r \in Requests, NEW kind \in {"decision", "result"}, Append1(r, kind)
  PROVE  /\ audit[r] \in Seq(AuditRows)
         /\ Len(audit'[r]) = Len(audit[r]) + 1
         /\ audit'[r][Len(audit'[r])].kind = kind
         /\ audit'[r][Len(audit'[r])].id = req[r].id
         /\ audit'[r][Len(audit'[r])].saved = req[r].saved
         /\ audit'[r][Len(audit'[r])].outcome = req[r].outcome
         /\ Len(audit[r]) > 0 => audit'[r][1] = audit[r][1]
         /\ \A q \in Requests \ {r} : audit'[q] = audit[q]
<1> DEFINE line == [kind |-> kind, decision |-> req[r].decision, id |-> req[r].id,
                    saved |-> req[r].saved, outcome |-> req[r].outcome]
<1>1. line.kind = kind /\ line.id = req[r].id /\ line.saved = req[r].saved /\ line.outcome = req[r].outcome
  OBVIOUS
<1>2. audit[r] \in Seq(AuditRows) /\ line \in AuditRows
  BY DEF TypeOK, Requested, AuditRows
<1>3. audit' = [audit EXCEPT ![r] = Append(@, line)]
  BY DEF Append1
<1> HIDE DEF line
<1>4. audit'[r] = Append(audit[r], line) /\ \A q \in Requests \ {r} : audit'[q] = audit[q]
  BY <1>3 DEF TypeOK
<1>5. /\ Len(Append(audit[r], line)) = Len(audit[r]) + 1
      /\ Append(audit[r], line)[Len(audit[r]) + 1] = line
      /\ Len(audit[r]) > 0 => Append(audit[r], line)[1] = audit[r][1]
  BY <1>2
<1> QED
  BY <1>1, <1>2, <1>4, <1>5

\* A request whose snapshot is taken, or that is refused for want of one.
LEMMA SnapshotFits == ASSUME GInv, TypeOK', AllTold', NEW r \in Requests, Snapshot(r) PROVE GInv'
<1>0. /\ TypeOK /\ req[r] \in Requested /\ Carries(r) /\ req[r].pc = "snapshot"
      /\ UNCHANGED <<storeVars, serviceVars, audit, sent, spends, crashes>>
  BY DEF GInv, TypeOK, RequestFits, Snapshot, At
<1>1. RowsStay /\ UNCHANGED <<approvals, clock>>
  BY <1>0, SameRows DEF storeVars, serviceVars
<1>2. r \notin snapshots /\ audit[r] = <<>> /\ Len(audit[r]) = 0 /\ r \notin sent
  BY <1>0, Fresh DEF Deciding
<1>3. CASE Goto(r, "refuse") /\ Discard(r)
  <2>1. [req[r] EXCEPT !.pc = "refuse"].pc = "refuse"
    BY <1>0 DEF Requested
  <2>2. UNCHANGED snapshots
    BY <1>2, <1>3 DEF Discard
  <2> QED
    BY <1>0, <1>1, <1>3, <2>1, <2>2, EarlyFits DEF Goto, Deciding
<1>4. CASE Take(r)
  <2>1. PICK made \in Bundle[req[r].impact] :
          /\ snapshots' = IF made THEN snapshots \cup {r} ELSE snapshots
          /\ Become(r, [req[r] EXCEPT !.pc = "record", !.saved = made])
    BY <1>4 DEF Take
  <2> DEFINE new == [req[r] EXCEPT !.pc = "record", !.saved = made]
  <2>2. req'[r] = new
    BY <1>0, <2>1, Becomes
  <2>3. /\ new.pc = "record" /\ new.saved = made
        /\ new.impact = req[r].impact /\ new.decision = req[r].decision /\ new.policy = req[r].policy
        /\ new.row = req[r].row /\ new.id = req[r].id
    BY <1>0 DEF Requested
  <2>4. req[r].impact \in Impacts /\ made \in BOOLEAN
    <3>1. req[r].impact \in Impacts
      BY <1>0 DEF Carries, Deciding
    <3> QED
      BY <3>1, GateAssumption
  <2> HIDE DEF new
  <2>5. ForCause(r)'
    BY <2>2, <2>3 DEF ForCause
  <2>6. Carries(r)'
    BY <1>0, <1>1, <2>2, <2>3 DEF Carries, Armed, Deciding, Copied, Exists
  <2>7. Written(r)'
    BY <1>0, <1>2, <2>2, <2>3 DEF Written, Deciding
  <2>8. Bundled(r)'
    <3>1. made <=> r \in snapshots'
      BY <1>2, <2>1, <2>4
    <3>2. Bundle[req[r].impact] = {TRUE} => made
      BY <2>1
    <3> QED
      BY <2>2, <2>3, <3>1, <3>2 DEF Bundled
  <2>9. Cleared(r)'
    BY <1>0, <1>2, <2>2, <2>3 DEF Cleared
  <2>10. \A q \in Requests \ {r} : q \in snapshots' <=> q \in snapshots
    BY <2>1
  <2>11. \A s \in spends' : s.request # r
    BY <1>0, NotYet DEF Deciding
  <2>12. SpentApart'
    BY <1>0 DEF GInv, SpentApart
  <2>13. clock <= clock'
    BY <1>0, <1>1 DEF TypeOK, ServiceTypeOK
  <2>14. RequestFits(r)'
    BY <2>5, <2>6, <2>7, <2>8, <2>9 DEF RequestFits
  <2> QED
    BY <1>0, <1>1, <2>1, <2>10, <2>11, <2>12, <2>13, <2>14, Framed
<1> QED
  BY <1>3, <1>4 DEF Snapshot

\* A request that had a snapshot or was about to spend, and is not forwarded
\* after all.
LEMMA DroppedFits ==
  ASSUME GInv, TypeOK', AllTold', RowsStay, NEW r \in Requests, req[r].pc \in {"record", "consume", "spend", "expireLate"},
         NotForwarded(r), UNCHANGED <<serviceVars, audit, sent>>
  PROVE  GInv'
<1>0. /\ TypeOK /\ req[r] \in Requested /\ RequestFits(r) /\ spends' = spends /\ snapshots' = snapshots \ {r}
      /\ Become(r, [req[r] EXCEPT !.pc = "respond"])
  BY DEF GInv, TypeOK, NotForwarded, Discard, Goto
<1>1. req'[r].pc = "respond"
  BY <1>0, Becomes DEF Requested
<1>2. ForCause(r)' /\ Carries(r)'
  BY <1>1 DEF ForCause, Carries, Armed, Deciding
<1>3. r \notin sent /\ \A s \in spends : s.request # r
  BY NotYet DEF Deciding
<1>4. Len(audit[r]) <= 1 /\ (Len(audit[r]) = 1 => audit[r][1].kind = "decision") /\ Len(audit[r]) <= 2
      /\ (Len(audit[r]) = 2 => audit[r][1].kind = "decision" /\ audit[r][2].kind = "result")
  BY <1>0 DEF RequestFits, Written
<1>5. Written(r)'
  BY <1>1, <1>4 DEF Written, Deciding
<1>6. Bundled(r)' /\ Cleared(r)'
  BY <1>0, <1>1, <1>3 DEF Bundled, Cleared, Deciding
<1>7. SpentApart'
  BY <1>0 DEF GInv, SpentApart
<1>8. clock <= clock'
  BY <1>0 DEF TypeOK, ServiceTypeOK, serviceVars
<1>9. \A q \in Requests \ {r} : q \in snapshots' <=> q \in snapshots
  BY <1>0
<1>10. RequestFits(r)'
  BY <1>2, <1>5, <1>6 DEF RequestFits
<1>11. /\ \A q \in Requests \ {r} : audit'[q] = audit[q] /\ (q \in sent' <=> q \in sent)
       /\ spends \subseteq spends' /\ \A s \in spends' \ spends : s.request = r
       /\ \A s \in spends' : s.request = r => SpendFits(s)'
  BY <1>0, <1>3
<1> QED
  BY <1>0, <1>7, <1>8, <1>9, <1>10, <1>11, Framed

\* The decision row, written or not.
LEMMA RecordFits == ASSUME GInv, TypeOK', AllTold', NEW r \in Requests, AuditDecision(r) PROVE GInv'
<1>0. /\ TypeOK /\ req[r] \in Requested /\ RequestFits(r) /\ req[r].pc = "record"
      /\ UNCHANGED <<storeVars, serviceVars, sent, spends, crashes>>
  BY DEF GInv, TypeOK, AuditDecision, At
<1>1. RowsStay /\ UNCHANGED <<approvals, clock>>
  BY <1>0, SameRows DEF storeVars, serviceVars
<1>2. CASE Goto(r, "respond") /\ Discard(r) /\ UNCHANGED audit
  BY <1>0, <1>1, <1>2, DroppedFits DEF NotForwarded
<1>3. CASE Append1(r, "decision") /\ Goto(r, IF req[r].row = Null THEN "forward" ELSE "consume") /\ UNCHANGED snapshots
  <2> DEFINE pc  == IF req[r].row = Null THEN "forward" ELSE "consume"
             new == [req[r] EXCEPT !.pc = pc]
  <2>1. req'[r] = new
    BY <1>0, <1>3, Becomes DEF Goto
  <2>2. /\ new.pc = pc /\ new.saved = req[r].saved /\ new.kind = req[r].kind
        /\ new.impact = req[r].impact /\ new.decision = req[r].decision /\ new.policy = req[r].policy
        /\ new.row = req[r].row /\ new.id = req[r].id
    BY <1>0 DEF Requested
  <2>3. pc \in {"forward", "consume"} /\ (pc = "consume" <=> req[r].row # Null)
    OBVIOUS
  <2> HIDE DEF new, pc
  <2>4. audit[r] = <<>> /\ Len(audit[r]) = 0 /\ r \notin sent /\ \A s \in spends : s.request # r
    <3>1. audit[r] = <<>>
      BY <1>0 DEF RequestFits, Written, Deciding
    <3> QED
      BY <1>0, <3>1, NotYet DEF Deciding
  <2>5. /\ Len(audit'[r]) = 1 /\ audit'[r][1].kind = "decision"
        /\ audit'[r][1].id = req[r].id /\ audit'[r][1].saved = req[r].saved
        /\ \A q \in Requests \ {r} : audit'[q] = audit[q]
    <3>1. /\ Len(audit'[r]) = Len(audit[r]) + 1
          /\ audit'[r][Len(audit'[r])].kind = "decision"
          /\ audit'[r][Len(audit'[r])].id = req[r].id
          /\ audit'[r][Len(audit'[r])].saved = req[r].saved
          /\ \A q \in Requests \ {r} : audit'[q] = audit[q]
      BY <1>0, <1>3, OneMore
    <3>2. Len(audit'[r]) = 1
      BY <2>4, <3>1
    <3> QED
      BY <3>1, <3>2
  <2>6. OnRecord(r)'
    <3>1. (req[r].saved <=> r \in snapshots) /\ (Bundle[req[r].impact] = {TRUE} => req[r].saved)
      BY <1>0 DEF RequestFits, Bundled
    <3>2. snapshots' = snapshots /\ Len(audit'[r]) > 0
      BY <1>3, <2>5
    <3> QED
      BY <2>1, <2>2, <2>5, <3>1, <3>2 DEF OnRecord
  <2>7. ForCause(r)'
    BY <2>1, <2>2, <2>3 DEF ForCause
  <2>8. Carries(r)'
    BY <1>0, <1>1, <2>1, <2>2, <2>3 DEF RequestFits, Carries, Armed, Deciding, Copied, Exists
  <2>9. Written(r)'
    BY <2>1, <2>2, <2>3, <2>5, <2>6 DEF Written, Deciding
  <2>10. Bundled(r)'
    BY <2>1, <2>2, <2>3 DEF Bundled, Deciding
  <2>11. req[r].row = Null => req[r].decision # "hold" /\ req[r].policy # "deny"
    BY <1>0 DEF RequestFits, Carries, Armed, Deciding
  <2>12. req[r].policy # "deny"
    BY <1>0 DEF RequestFits, Carries, Deciding
  <2>13. Cleared(r)'
    BY <1>0, <2>1, <2>2, <2>3, <2>4, <2>6, <2>11, <2>12 DEF Cleared
  <2>14. RequestFits(r)'
    BY <2>7, <2>8, <2>9, <2>10, <2>13 DEF RequestFits
  <2>15. SpentApart'
    BY <1>0 DEF GInv, SpentApart
  <2>16. clock <= clock'
    BY <1>0, <1>1 DEF TypeOK, ServiceTypeOK
  <2>17. Become(r, new)
    BY <1>3 DEF Goto, new, pc
  <2> QED
    BY <1>0, <1>1, <1>3, <2>4, <2>5, <2>14, <2>15, <2>16, <2>17, Framed
<1> QED
  BY <1>2, <1>3 DEF AuditDecision

\* Consume, in all its outcomes.
LEMMA ConsumeFits ==
  ASSUME GInv, TypeOK', AllTold', NEW r \in Requests,
         Consume(r) \/ Spend(r) \/ ConsumeLate(r) \/ ConsumeFails(r)
  PROVE  GInv'
<1>0. /\ TypeOK /\ req[r] \in Requested /\ RequestFits(r) /\ req[r].pc \in {"consume", "spend", "expireLate"}
      /\ UNCHANGED <<serviceVars, audit, sent, crashes>> /\ UNCHANGED clock
  BY DEF GInv, TypeOK, Consume, Spend, ConsumeLate, ConsumeFails, At, serviceVars
<1>1. /\ req[r].row # Null /\ Copied(req[r].id, req[r].row)
      /\ approvals[req[r].id].key = RequestKey[r] /\ approvals[req[r].id].impact = req[r].impact
      /\ req[r].policy # "deny" /\ req[r].impact \in Impacts /\ OnRecord(r)
      /\ req[r].decision \in {"allow", "hold"}
      /\ Len(audit[r]) <= 1 /\ (Len(audit[r]) = 1 => audit[r][1].kind = "decision")
  BY <1>0 DEF RequestFits, Carries, Armed, Deciding, Written
<1>2. r \notin sent /\ \A s \in spends : s.request # r
  BY <1>0, NotYet DEF Deciding
<1>3. CASE NotForwarded(r) /\ UNCHANGED storeVars
  BY <1>0, <1>3, SameRows, DroppedFits DEF storeVars
<1>4. CASE NotForwarded(r) /\ WriteStatus(req[r].id, "approved", "expired")
  BY <1>0, <1>1, <1>4, WriteStays, DroppedFits DEF Copied
<1>5. ASSUME NEW new, Become(r, new), new.pc \in {"expireLate", "spend", "forward"},
             /\ new.saved = req[r].saved /\ new.kind = req[r].kind
             /\ new.impact = req[r].impact /\ new.decision = req[r].decision
             /\ new.policy = req[r].policy /\ new.row = req[r].row /\ new.id = req[r].id,
             UNCHANGED snapshots, RowsStay,
             spends \subseteq spends', \A s \in spends' \ spends : s.request = r,
             \A s \in spends' : s.request = r => SpendFits(s)', SpentApart',
             new.pc = "expireLate" => Lapsed(req[r].row),
             new.pc = "spend" => new.now <= req[r].row.expires,
             new.pc = "forward" => \E s \in spends' : s.request = r
      PROVE  GInv'
  <2>1. req'[r] = new
    BY <1>0, <1>5, Becomes
  <2>2. /\ new.pc \in {"expireLate", "spend", "forward"}
        /\ new.saved = req[r].saved /\ new.kind = req[r].kind
        /\ new.impact = req[r].impact /\ new.decision = req[r].decision /\ new.policy = req[r].policy
        /\ new.row = req[r].row /\ new.id = req[r].id
    BY <1>5
  <2>3. OnRecord(r)'
    BY <1>0, <1>1, <1>5, <2>1, <2>2 DEF OnRecord
  <2>4. ForCause(r)'
    BY <1>0, <1>5, <2>1, <2>2 DEF ForCause, Lapsed
  <2>5. Carries(r)'
    <3>1. Copied(req[r].id, req[r].row)'
      <4>1. req'[r].id = req[r].id /\ req'[r].row = req[r].row
        BY <2>1, <2>2
      <4>2. /\ req[r].id \in ApprovalIds /\ req[r].row \in Rows /\ approvals'[req[r].id] # NoRow
            /\ approvals'[req[r].id].status \in Decisive
            /\ approvals'[req[r].id].nonce = req[r].row.nonce
            /\ approvals'[req[r].id].expires = req[r].row.expires
        BY <1>1, <1>5, CopiedStays
      <4> QED
        BY <4>1, <4>2 DEF Copied, Exists
    <3>2. approvals'[req[r].id].key = RequestKey[r] /\ approvals'[req[r].id].impact = req[r].impact
      BY <1>1, <1>5, CopiedStays
    <3> QED
      BY <1>1, <1>5, <2>1, <2>2, <3>1, <3>2 DEF Carries, Armed, Deciding
  <2>6. Written(r)'
    <3>1. audit'[r] = audit[r] /\ Len(audit[r]) \in Nat
      BY <1>0 DEF TypeOK
    <3> QED
      BY <1>1, <2>1, <2>2, <2>3, <3>1 DEF Written, Deciding
  <2>7. Bundled(r)'
    BY <2>1, <2>2 DEF Bundled, Deciding
  <2>8. Cleared(r)'
    BY <1>0, <1>1, <1>2, <1>5, <2>1, <2>2, <2>3 DEF Cleared
  <2>9. RequestFits(r)'
    BY <2>4, <2>5, <2>6, <2>7, <2>8 DEF RequestFits
  <2>10. clock <= clock'
    BY <1>0 DEF TypeOK, ServiceTypeOK
  <2> QED
    BY <1>0, <1>5, <2>9, <2>10, Framed
<1>6. CASE Consume(r) /\ ~req[r].gone
  <2> DEFINE pc  == IF Lapsed(req[r].row) THEN "expireLate" ELSE "spend"
             new == [req[r] EXCEPT !.pc = pc, !.now = clock]
  <2>1. RowsStay /\ UNCHANGED <<snapshots, spends>> /\ Become(r, new)
    BY <1>6, SameRows DEF Consume, NotForwarded, storeVars
  <2>2. SpentApart'
    BY <2>1 DEF GInv, SpentApart
  <2>3. /\ new.pc = pc /\ new.now = clock /\ new.saved = req[r].saved /\ new.kind = req[r].kind
        /\ new.impact = req[r].impact /\ new.decision = req[r].decision
        /\ new.policy = req[r].policy /\ new.row = req[r].row /\ new.id = req[r].id
    BY <1>0 DEF Requested
  <2>4. \/ pc = "expireLate" /\ Lapsed(req[r].row)
        \/ pc = "spend" /\ clock <= req[r].row.expires
    <3>1. ~Lapsed(req[r].row) => clock <= req[r].row.expires
      BY <1>0, <1>1 DEF Lapsed, Copied, Rows, TypeOK, ServiceTypeOK
    <3>2. CASE Lapsed(req[r].row)
      BY <3>2
    <3>3. CASE ~Lapsed(req[r].row)
      BY <3>1, <3>3
    <3> QED
      BY <3>2, <3>3
  <2> HIDE DEF new, pc
  <2> QED
    BY <1>2, <1>5, <2>1, <2>2, <2>3, <2>4
<1>7. CASE /\ req[r].pc = "spend" /\ ConsumeApproval(req[r].id, req[r].row.nonce)
           /\ spends' = spends \cup {[request |-> r, id |-> req[r].id, at |-> req[r].now]}
           /\ Goto(r, "forward") /\ UNCHANGED snapshots
  <2> DEFINE id  == req[r].id
             new == [req[r] EXCEPT !.pc = "forward"]
  <2>0. PICK s : s = [request |-> r, id |-> id, at |-> req[r].now]
    OBVIOUS
  <2>1. /\ id \in ApprovalIds /\ approvals[id].status = "approved"
        /\ approvals' = [approvals EXCEPT ![id].status = "consumed"]
    BY <1>1, <1>7 DEF ConsumeApproval, ConsumeWhere, Copied
  <2>2. RowsStay
    BY <2>1, StatusStays DEF Final
  <2>3. approvals[id] \in Rows
    BY <1>0, <2>1, RowTyped DEF Statuses
  <2>4. /\ approvals'[id].status = "consumed" /\ approvals'[id] # NoRow
        /\ approvals'[id].expires = req[r].row.expires
        /\ approvals'[id].key = RequestKey[r] /\ approvals'[id].impact = req[r].impact
    <3>1. approvals'[id].status = "consumed"
      BY <1>0, <2>1, <2>3 DEF TypeOK, ServiceTypeOK, StoreTypeOK, Rows
    <3> QED
      BY <1>1, <2>2, <3>1, CopiedStays
  <2>5. req[r].now <= req[r].row.expires
    BY <1>0, <1>7 DEF RequestFits, Carries
  <2>6. req'[r].pc = "forward" /\ req'[r].id = id /\ req'[r].impact = req[r].impact
    BY <1>0, <1>7, Becomes DEF Goto, Requested
  <2>7. s.request = r /\ s.id = id /\ s.at = req[r].now
    BY <2>0
  <2>8. spends' = spends \cup {s}
    BY <1>7, <2>0
  <2>14. /\ new.pc = "forward" /\ new.saved = req[r].saved /\ new.kind = req[r].kind
         /\ new.impact = req[r].impact /\ new.decision = req[r].decision
         /\ new.policy = req[r].policy /\ new.row = req[r].row /\ new.id = req[r].id
    BY <1>0 DEF Requested
  <2>15. Become(r, new)
    BY <1>7 DEF Goto
  <2> HIDE DEF id, new
  <2>9. SpendFits(s)'
    BY <2>4, <2>5, <2>6, <2>7 DEF SpendFits, Exists
  <2>10. \A t \in spends : t.id # id
    <3>1. \A t \in spends : SpendFits(t)
      BY DEF GInv
    <3> QED
      BY <2>1, <3>1 DEF SpendFits
  <2>11. SpentApart'
    BY <1>2, <2>7, <2>8, <2>10 DEF GInv, SpentApart
  <2>12. \A t \in spends' : t.request = r => t = s
    BY <1>2, <2>8
  <2>13. \A t \in spends' : t.request = r => SpendFits(t)'
    BY <2>9, <2>12
  <2> QED
    BY <1>2, <1>5, <1>7, <2>2, <2>7, <2>8, <2>11, <2>13, <2>14, <2>15
<1>8. CASE Spend(r)
  BY <1>3, <1>7, <1>8 DEF Spend, At
<1>9. CASE Consume(r) /\ req[r].gone
  BY <1>3, <1>9 DEF Consume
<1>10. CASE ConsumeLate(r) \/ ConsumeFails(r)
  BY <1>3, <1>4, <1>10 DEF ConsumeLate, ConsumeFails
<1> QED
  BY <1>6, <1>8, <1>9, <1>10

-----------------------------------------------------------------------------
(* The end of a request *)

\* refuse: the decision row of a request that is not forwarded, or none.
LEMMA RefuseFits == ASSUME GInv, TypeOK', AllTold', NEW r \in Requests, Refuse(r) PROVE GInv'
<1>0. /\ TypeOK /\ req[r] \in Requested /\ RequestFits(r) /\ req[r].pc = "refuse"
      /\ UNCHANGED <<storeVars, serviceVars, snapshots, sent, spends, crashes>>
      /\ Become(r, [req[r] EXCEPT !.pc = "respond"])
  BY DEF GInv, TypeOK, Refuse, At, Goto
<1>1. RowsStay /\ UNCHANGED <<approvals, clock>>
  BY <1>0, SameRows DEF storeVars, serviceVars
<1>2. r \notin snapshots /\ audit[r] = <<>> /\ Len(audit[r]) = 0
  BY <1>0, Fresh DEF Deciding
<1>3. r \notin sent /\ \A s \in spends : s.request # r
  BY <1>0, NotYet DEF Deciding
<1>4. req'[r].pc = "respond"
  BY <1>0, Becomes DEF Requested
<1>5. /\ Len(audit'[r]) <= 1 /\ (Len(audit'[r]) = 1 => audit'[r][1].kind = "decision")
      /\ Len(audit'[r]) \in Nat
      /\ \A q \in Requests \ {r} : audit'[q] = audit[q]
  <2>1. CASE UNCHANGED audit
    BY <1>2, <2>1
  <2>2. CASE Append1(r, "decision")
    <3>1. /\ Len(audit'[r]) = Len(audit[r]) + 1
          /\ audit'[r][Len(audit'[r])].kind = "decision"
          /\ \A q \in Requests \ {r} : audit'[q] = audit[q]
      BY <1>0, <2>2, OneMore
    <3>2. Len(audit'[r]) = 1
      BY <1>2, <3>1
    <3> QED
      BY <3>1, <3>2
  <2> QED
    BY <2>1, <2>2 DEF Refuse
<1>6. ForCause(r)' /\ Carries(r)'
  BY <1>4 DEF ForCause, Carries, Armed, Deciding
<1>7. Written(r)'
  BY <1>4, <1>5 DEF Written, Deciding
<1>8. Bundled(r)' /\ Cleared(r)'
  BY <1>0, <1>2, <1>3, <1>4 DEF Bundled, Cleared, Deciding
<1>9. SpentApart'
  BY <1>0 DEF GInv, SpentApart
<1>10. clock <= clock'
  BY <1>0, <1>1 DEF TypeOK, ServiceTypeOK
<1>11. RequestFits(r)'
  BY <1>6, <1>7, <1>8 DEF RequestFits
<1> QED
  BY <1>0, <1>1, <1>3, <1>5, <1>9, <1>10, <1>11, Framed

\* The request is handed to the reverse proxy.
LEMMA ForwardFits == ASSUME GInv, TypeOK', AllTold', NEW r \in Requests, Forward(r) PROVE GInv'
<1>0. /\ TypeOK /\ req[r] \in Requested /\ RequestFits(r) /\ req[r].pc = "forward"
      /\ UNCHANGED <<storeVars, serviceVars, audit, snapshots, spends, crashes>>
      /\ sent' \subseteq sent \cup {r} /\ sent \subseteq sent'
  BY DEF GInv, TypeOK, Forward, At
<1>1. RowsStay /\ UNCHANGED <<approvals, clock>>
  BY <1>0, SameRows DEF storeVars, serviceVars
<1>2. PICK new : /\ Become(r, new) /\ new.pc = "respond" /\ new.outcome # Null
                 /\ new.saved = req[r].saved /\ new.kind = req[r].kind
                 /\ new.impact = req[r].impact /\ new.decision = req[r].decision
                 /\ new.policy = req[r].policy /\ new.id = req[r].id
  <2>1. PICK outcome \in Outcomes \ {Null} :
          Become(r, [req[r] EXCEPT !.pc = "respond", !.outcome = outcome])
    BY DEF Forward
  <2> DEFINE new == [req[r] EXCEPT !.pc = "respond", !.outcome = outcome]
  <2>2. /\ new.pc = "respond" /\ new.outcome = outcome
        /\ new.saved = req[r].saved /\ new.kind = req[r].kind
        /\ new.impact = req[r].impact /\ new.decision = req[r].decision
        /\ new.policy = req[r].policy /\ new.id = req[r].id
    BY <1>0 DEF Requested
  <2>3. Become(r, new)
    BY <2>1
  <2> HIDE DEF new
  <2> QED
    BY <2>1, <2>2, <2>3
<1>3. /\ req'[r].pc = "respond" /\ req'[r].outcome # Null
      /\ req'[r].saved = req[r].saved /\ req'[r].kind = req[r].kind
      /\ req'[r].impact = req[r].impact /\ req'[r].decision = req[r].decision
      /\ req'[r].policy = req[r].policy /\ req'[r].id = req[r].id
  BY <1>0, <1>2, Becomes
<1>4. ForCause(r)' /\ Carries(r)'
  BY <1>3 DEF ForCause, Carries, Armed, Deciding
<1>5. Written(r)'
  BY <1>0, <1>3 DEF RequestFits, Written, Deciding
<1>6. Bundled(r)'
  BY <1>0, <1>3 DEF Bundled, Deciding
<1>7. Cleared(r)'
  BY <1>0, <1>3 DEF RequestFits, Cleared, OnRecord
<1>8. SpentApart'
  BY <1>0 DEF GInv, SpentApart
<1>9. clock <= clock'
  BY <1>0, <1>1 DEF TypeOK, ServiceTypeOK
<1>10. RequestFits(r)'
  BY <1>4, <1>5, <1>6, <1>7 DEF RequestFits
<1>11. ASSUME NEW s \in spends', s.request = r PROVE SpendFits(s)'
  BY <1>0, <1>1, <1>3, <1>11, SameSpend
<1>12. \A q \in Requests \ {r} : q \in sent' <=> q \in sent
  BY <1>0
<1> QED
  BY <1>0, <1>1, <1>2, <1>8, <1>9, <1>10, <1>11, <1>12, Framed

\* Complete: the result row, after the decision row or for want of one.
LEMMA CompleteFits == ASSUME GInv, TypeOK', AllTold', NEW r \in Requests, Complete(r) PROVE GInv'
<1>0. /\ TypeOK /\ req[r] \in Requested /\ RequestFits(r) /\ req[r].pc = "respond"
      /\ UNCHANGED <<storeVars, serviceVars, snapshots, sent, spends, crashes>>
      /\ Become(r, Ended(req[r], "done"))
  BY DEF GInv, TypeOK, Complete, At
<1>1. RowsStay /\ UNCHANGED <<approvals, clock>>
  BY <1>0, SameRows DEF storeVars, serviceVars
<1>2. req'[r] = Ended(req[r], "done")
  BY <1>0, Becomes
<1>3. /\ req'[r].pc = "done" /\ req'[r].saved = req[r].saved /\ req'[r].kind = req[r].kind
      /\ req'[r].impact = req[r].impact /\ req'[r].decision = req[r].decision
      /\ req'[r].policy = req[r].policy /\ req'[r].id = req[r].id
      /\ req'[r].outcome = req[r].outcome
  BY <1>0, <1>2 DEF Requested, Ended
<1>4. ForCause(r)' /\ Carries(r)'
  BY <1>3 DEF ForCause, Carries, Armed, Deciding
<1>5. /\ Len(audit[r]) \in Nat /\ Len(audit[r]) <= 1 /\ (Len(audit[r]) = 1 => audit[r][1].kind = "decision")
  BY <1>0 DEF RequestFits, Written, TypeOK
<1>6. /\ Len(audit'[r]) <= 2
      /\ Len(audit'[r]) = 2 => audit'[r][1].kind = "decision" /\ audit'[r][2].kind = "result"
      /\ Len(audit[r]) > 0 => Len(audit'[r]) > 0 /\ audit'[r][1] = audit[r][1]
      /\ \A q \in Requests \ {r} : audit'[q] = audit[q]
  <2>1. CASE UNCHANGED audit
    BY <1>5, <2>1
  <2>2. CASE Append1(r, "result")
    <3>1. /\ Len(audit'[r]) = Len(audit[r]) + 1
          /\ audit'[r][Len(audit'[r])].kind = "result"
          /\ Len(audit[r]) > 0 => audit'[r][1] = audit[r][1]
          /\ \A q \in Requests \ {r} : audit'[q] = audit[q]
      BY <1>0, <2>2, OneMore
    <3>2. ASSUME Len(audit'[r]) = 2 PROVE Len(audit[r]) = 1
      <4>1. Len(audit[r]) + 1 = 2
        BY <3>1, <3>2
      <4>2. \A n \in Nat : n + 1 = 2 => n = 1
        OBVIOUS
      <4>3. Len(audit[r]) \in Nat
        BY <1>5
      <4> QED
        BY <4>1, <4>2, <4>3
    <3> QED
      BY <1>5, <3>1, <3>2
  <2> QED
    BY <2>1, <2>2 DEF Complete
<1>7. Written(r)'
  BY <1>3, <1>6 DEF Written, Deciding
<1>8. Bundled(r)'
  BY <1>0, <1>3 DEF RequestFits, Bundled, Deciding
<1>9. Cleared(r)'
  BY <1>0, <1>3, <1>6 DEF RequestFits, Cleared, OnRecord
<1>10. SpentApart'
  BY <1>0 DEF GInv, SpentApart
<1>11. clock <= clock'
  BY <1>0, <1>1 DEF TypeOK, ServiceTypeOK
<1>12. RequestFits(r)'
  BY <1>4, <1>7, <1>8, <1>9 DEF RequestFits
<1>13. ASSUME NEW s \in spends', s.request = r PROVE SpendFits(s)'
  <2>1. s \in spends /\ SpendFits(s)
    BY <1>0, <1>13 DEF GInv
  <2>2. req'[r].outcome # Null
    BY <1>0, <1>3, <1>13, <2>1 DEF SpendFits
  <2> QED
    BY <1>1, <1>3, <1>13, <2>1, <2>2, SameSpend
<1> QED
  BY <1>0, <1>1, <1>6, <1>10, <1>11, <1>12, <1>13, Framed

\* A crash: what the tables and the disk hold is still what the lost requests
\* had put there.
LEMMA CrashFits == ASSUME GInv, TypeOK', AllTold', Crash PROVE GInv'
<1>0. /\ TypeOK /\ UNCHANGED <<storeVars, serviceVars, audit, snapshots, sent, spends>>
      /\ RowsStay /\ UNCHANGED clock /\ clock \in Nat
  BY SameRows DEF GInv, TypeOK, ServiceTypeOK, Crash, storeVars, serviceVars
<1>1. ASSUME NEW r \in Requests, req[r].pc \notin {"new", "done", "lost"}
      PROVE  /\ req'[r].pc = "lost" /\ req'[r].saved = req[r].saved /\ req'[r].kind = req[r].kind
             /\ req'[r].impact = req[r].impact /\ req'[r].decision = req[r].decision
             /\ req'[r].policy = req[r].policy /\ req'[r].id = req[r].id
  <2>1. req'[r] = Ended(req[r], "lost")
    BY <1>1 DEF Crash
  <2>2. req[r] \in Requested
    BY <1>0 DEF TypeOK
  <2> QED
    BY <2>1, <2>2 DEF Ended, Requested
<1>2. ASSUME NEW r \in Requests, req[r].pc \in {"new", "done", "lost"} PROVE req'[r] = req[r]
  BY <1>2 DEF Crash
<1>3. ASSUME NEW r \in Requests PROVE RequestFits(r)'
  <2>1. CASE req[r].pc \in {"new", "done", "lost"}
    BY <1>0, <1>2, <2>1, SameRequest
  <2>2. CASE req[r].pc \notin {"new", "done", "lost"}
    <3>1. RequestFits(r)
      BY DEF GInv
    <3>2. ForCause(r)' /\ Carries(r)'
      BY <1>1, <2>2 DEF ForCause, Carries, Armed, Deciding
    <3>3. Written(r)'
      BY <1>0, <1>1, <2>2, <3>1 DEF RequestFits, Written, Deciding
    <3>4. Bundled(r)'
      BY <1>1, <2>2 DEF Bundled, Deciding
    <3>5. Cleared(r)'
      BY <1>0, <1>1, <2>2, <3>1 DEF RequestFits, Cleared, OnRecord
    <3> QED
      BY <3>2, <3>3, <3>4, <3>5 DEF RequestFits
  <2> QED
    BY <2>1, <2>2
<1>4. ASSUME NEW s \in spends PROVE SpendFits(s)'
  <2>1. s.request \in Requests /\ SpendFits(s)
    BY <1>0 DEF GInv, TypeOK, Spends
  <2>2. CASE req[s.request].pc \in {"new", "done", "lost"}
    BY <1>0, <1>2, <2>1, <2>2, SameSpend DEF SpendFits
  <2>3. CASE req[s.request].pc \notin {"new", "done", "lost"}
    BY <1>0, <1>1, <2>1, <2>3, SameSpend
  <2> QED
    BY <2>2, <2>3
<1> QED
  BY <1>0, <1>3, <1>4 DEF GInv, RowsStay, SpentApart

\* The deciders and the clock.
LEMMA DecidersFit == ASSUME GInv, TypeOK', AllTold', DeciderNext, UNCHANGED gateVars PROVE GInv'
<1>1. RowsStay
  BY DecidersStay
<1>2. clock \in Nat /\ clock' \in Nat /\ clock <= clock'
  <2>1. clock \in Nat
    BY DEF GInv, TypeOK, ServiceTypeOK
  <2>2. clock' = clock \/ clock' = clock + 1
    BY DEF DeciderNext, BeginCall, LoadApprove, Mark, CheckFirst, Replace, Second, Lone, LoadDeny,
           DenyWrite, Abandon, NewApprover, Revoke, Tick, serviceVars
  <2> QED
    BY <2>1, <2>2
<1>3. UNCHANGED <<req, audit, snapshots, sent, spends>>
  BY DEF gateVars
<1>4. ASSUME NEW r \in Requests PROVE RequestFits(r)'
  BY <1>1, <1>2, <1>3, SameRequest
<1>5. ASSUME NEW s \in spends PROVE SpendFits(s)'
  BY <1>1, <1>3, SameSpend DEF GInv, SpendFits
<1> QED
  BY <1>1, <1>3, <1>4, <1>5 DEF GInv, RowsStay, SpentApart

-----------------------------------------------------------------------------
(* What the result row says *)

\* What happens before a request is handed to the proxy says nothing of how
\* it ends.
LEMMA NotToldYet ==
  ASSUME GInv, NEW r \in Requests,
         Arrive(r) \/ Progress(r) \/ ClientLeaves(r)
  PROVE  /\ req[r].pc \in Deciding \cup {"new", "forward"}
         /\ req'[r].outcome = req[r].outcome
         /\ sent' = sent
<1>0. req[r] \in Requested /\ TypeOK
  BY DEF GInv, TypeOK
<1>1. ASSUME NEW new, Become(r, new), new.outcome = req[r].outcome PROVE req'[r].outcome = req[r].outcome
  BY <1>0, <1>1, Becomes
<1>2. \A pc : [req[r] EXCEPT !.pc = pc].outcome = req[r].outcome
  BY <1>0 DEF Requested
<1>3. \A pc : [req[r] EXCEPT !.pc = pc, !.ticket = req[r].id].outcome = req[r].outcome
  BY <1>0 DEF Requested
<1>4. CASE Arrive(r)
  <2>1. /\ [req[r] EXCEPT !.pc = "refuse", !.kind = "unparseable", !.decision = "deny"].outcome = req[r].outcome
        /\ [req[r] EXCEPT !.pc = "forward", !.kind = "read", !.decision = "allow"].outcome = req[r].outcome
        /\ \A pc, impact, v :
             [req[r] EXCEPT !.pc = pc, !.kind = "write",
                            !.impact = impact, !.decision = v, !.policy = v].outcome = req[r].outcome
    BY <1>0 DEF Requested
  <2>2. \E new : Become(r, new) /\ new.outcome = req[r].outcome
    <3>1. \/ Become(r, [req[r] EXCEPT !.pc = "refuse", !.kind = "unparseable", !.decision = "deny"])
          \/ Become(r, [req[r] EXCEPT !.pc = "forward", !.kind = "read", !.decision = "allow"])
          \/ \E impact, v : Become(r, [req[r] EXCEPT !.pc = AfterPolicy(v), !.kind = "write",
                                        !.impact = impact, !.decision = v, !.policy = v])
      BY <1>4 DEF Arrive
    <3>2. CASE \E impact, v : Become(r, [req[r] EXCEPT !.pc = AfterPolicy(v), !.kind = "write",
                                         !.impact = impact, !.decision = v, !.policy = v])
      <4>1. PICK impact, v : Become(r, [req[r] EXCEPT !.pc = AfterPolicy(v), !.kind = "write",
                                         !.impact = impact, !.decision = v, !.policy = v])
        BY <3>2
      <4> DEFINE new == [req[r] EXCEPT !.pc = AfterPolicy(v), !.kind = "write",
                                       !.impact = impact, !.decision = v, !.policy = v]
      <4>2. Become(r, new) /\ new.outcome = req[r].outcome
        BY <2>1, <4>1
      <4> HIDE DEF new
      <4> QED
        BY <4>2
    <3> QED
      BY <2>1, <3>1, <3>2
  <2>3. req[r].pc = "new" /\ sent' = sent
    BY <1>4 DEF Arrive, At
  <2> QED
    BY <1>1, <2>2, <2>3
<1>5. CASE Verify(r)
  <2>1. \A id, row, answer : OnAnswer(req[r], id, row, answer).outcome = req[r].outcome
    BY <1>0 DEF OnAnswer, Requested
  <2>2. \E new : Become(r, new) /\ new.outcome = req[r].outcome
    <3>1. (\E pc : Goto(r, pc)) \/ \E id, row, answer : Become(r, OnAnswer(req[r], id, row, answer))
      BY <1>5 DEF Verify
    <3>2. CASE \E pc : Goto(r, pc)
      BY <1>2, <3>2 DEF Goto
    <3>3. CASE \E id, row, answer : Become(r, OnAnswer(req[r], id, row, answer))
      BY <2>1, <3>3
    <3> QED
      BY <3>1, <3>2, <3>3
  <2>3. req[r].pc \in Deciding /\ sent' = sent
    BY <1>5 DEF Verify, At, Deciding
  <2> QED
    BY <1>1, <2>2, <2>3
<1>6. CASE VerifyWrite(r) \/ StoreFails(r)
  <2>1. \A pc : [req[r] EXCEPT !.pc = pc, !.latest = Null, !.row = Null].outcome = req[r].outcome
    BY <1>0 DEF Requested
  <2>2. \E new : Become(r, new) /\ new.outcome = req[r].outcome
    BY <1>6, <2>1, ZenonT(60) DEF VerifyWrite, StoreFails
  <2>3. req[r].pc \in Deciding /\ sent' = sent
    BY <1>6 DEF VerifyWrite, StoreFails, At, Deciding
  <2> QED
    BY <1>1, <2>2, <2>3
<1>7. CASE Create(r)
  <2>1. \A pc, id :
          /\ [req[r] EXCEPT !.pc = pc, !.id = id, !.ticket = id].outcome = req[r].outcome
          /\ [req[r] EXCEPT !.pc = pc, !.id = id].outcome = req[r].outcome
    BY <1>0 DEF Requested
  <2> QED
    BY <1>1, <1>7, <2>1 DEF Create, At, Deciding
<1>8. CASE Poll(r) \/ WaitEnds(r)
  BY <1>1, <1>2, <1>3, <1>8 DEF Poll, WaitEnds, At, Deciding
<1>9. CASE Remeasure(r)
  <2>1. \A impact, v : OnRemeasured(req[r], impact, v).outcome = req[r].outcome
    BY <1>0 DEF OnRemeasured, Requested
  <2> QED
    BY <1>1, <1>3, <1>9, <2>1 DEF Remeasure, At, Deciding
<1>10. CASE Snapshot(r)
  <2>1. \A made : [req[r] EXCEPT !.pc = "record", !.saved = made].outcome = req[r].outcome
    BY <1>0 DEF Requested
  <2> QED
    BY <1>1, <1>2, <1>10, <2>1 DEF Snapshot, Take, Goto, At, Deciding
<1>11. CASE AuditDecision(r) \/ Spend(r) \/ ConsumeLate(r) \/ ConsumeFails(r) \/ Refuse(r)
  <2>1. (\E pc : Goto(r, pc)) /\ sent' = sent /\ req[r].pc \in Deciding
    BY <1>11 DEF AuditDecision, Spend, ConsumeLate, ConsumeFails, Refuse, NotForwarded, At, Deciding
  <2> QED
    BY <1>1, <1>2, <2>1 DEF Goto
<1>12. CASE Consume(r)
  <2>1. \A pc : [req[r] EXCEPT !.pc = pc, !.now = clock].outcome = req[r].outcome
    BY <1>0 DEF Requested
  <2> QED
    BY <1>1, <1>2, <1>12, <2>1 DEF Consume, NotForwarded, Goto, At, Deciding
<1>13. CASE ClientLeaves(r)
  <2>1. [req[r] EXCEPT !.gone = TRUE].outcome = req[r].outcome
    BY <1>0 DEF Requested
  <2> QED
    BY <1>1, <1>13, <2>1 DEF ClientLeaves
<1> QED
  BY <1>4, <1>5, <1>6, <1>7, <1>8, <1>9, <1>10, <1>11, <1>12, <1>13 DEF Progress

\* A request still being decided has no result row, before its step or after.
LEMMA NoResultYet ==
  ASSUME GInv, NEW r \in Requests, Arrive(r) \/ Progress(r) \/ ClientLeaves(r)
  PROVE  \A n \in DOMAIN audit'[r] : audit'[r][n].kind # "result"
<1>1. /\ TypeOK /\ Written(r) /\ audit[r] \in Seq(AuditRows)
      /\ req[r].pc \in Deciding \cup {"new", "forward"}
  BY NotToldYet DEF GInv, TypeOK, RequestFits
<1>2. CASE audit' = audit
  <2>1. Len(audit[r]) <= 1 /\ (Len(audit[r]) = 1 => audit[r][1].kind = "decision")
    BY <1>1 DEF Written, Deciding
  <2>2. ASSUME NEW n \in DOMAIN audit[r] PROVE n = 1 /\ Len(audit[r]) = 1
    <3>1. PICK m \in Nat : m = Len(audit[r]) /\ DOMAIN audit[r] = 1 .. m
      BY <1>1
    <3>2. m <= 1 /\ n \in 1 .. m
      BY <2>1, <2>2, <3>1
    <3>3. n = 1 /\ m = 1
      BY <3>2
    <3> QED
      BY <3>1, <3>3
  <2> QED
    BY <1>2, <2>1, <2>2
<1>3. CASE (AuditDecision(r) \/ Refuse(r)) /\ Append1(r, "decision")
  <2>1. audit[r] = <<>>
    BY <1>1, <1>3 DEF AuditDecision, Refuse, At, Written, Deciding
  <2>2. audit'[r] \in Seq(AuditRows) /\ Len(audit'[r]) = 1 /\ audit'[r][1].kind = "decision"
    <3>1. Len(audit'[r]) = Len(audit[r]) + 1 /\ audit'[r][Len(audit'[r])].kind = "decision"
      BY <1>1, <1>3, OneMore
    <3>2. audit' \in [Requests -> Seq(AuditRows)]
      BY <1>1, <1>3, AuditTypes
    <3> QED
      BY <2>1, <3>1, <3>2
  <2>3. DOMAIN audit'[r] = {1}
    BY <2>2
  <2> QED
    BY <2>2, <2>3
<1> QED
  BY <1>2, <1>3
  DEF Progress, Arrive, Verify, VerifyWrite, Create, StoreFails, Poll, WaitEnds, Remeasure, Snapshot,
      AuditDecision, Consume, Spend, ConsumeLate, ConsumeFails, Refuse, ClientLeaves

\* Every step of a request tells of it, and of no other request.
LEMMA StepTold ==
  ASSUME GInv, NEW r \in Requests,
         Arrive(r) \/ Progress(r) \/ Forward(r) \/ Complete(r) \/ ClientLeaves(r)
  PROVE  AllTold'
<1>0. TypeOK /\ req[r] \in Requested /\ Told(r) /\ Written(r) /\ audit[r] \in Seq(AuditRows)
  BY DEF GInv, AllTold, TypeOK, RequestFits
<1>1. ASSUME NEW q \in Requests \ {r} PROVE Told(q)'
  <2>1. /\ req'[q] = req[q] /\ audit'[q] = audit[q]
        /\ q \in sent' <=> q \in sent
    <3>1. \E new : Become(r, new)
      BY DEF Progress, Arrive, Verify, VerifyWrite, Create, StoreFails, Poll, WaitEnds, Remeasure, Snapshot, Take,
             AuditDecision, Consume, Spend, ConsumeLate, ConsumeFails, Refuse, NotForwarded, ClientLeaves,
             Forward, Complete, Goto
    <3>2. (\E kind : Append1(r, kind)) \/ audit' = audit
      BY DEF Progress, Arrive, Verify, VerifyWrite, Create, StoreFails, Poll, WaitEnds, Remeasure, Snapshot,
             AuditDecision, Consume, Spend, ConsumeLate, ConsumeFails, Refuse, ClientLeaves, Forward, Complete
    <3>3. sent' = sent \/ sent' = sent \cup {r}
      BY NotToldYet DEF Forward, Complete
    <3> QED
      BY <1>0, <1>1, <3>1, <3>2, <3>3 DEF Become, Append1, TypeOK
  <2> QED
    BY <1>1, <2>1 DEF GInv, AllTold, Told
<1>2. Told(r)'
  <2>1. CASE Arrive(r) \/ Progress(r) \/ ClientLeaves(r)
    BY <1>0, <2>1, NotToldYet, NoResultYet DEF Told
  <2>2. Forward(r) \/ Complete(r) =>
          Len(audit[r]) <= 1 /\ (Len(audit[r]) = 1 => audit[r][1].kind = "decision")
    BY <1>0 DEF Written, Forward, Complete, At
  <2>3. Forward(r) \/ Complete(r) => \A n \in DOMAIN audit[r] : n = 1 /\ audit[r][n].kind # "result"
    <3>1. PICK m \in Nat : m = Len(audit[r]) /\ DOMAIN audit[r] = 1 .. m
      BY <1>0
    <3> SUFFICES ASSUME Forward(r) \/ Complete(r), NEW n \in DOMAIN audit[r]
                 PROVE  n = 1 /\ audit[r][n].kind # "result"
      OBVIOUS
    <3>2. m <= 1 /\ n \in 1 .. m /\ (m = 1 => audit[r][1].kind = "decision")
      BY <2>2, <3>1
    <3>3. n = 1 /\ m = 1
      BY <3>2
    <3> QED
      BY <3>2, <3>3
  <2>4. CASE Forward(r)
    <3>1. PICK outcome \in Outcomes \ {Null} :
            /\ Become(r, [req[r] EXCEPT !.pc = "respond", !.outcome = outcome])
            /\ r \in sent' \/ outcome # "answered"
      BY <2>4 DEF Forward
    <3>2. req'[r].pc = "respond" /\ req'[r].outcome = outcome
      <4> DEFINE new == [req[r] EXCEPT !.pc = "respond", !.outcome = outcome]
      <4>1. new.pc = "respond" /\ new.outcome = outcome
        BY <1>0 DEF Requested
      <4> HIDE DEF new
      <4>2. req'[r] = new
        BY <1>0, <3>1, Becomes DEF new
      <4> QED
        BY <4>1, <4>2
    <3>3. audit' = audit
      BY <2>4 DEF Forward
    <3> QED
      BY <2>3, <2>4, <3>1, <3>2, <3>3 DEF Told, Deciding
  <2>5. CASE Complete(r)
    <3>1. req'[r] = Ended(req[r], "done") /\ sent' = sent
      BY <1>0, <2>5, Becomes DEF Complete
    <3>2. req'[r].pc = "done" /\ req'[r].outcome = req[r].outcome
      BY <1>0, <3>1 DEF Ended, Requested
    <3>3. ASSUME NEW n \in DOMAIN audit'[r], audit'[r][n].kind = "result"
          PROVE  audit'[r][n].outcome = req[r].outcome
      <4>1. CASE audit' = audit
        BY <2>3, <2>5, <3>3, <4>1
      <4>2. CASE Append1(r, "result")
        <5>1. /\ Len(audit'[r]) = Len(audit[r]) + 1
              /\ audit'[r][Len(audit'[r])].outcome = req[r].outcome
              /\ Len(audit[r]) > 0 => audit'[r][1] = audit[r][1]
          BY <1>0, <4>2, OneMore
        <5>2. audit'[r] \in Seq(AuditRows)
          BY <1>0, <4>2, AuditTypes
        <5>3. n \in 1 .. Len(audit'[r])
          BY <3>3, <5>2
        <5>4. n = Len(audit'[r]) \/ (n = 1 /\ Len(audit[r]) > 0)
          BY <1>0, <2>2, <2>5, <5>1, <5>3
        <5> QED
          BY <1>0, <2>3, <2>5, <3>3, <5>1, <5>4
      <4> QED
        BY <2>5, <4>1, <4>2 DEF Complete
    <3> QED
      BY <1>0, <3>1, <3>2, <3>3 DEF Told, Deciding
  <2> QED
    BY <2>1, <2>4, <2>5
<1> QED
  BY <1>1, <1>2 DEF AllTold

\* The deciders and a crash change nothing of what was told.
LEMMA OthersTold ==
  ASSUME GInv, Crash \/ (DeciderNext /\ UNCHANGED gateVars) \/ UNCHANGED vars
  PROVE  AllTold'
<1> SUFFICES ASSUME NEW r \in Requests PROVE Told(r)'
  BY DEF AllTold
<1>0. req[r] \in Requested /\ Told(r)
  BY DEF GInv, AllTold, TypeOK
<1>1. audit' = audit /\ sent' = sent
  BY DEF Crash, vars, gateVars
<1>2. /\ req'[r].outcome = req[r].outcome
      /\ req'[r].pc = req[r].pc \/ req'[r].pc = "lost"
  <2>1. req'[r] = req[r] \/ req'[r] = Ended(req[r], "lost")
    BY DEF Crash, vars, gateVars
  <2> QED
    BY <1>0, <2>1 DEF Ended, Requested
<1> QED
  BY <1>0, <1>1, <1>2 DEF Told, Deciding

-----------------------------------------------------------------------------
(* The theorems *)

\* The invariant holds before any request.
LEMMA InitFits == Init => GInv
<1> SUFFICES ASSUME Init PROVE GInv
  OBVIOUS
<1>1. TypeOK
  BY InitTyped
<1>5. AllTold
  <2> SUFFICES ASSUME NEW r \in Requests PROVE Told(r)
    BY DEF AllTold
  <2>1. req[r].outcome = Null /\ audit[r] = <<>> /\ sent = {}
    BY DEF Init, NewRequest
  <2>2. DOMAIN audit[r] = {}
    BY <2>1
  <2> QED
    BY <2>1, <2>2, GateAssumption DEF Told
<1>2. \A id \in ApprovalIds : RowSigned(id)
  BY DEF Init, ServiceInit, StoreInit, RowSigned, Exists
<1>3. ASSUME NEW r \in Requests PROVE RequestFits(r)
  <2>1. req[r].pc = "new" /\ req[r].row = Null
    BY DEF Init, NewRequest
  <2>2. audit[r] = <<>> /\ Len(audit[r]) = 0 /\ snapshots = {} /\ sent = {}
    BY DEF Init
  <2>3. ForCause(r) /\ Carries(r)
    BY <2>1 DEF ForCause, Carries, Armed, Deciding
  <2>4. Written(r)
    BY <2>1, <2>2 DEF Written
  <2>5. Bundled(r) /\ Cleared(r)
    BY <2>1, <2>2 DEF Bundled, Cleared
  <2> QED
    BY <2>3, <2>4, <2>5 DEF RequestFits
<1>4. spends = {}
  BY DEF Init
<1> QED
  BY <1>1, <1>2, <1>3, <1>4, <1>5 DEF GInv, SpentApart

\* Every step keeps it.
LEMMA StepFits == GInv /\ [Next]_vars => GInv' /\ TypeOK'
<1> SUFFICES ASSUME GInv, [Next]_vars PROVE GInv' /\ TypeOK'
  OBVIOUS
<1>0. TypeOK' /\ AllTold'
  BY StepTyped, StepTold, OthersTold, Steps
<1>1. ASSUME NEW r \in Requests,
             Arrive(r) \/ Progress(r) \/ Forward(r) \/ Complete(r) \/ ClientLeaves(r)
      PROVE  GInv'
  BY <1>0, <1>1, ArriveFits, VerifyFits, CreateFits, WaitFits, SnapshotFits, RecordFits, ConsumeFits,
     RefuseFits, ForwardFits, CompleteFits, LeaveFits DEF Progress
<1>2. CASE UNCHANGED vars
  <2>1. RowsStay
    BY <1>2, SameRows DEF vars, storeVars
  <2>2. UNCHANGED <<req, audit, snapshots, sent, spends, clock>>
    BY <1>2 DEF vars, serviceVars, gateVars
  <2>3. clock \in Nat
    BY DEF GInv, TypeOK, ServiceTypeOK
  <2>4. ASSUME NEW r \in Requests PROVE RequestFits(r)'
    BY <2>1, <2>2, <2>3, SameRequest
  <2>5. ASSUME NEW s \in spends PROVE SpendFits(s)'
    BY <2>1, <2>2, SameSpend DEF GInv, SpendFits
  <2> QED
    BY <1>0, <2>1, <2>2, <2>4, <2>5 DEF GInv, RowsStay, SpentApart
<1> QED
  BY <1>0, <1>1, <1>2, Steps, DecidersFit, CrashFits

\* The invariant, along every behaviour.
LEMMA Fits == Spec => []GInv
BY InitFits, StepFits, PTL DEF Spec

\* Tables, requests, audit rows, snapshots and spends keep their types,
\* whatever runs beside what and wherever the process dies.
THEOREM GateTypeCorrect == Spec => []TypeOK
<1>1. GInv => TypeOK
  BY DEF GInv
<1> QED
  BY <1>1, Fits, PTL

\* A held write is forwarded only by spending one live approval of its own
\* session and digest for what it measured last; no other request ever
\* spends that approval.
THEOREM ForwardedAsApprovedHolds == Spec => []ForwardedAsApproved
<1>1. GInv => ForwardedAsApproved
  <2> SUFFICES ASSUME GInv, NEW r \in sent, req[r].kind = "write"
               PROVE  /\ req[r].policy # "deny"
                      /\ req[r].decision = "hold" =>
                           \E s \in spends :
                             /\ SpentBy(r) = {s}
                             /\ approvals[s.id].status = "consumed"
                             /\ approvals[s.id].key = RequestKey[r]
                             /\ approvals[s.id].impact = req[r].impact
                             /\ s.at <= approvals[s.id].expires
                             /\ \A t \in spends : t.id = s.id => t = s
    BY DEF ForwardedAsApproved
  <2>1. Cleared(r)
    BY DEF GInv, TypeOK, RequestFits
  <2>2. req[r].policy # "deny"
    BY <2>1 DEF Cleared
  <2>3. ASSUME req[r].decision = "hold"
        PROVE  \E s \in spends :
                 /\ SpentBy(r) = {s}
                 /\ approvals[s.id].status = "consumed"
                 /\ approvals[s.id].key = RequestKey[r]
                 /\ approvals[s.id].impact = req[r].impact
                 /\ s.at <= approvals[s.id].expires
                 /\ \A t \in spends : t.id = s.id => t = s
    <3>1. PICK s \in spends : s.request = r
      BY <2>1, <2>3 DEF Cleared
    <3>2. SpendFits(s)
      BY DEF GInv
    <3>3. \A t \in spends : t.id = s.id \/ t.request = r => t = s
      BY <3>1 DEF GInv, SpentApart
    <3>4. SpentBy(r) = {s}
      BY <3>1, <3>3 DEF SpentBy
    <3> WITNESS s \in spends
    <3> QED
      BY <3>1, <3>2, <3>3, <3>4 DEF SpendFits
  <2> QED
    BY <2>2, <2>3
<1> QED
  BY <1>1, Fits, PTL

\* What is sent is on record before it is sent, naming the approval that was
\* spent, with its snapshot on disk wherever it must have one; and the result
\* row never tells an answer of a write that was not sent, nor a refusal of
\* one that was.
THEOREM RecordedBeforeForwardHolds == Spec => []RecordedBeforeForward
<1>1. GInv => RecordedBeforeForward
  <2> SUFFICES ASSUME GInv, NEW r \in Requests
               PROVE  /\ Len(audit[r]) <= 2
                      /\ Len(audit[r]) = 2 => audit[r][1].kind = "decision" /\ audit[r][2].kind = "result"
                      /\ r \in sent /\ req[r].kind = "write" =>
                           /\ Len(audit[r]) > 0
                           /\ audit[r][1].kind = "decision"
                           /\ \A s \in SpentBy(r) : audit[r][1].id = s.id
                           /\ Bundle[req[r].impact] = {TRUE} => audit[r][1].saved
                           /\ audit[r][1].saved <=> r \in snapshots
                      /\ \A n \in DOMAIN audit[r] : audit[r][n].kind = "result" =>
                           /\ audit[r][n].outcome = "answered" => r \in sent
                           /\ audit[r][n].outcome = Null => r \notin sent
    BY DEF RecordedBeforeForward
  <2>1. Written(r) /\ Cleared(r)
    BY DEF GInv, RequestFits
  <2>2. \A s \in SpentBy(r) : s.id = req[r].id
    BY DEF GInv, SpentBy, SpendFits
  <2>3. Told(r)
    BY DEF GInv, AllTold
  <2>4. \A n \in DOMAIN audit[r] : audit[r][n].kind = "result" =>
          /\ audit[r][n].outcome = "answered" => r \in sent
          /\ audit[r][n].outcome = Null => r \notin sent
    BY <2>3 DEF Told
  <2> QED
    BY <2>1, <2>2, <2>4 DEF Written, Cleared, OnRecord
<1> QED
  BY <1>1, Fits, PTL

\* What became of a request that was handed to the proxy.
LEMMA SentOrInDoubt ==
  ASSUME GInv, NEW r \in Requests, req[r].outcome # Null PROVE r \in sent \/ InDoubt(r)
<1>1. Told(r) /\ req[r].outcome \in Outcomes
  BY DEF GInv, AllTold, TypeOK, Requested
<1> QED
  BY <1>1 DEF Told, InDoubt, Outcomes

\* No snapshot outlives the answer of a request the gate refused: one that
\* stays is of a write that was sent, or was handed to the proxy for a client
\* that left or an API server that was not reached.
THEOREM NoStraySnapshotHolds == Spec => []NoStraySnapshot
<1>1. GInv => NoStraySnapshot
  BY SentOrInDoubt DEF GInv, RequestFits, Bundled, NoStraySnapshot
<1> QED
  BY <1>1, Fits, PTL

\* A request that spent an approval is handed to the API server: the approval
\* is lost without a write only with the process, to a client that leaves
\* after the spend, or to an API server that is not reached.
THEOREM NoYesWastedHolds == Spec => []NoYesWasted
<1>1. GInv => NoYesWasted
  <2> SUFFICES ASSUME GInv, NEW s \in spends
               PROVE  \/ s.request \in sent
                      \/ req[s.request].pc \in {"forward", "lost"}
                      \/ InDoubt(s.request)
    BY DEF NoYesWasted
  <2>1. s.request \in Requests /\ SpendFits(s)
    BY DEF GInv, TypeOK, Spends
  <2> QED
    BY <2>1, SentOrInDoubt DEF SpendFits
<1> QED
  BY <1>1, Fits, PTL

-----------------------------------------------------------------------------
(* The action property *)

\* A status write touches the row it names only, and only in the status its
\* writer read.
LEMMA OneRow ==
  ASSUME GInv, NEW id \in ApprovalIds, NEW i, NEW from, NEW to, WriteStatus(i, from, to),
         approvals'[id] # approvals[id], approvals[id].status = "approved"
  PROVE  i = id /\ from = "approved" /\ approvals'[id].status = to
<1>1. approvals \in [ApprovalIds -> Rows \cup {NoRow}]
  BY DEF GInv, TypeOK, ServiceTypeOK, StoreTypeOK
<1>2. SetApprovalStatus(i, from, to)
  BY DEF WriteStatus, storeVars
<1>3. approvals[i].status = from /\ approvals' = [approvals EXCEPT ![i].status = to]
  BY <1>2 DEF SetApprovalStatus, StatusWhere
<1>4. i = id
  BY <1>1, <1>3
<1>5. approvals[id] \in Rows
  BY <1>1 DEF NoRow
<1> QED
  BY <1>1, <1>3, <1>4, <1>5 DEF Rows

\* What the gate does to an approval it does for cause, whatever its copy of
\* the row has missed meanwhile: an approval expires only once it has lapsed,
\* is superseded only by a request of its key that measured another impact,
\* and is spent only by a request on its way to the API server.
THEOREM ApprovalsKeptUnlessUsedHolds == Spec => ApprovalsKeptUnlessUsed
<1> DEFINE Kept(id) ==
      LET row == approvals[id]
          new == approvals'[id]
      IN Exists(id) /\ row.status = "approved" /\ new # row =>
           \/ new.status = "expired" /\ Lapsed(row)
           \/ /\ new.status = "superseded"
              /\ \E r \in Requests : req[r].pc = "supersede" /\ req[r].impact # row.impact /\ RequestKey[r] = row.key
           \/ /\ new.status = "consumed"
              /\ \E r \in Requests : req[r].pc = "spend" /\ req'[r].pc = "forward"
<1>1. ASSUME GInv, [Next]_vars, NEW id \in ApprovalIds PROVE Kept(id)
  <2> SUFFICES ASSUME Exists(id), approvals[id].status = "approved", approvals'[id] # approvals[id]
               PROVE  Kept(id)
    OBVIOUS
  <2>0. TypeOK
    BY <1>1 DEF GInv
  <2>1. CASE DeciderNext
    <3>1. DecidedRow(id)
      BY <2>0, <2>1, DecidersDecide DEF TypeOK
    <3> QED
      BY <3>1 DEF DecidedRow, Waiting
  <2>2. CASE Crash \/ UNCHANGED vars
    BY <2>2 DEF Crash, vars, storeVars
  <2>3. ASSUME NEW r \in Requests,
               Arrive(r) \/ Progress(r) \/ Forward(r) \/ Complete(r) \/ ClientLeaves(r)
        PROVE  Kept(id)
    <3>0. ForCause(r) /\ Carries(r) /\ req[r] \in Requested
      BY <1>1, <2>0 DEF GInv, RequestFits, TypeOK
    <3>1. CASE UNCHANGED storeVars
      BY <3>1 DEF storeVars
    <3>2. CASE Create(r)
      <4>1. PICK i \in ApprovalIds : CreatePending(i, RequestKey[r], req[r].impact)
        BY <3>2 DEF Create
      <4>2. i # id /\ approvals' = [approvals EXCEPT ![i] = approvals'[i]]
        BY <4>1, <2>0 DEF CreatePending, CreateApproval, TypeOK, ServiceTypeOK, StoreTypeOK
      <4> QED
        BY <2>0, <4>2 DEF TypeOK, ServiceTypeOK, StoreTypeOK
    <3>3. CASE VerifyWrite(r) /\ req[r].pc = "expire"
      <4>1. WriteStatus(req[r].latest, req[r].row.status, "expired")
        BY <3>3 DEF VerifyWrite, At
      <4>2. req[r].latest = id /\ req[r].row.status = "approved" /\ approvals'[id].status = "expired"
        BY <1>1, <4>1, OneRow
      <4>3. Lapsed(req[r].row) /\ req[r].row.expires = approvals[id].expires
        BY <3>0, <3>3, <4>2 DEF ForCause, Copied
      <4> QED
        BY <4>2, <4>3 DEF Lapsed
    <3>4. CASE VerifyWrite(r) /\ req[r].pc = "supersede"
      <4>1. WriteStatus(req[r].latest, "approved", "superseded")
        BY <3>4 DEF VerifyWrite, At
      <4>2. req[r].latest = id /\ approvals'[id].status = "superseded"
        BY <1>1, <4>1, OneRow
      <4> QED
        BY <3>0, <3>4, <4>2 DEF ForCause
    <3>5. CASE ConsumeLate(r)
      <4>1. WriteStatus(req[r].id, "approved", "expired") /\ req[r].pc = "expireLate"
        BY <3>5 DEF ConsumeLate, At
      <4>2. req[r].id = id /\ approvals'[id].status = "expired"
        BY <1>1, <4>1, OneRow
      <4>3. Lapsed(req[r].row) /\ req[r].row.expires = approvals[id].expires
        BY <3>0, <4>1, <4>2 DEF ForCause, Carries, Armed, Copied
      <4> QED
        BY <4>2, <4>3 DEF Lapsed
    <3>6. CASE /\ req[r].pc = "spend" /\ Goto(r, "forward")
               /\ ConsumeApproval(req[r].id, req[r].row.nonce)
      <4>1. req'[r].pc = "forward"
        BY <2>0, <3>0, <3>6, Becomes DEF Goto, Requested
      <4>2. approvals' = [approvals EXCEPT ![req[r].id].status = "consumed"]
        BY <3>6 DEF ConsumeApproval
      <4>3. approvals[id] \in Rows
        BY <2>0, RowTyped
      <4>4. approvals'[id].status = "consumed"
        BY <2>0, <4>2, <4>3 DEF TypeOK, ServiceTypeOK, StoreTypeOK, Rows
      <4> QED
        BY <3>6, <4>1, <4>4
    <3>7. CASE Spend(r)
      BY <3>1, <3>6, <3>7 DEF Spend, At
    <3>8. CASE Arrive(r) \/ Verify(r) \/ StoreFails(r) \/ Poll(r) \/ WaitEnds(r) \/ Remeasure(r)
               \/ Snapshot(r) \/ AuditDecision(r) \/ Consume(r) \/ ConsumeFails(r) \/ Refuse(r)
               \/ Forward(r) \/ Complete(r) \/ ClientLeaves(r)
      BY <3>1, <3>8
      DEF Arrive, Verify, StoreFails, Poll, WaitEnds, Remeasure, Snapshot, AuditDecision, Consume,
          ConsumeFails, Refuse, Forward, Complete, ClientLeaves
    <3> QED
      BY <2>3, <3>2, <3>3, <3>4, <3>5, <3>7, <3>8 DEF Progress, VerifyWrite, At
  <2> QED
    BY <1>1, <2>1, <2>2, <2>3, Steps
<1>2. GInv /\ [Next]_vars => [\A id \in ApprovalIds : Kept(id)]_vars
  BY <1>1
<1> QED
  BY <1>2, Fits, PTL DEF Spec, ApprovalsKeptUnlessUsed
=============================================================================
