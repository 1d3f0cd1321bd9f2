----------------------------- MODULE ServiceProofs -----------------------------
(***************************************************************************)
(* What TLAPS proves of ApprovalService on its own, for every number of     *)
(* approvals, accounts and callers: its transactions and the deciders keep  *)
(* the types of its tables, and what a decider may do to a row.  Approvals  *)
(* and Gate both run these deciders beside steps of their own, and their    *)
(* proofs rest on these lemmas.                                             *)
(***************************************************************************)
EXTENDS ApprovalService, SequenceTheorems, TLAPS

\* What a row is once people have agreed to it.
Decisive == {"approved", "consumed", "superseded", "expired"}

\* An approver, as either caller of the service makes one.
LEMMA ApproverFields ==
  \A by \in Approver :
    /\ by.account \in Accounts \cup {Null}
    /\ by.name \in Names
    /\ by.account # Null => by = UiApprover(by.account)
BY ServiceAssumption, NamesAssumption, NullAssumption DEF Approver, UiApprover, CliApprover

\* A row with a status a row can have is a row: NoRow has another.
LEMMA RowInTable ==
  ASSUME ServiceTypeOK, NEW id \in ApprovalIds
  PROVE  /\ approvals[id].status \in Statuses => approvals[id] \in Rows /\ Exists(id)
         /\ Exists(id) => approvals[id] \in Rows
BY DEF ServiceTypeOK, StoreTypeOK, Rows, NoRow, Exists, Statuses, Waiting, Final

-----------------------------------------------------------------------------
(* Types *)

\* The empty database has its types.
LEMMA ServiceInitTyped == ServiceInit => ServiceTypeOK
BY ServiceAssumption, NullAssumption DEF ServiceInit, StoreInit, ServiceTypeOK, StoreTypeOK

\* One transaction: the tables keep their types.
LEMMA DecideTyped ==
  ASSUME ServiceTypeOK,
         NEW id \in ApprovalIds, NEW status \in {"approved", "denied"}, NEW by \in Names,
         NEW nonce \in Nat, NEW token \in Tokens \cup {Null}, NEW expires \in Nat,
         Exists(id), decide(id, status, by, nonce, token, expires)
  PROVE  StoreTypeOK'
<1>1. approvals[id] \in Rows
  BY RowInTable
<1>2. approvals' \in [ApprovalIds -> Rows \cup {NoRow}]
  BY <1>1 DEF ServiceTypeOK, StoreTypeOK, decide, Rows, Statuses, Waiting, Final
<1>3. [status |-> status, first |-> Null] \in Events
  BY DEF Events
<1>4. outbox' \in [ApprovalIds -> Seq(Events)]
  BY <1>3 DEF ServiceTypeOK, StoreTypeOK, decide, Record
<1> QED
  BY <1>2, <1>4 DEF ServiceTypeOK, StoreTypeOK, decide

\* CreateApproval writes a row of the schema.
LEMMA CreateTyped ==
  ASSUME ServiceTypeOK,
         NEW id \in ApprovalIds, NEW k \in Keys, NEW impact \in Impacts,
         NEW now \in Nat, NEW expires \in Nat, CreateApproval(id, k, impact, now, expires)
  PROVE  StoreTypeOK'
<1>1. approvals' \in [ApprovalIds -> Rows \cup {NoRow}]
  BY DEF ServiceTypeOK, StoreTypeOK, CreateApproval, Rows, Statuses, Waiting
<1>2. [status |-> "pending", first |-> Null] \in Events
  BY DEF Events, Waiting
<1>3. outbox' \in [ApprovalIds -> Seq(Events)]
  BY <1>2 DEF ServiceTypeOK, StoreTypeOK, CreateApproval, Record
<1> QED
  BY <1>1, <1>3 DEF ServiceTypeOK, StoreTypeOK, CreateApproval

\* So do the two writes of a first approver.
LEMMA FirstTyped ==
  ASSUME ServiceTypeOK, NEW id \in ApprovalIds, NEW by \in Accounts \cup {Null}, NEW name \in Names, NEW first,
         \/ MarkPartiallyApproved(id, by, name)
         \/ ReplaceFirstApprover(id, first, by, name)
  PROVE  StoreTypeOK'
<1>1. approvals[id] \in Rows
  BY RowInTable DEF MarkPartiallyApproved, MarkWhere, ReplaceFirstApprover, ReplaceWhere, Statuses, Waiting
<1>2. approvals' \in [ApprovalIds -> Rows \cup {NoRow}]
  <2>1. CASE MarkPartiallyApproved(id, by, name)
    BY <1>1, <2>1 DEF ServiceTypeOK, StoreTypeOK, MarkPartiallyApproved, Rows, Statuses, Waiting
  <2>2. CASE ReplaceFirstApprover(id, first, by, name)
    BY <1>1, <2>2 DEF ServiceTypeOK, StoreTypeOK, ReplaceFirstApprover, Rows
  <2> QED
    BY <2>1, <2>2
<1>3. [status |-> "partially_approved", first |-> name] \in Events
  BY DEF Events, Waiting
<1>4. Record(id, "partially_approved", name)
  BY DEF MarkPartiallyApproved, ReplaceFirstApprover
<1>5. outbox' \in [ApprovalIds -> Seq(Events)]
  BY <1>3, <1>4 DEF ServiceTypeOK, StoreTypeOK, Record
<1> QED
  BY <1>2, <1>5 DEF ServiceTypeOK, StoreTypeOK, MarkPartiallyApproved, ReplaceFirstApprover

\* So does SetApprovalStatus.
LEMMA StatusTyped ==
  ASSUME ServiceTypeOK, NEW id \in ApprovalIds, NEW from \in Statuses, NEW to \in Statuses,
         SetApprovalStatus(id, from, to)
  PROVE  StoreTypeOK'
<1>1. approvals[id] \in Rows
  BY RowInTable DEF SetApprovalStatus, StatusWhere
<1> QED
  BY <1>1 DEF ServiceTypeOK, StoreTypeOK, SetApprovalStatus, Rows

\* So does ConsumeApproval.
LEMMA ConsumeTyped ==
  ASSUME ServiceTypeOK, NEW id \in ApprovalIds, NEW nonce \in Nat, ConsumeApproval(id, nonce)
  PROVE  StoreTypeOK'
<1>1. approvals[id] \in Rows
  BY RowInTable DEF ConsumeApproval, ConsumeWhere, Statuses
<1> QED
  BY <1>1 DEF ServiceTypeOK, StoreTypeOK, ConsumeApproval, Rows, Statuses, Final

\* The steps of the deciders.
LEMMA DeciderTyped == ServiceTypeOK /\ DeciderNext => ServiceTypeOK'
<1> SUFFICES ASSUME ServiceTypeOK, DeciderNext PROVE ServiceTypeOK'
  OBVIOUS
<1> USE DEF ServiceTypeOK
<1>1. ASSUME NEW p \in Callers, NEW verb \in {"approve", "deny"}, NEW by \in Approver,
             NEW id \in ApprovalIds, NEW signedIn \in 0 .. clock, BeginCall(p, verb, by, id, signedIn)
      PROVE  ServiceTypeOK'
  BY <1>1 DEF BeginCall, Calls, CallPcs, storeVars, StoreTypeOK
<1>2. ASSUME NEW p \in Callers, call[p].pc \in CallPcs
      PROVE  /\ call[p] \in Calls /\ call[p].id \in ApprovalIds /\ call[p].by \in Approver
             /\ call[p].by.account \in Accounts \cup {Null} /\ call[p].by.name \in Names
             /\ call[p].now \in Nat
             /\ [call EXCEPT ![p] = NoCall] \in [Callers -> Calls \cup {NoCall}]
  BY <1>2, ApproverFields DEF Calls, NoCall, CallPcs
<1>3. ASSUME NEW p \in Callers, LoadApprove(p) PROVE ServiceTypeOK'
  <2>1. call[p] \in Calls
    BY <1>2, <1>3 DEF LoadApprove, CallPcs
  <2>2. CASE call'[p] = NoCall
    BY <1>3, <2>2 DEF LoadApprove, storeVars, StoreTypeOK
  <2>3. CASE ~ApproveRefuses(call[p].by, call[p].signedIn, approvals[call[p].id])
    <3>1. approvals[call[p].id] \in Rows
      BY <2>1, <2>3, RowInTable DEF ApproveRefuses, Decidable, Statuses, Calls
    <3> QED
      BY <1>3, <2>1, <2>3, <3>1 DEF LoadApprove, storeVars, StoreTypeOK, Calls, CallPcs, Rows, ApproveNext
  <2> QED
    BY <1>3, <2>2, <2>3 DEF LoadApprove
<1>4. ASSUME NEW p \in Callers, Mark(p) PROVE ServiceTypeOK'
  <2>1. StoreTypeOK'
    BY <1>2, <1>4, FirstTyped DEF Mark, CallPcs, storeVars, StoreTypeOK
  <2> QED
    BY <1>2, <1>4, <2>1 DEF Mark, Return, CallPcs
<1>5. ASSUME NEW p \in Callers, CheckFirst(p) PROVE ServiceTypeOK'
  <2>1. call[p] \in Calls
    BY <1>2, <1>5 DEF CheckFirst, CallPcs
  <2> QED
    BY <1>5, <2>1 DEF CheckFirst, storeVars, StoreTypeOK, Calls, CallPcs
<1>6. ASSUME NEW p \in Callers, Replace(p) PROVE ServiceTypeOK'
  <2>1. StoreTypeOK'
    BY <1>2, <1>6, FirstTyped DEF Replace, CallPcs, storeVars, StoreTypeOK
  <2> QED
    BY <1>2, <1>6, <2>1 DEF Replace, Return, CallPcs
<1>7. ASSUME NEW id \in ApprovalIds, NEW expires \in Nat, approvals[id] \in Rows
      PROVE  MintedToken(id, expires) \in Tokens
  BY <1>7, ServiceAssumption DEF MintedToken, TokenOf, Nonce, Tokens, Rows
<1>8. Nonce \in Nat /\ \A now \in Nat : now + TokenTTL \in Nat /\ now + PendingTTL \in Nat
  BY ServiceAssumption DEF Nonce
<1>9. ASSUME NEW p \in Callers, Second(p) PROVE ServiceTypeOK'
  <2>1. /\ call[p] \in Calls /\ call[p].id \in ApprovalIds /\ call[p].by \in Approver
        /\ call[p].now \in Nat
    BY <1>2, <1>9 DEF Second, CallPcs
  <2>2. StoreTypeOK'
    <3>1. CASE ApproveSecond(call[p].id, call[p].first, call[p].by.account, Nonce,
                             MintedToken(call[p].id, call[p].now + TokenTTL), call[p].now + TokenTTL)
      <4>1. approvals[call[p].id] \in Rows /\ Exists(call[p].id)
        BY <2>1, <3>1, RowInTable DEF ApproveSecond, ApproveSecondWhere, Statuses, Waiting
      <4>2. AccountName[call[p].by.account] \in Names
        BY <3>1, NamesAssumption DEF ApproveSecond, ApproveSecondWhere, Live
      <4> QED
        BY <1>7, <1>8, <2>1, <3>1, <4>1, <4>2, DecideTyped DEF ApproveSecond
    <3>2. CASE UNCHANGED storeVars
      BY <3>2 DEF storeVars, StoreTypeOK
    <3> QED
      BY <1>9, <3>1, <3>2 DEF Second
  <2> QED
    BY <1>2, <1>9, <2>1, <2>2 DEF Second, Return, CallPcs, Decided
<1>10. ASSUME NEW p \in Callers, Lone(p) PROVE ServiceTypeOK'
  <2>1. /\ call[p] \in Calls /\ call[p].id \in ApprovalIds /\ call[p].by \in Approver
        /\ call[p].by.name \in Names /\ call[p].now \in Nat
    BY <1>2, <1>10 DEF Lone, CallPcs
  <2>2. StoreTypeOK'
    <3>1. CASE DecideApproval(call[p].id, "approved", call[p].by.name, Nonce,
                              MintedToken(call[p].id, call[p].now + TokenTTL), call[p].now + TokenTTL)
      <4>1. approvals[call[p].id] \in Rows /\ Exists(call[p].id)
        BY <2>1, <3>1, RowInTable DEF DecideApproval, DecideWhere, Statuses, Waiting
      <4> QED
        BY <1>7, <1>8, <2>1, <3>1, <4>1, DecideTyped DEF DecideApproval
    <3>2. CASE UNCHANGED storeVars
      BY <3>2 DEF storeVars, StoreTypeOK
    <3> QED
      BY <1>10, <3>1, <3>2 DEF Lone
  <2> QED
    BY <1>2, <1>10, <2>1, <2>2 DEF Lone, Return, CallPcs, Decided
<1>11. ASSUME NEW p \in Callers, LoadDeny(p) PROVE ServiceTypeOK'
  <2>1. call[p] \in Calls
    BY <1>2, <1>11 DEF LoadDeny, CallPcs
  <2> QED
    BY <1>11, <2>1 DEF LoadDeny, storeVars, StoreTypeOK, Calls, CallPcs
<1>12. ASSUME NEW p \in Callers, DenyWrite(p) PROVE ServiceTypeOK'
  <2>1. /\ call[p] \in Calls /\ call[p].id \in ApprovalIds /\ call[p].by \in Approver
        /\ call[p].by.name \in Names /\ call[p].now \in Nat
    BY <1>2, <1>12 DEF DenyWrite, CallPcs
  <2>2. StoreTypeOK'
    <3>1. CASE DecideApproval(call[p].id, "denied", call[p].by.name, 0, Null, call[p].now + PendingTTL)
      <4>1. Exists(call[p].id)
        BY <2>1, <3>1, RowInTable DEF DecideApproval, DecideWhere, Statuses
      <4> QED
        BY <1>8, <2>1, <3>1, <4>1, DecideTyped DEF DecideApproval
    <3>2. CASE UNCHANGED storeVars
      BY <3>2 DEF storeVars, StoreTypeOK
    <3> QED
      BY <1>12, <3>1, <3>2 DEF DenyWrite
  <2> QED
    BY <1>2, <1>12, <2>1, <2>2 DEF DenyWrite, Return, CallPcs
<1>13. ASSUME NEW p \in Callers, Abandon(p) PROVE ServiceTypeOK'
  BY <1>13 DEF Abandon, Return, storeVars, StoreTypeOK
<1>14. ASSUME NEW a \in Accounts, NewApprover(a) \/ Revoke(a) PROVE ServiceTypeOK'
  BY <1>14 DEF NewApprover, Revoke, CreateApprover, RevokeApprover, serviceVars, StoreTypeOK
<1>15. CASE Tick
  BY <1>15 DEF Tick, storeVars, StoreTypeOK
<1> QED
  BY <1>1, <1>3, <1>4, <1>5, <1>6, <1>9, <1>10, <1>11, <1>12, <1>13, <1>14, <1>15 DEF DeciderNext

\* A status write, whether it finds the row in its status or not.
LEMMA WriteTyped ==
  ASSUME ServiceTypeOK, NEW id \in ApprovalIds, NEW from \in Statuses, NEW to \in Statuses,
         WriteStatus(id, from, to)
  PROVE  StoreTypeOK'
<1>1. CASE SetApprovalStatus(id, from, to)
  BY <1>1, StatusTyped
<1>2. CASE UNCHANGED storeVars
  BY <1>2 DEF storeVars, StoreTypeOK, ServiceTypeOK
<1> QED
  BY <1>1, <1>2 DEF WriteStatus

-----------------------------------------------------------------------------
(* Rows *)

\* What a decider may do to a row: nothing, or one step of the people's
\* decision about a row still waiting for it.
DecidedRow(id) ==
  LET row == approvals[id]
      new == approvals'[id]
  IN \/ new = row
     \/ /\ Exists(id) /\ Exists(id)'
        /\ row.status \in Waiting
        /\ new.key = row.key /\ new.impact = row.impact
        /\ new.status \in {"partially_approved", "approved", "denied"}
        /\ new.status = "approved" =>
             new.token = TokenOf(id, new.key, new.impact, new.nonce, new.expires)

\* The UPDATE shared by a deny and both kinds of approval.
LEMMA DecideRow ==
  ASSUME ServiceTypeOK, NEW id \in ApprovalIds, NEW status \in {"approved", "denied"}, NEW by,
         NEW nonce, NEW token, NEW expires,
         approvals[id].status \in Waiting, decide(id, status, by, nonce, token, expires),
         status = "approved" =>
           token = TokenOf(id, approvals[id].key, approvals[id].impact, nonce, expires)
  PROVE  \A i \in ApprovalIds : DecidedRow(i)
<1>1. approvals[id] \in Rows /\ Exists(id)
  BY RowInTable DEF Statuses
<1>2. approvals' = [approvals EXCEPT ![id] =
        [@ EXCEPT !.status = status, !.decidedBy = by, !.nonce = nonce,
                  !.token = token, !.expires = expires]]
  BY DEF decide
<1>3. approvals \in [ApprovalIds -> Rows \cup {NoRow}]
  BY DEF ServiceTypeOK, StoreTypeOK
<1>4. /\ approvals'[id].key = approvals[id].key /\ approvals'[id].impact = approvals[id].impact
      /\ approvals'[id].status = status /\ approvals'[id].nonce = nonce
      /\ approvals'[id].token = token /\ approvals'[id].expires = expires
  BY <1>1, <1>2, <1>3 DEF Rows
<1>5. Exists(id)'
  BY <1>4 DEF Exists, NoRow
<1>6. DecidedRow(id)
  BY <1>1, <1>4, <1>5 DEF DecidedRow, TokenOf
<1>7. \A i \in ApprovalIds \ {id} : approvals'[i] = approvals[i]
  BY <1>2, <1>3
<1> QED
  BY <1>6, <1>7 DEF DecidedRow

\* So do the two writes of a first approver.
LEMMA FirstRow ==
  ASSUME ServiceTypeOK, NEW id \in ApprovalIds, NEW by, NEW name, NEW first,
         \/ MarkPartiallyApproved(id, by, name)
         \/ ReplaceFirstApprover(id, first, by, name)
  PROVE  \A i \in ApprovalIds : DecidedRow(i)
<1>1. approvals[id].status \in Waiting
  BY DEF MarkPartiallyApproved, MarkWhere, ReplaceFirstApprover, ReplaceWhere, Waiting
<1>2. approvals[id] \in Rows /\ Exists(id)
  BY <1>1, RowInTable DEF Statuses
<1>3. approvals \in [ApprovalIds -> Rows \cup {NoRow}]
  BY DEF ServiceTypeOK, StoreTypeOK
<1>4. /\ approvals'[id].key = approvals[id].key /\ approvals'[id].impact = approvals[id].impact
      /\ approvals'[id].status = "partially_approved"
      /\ \A i \in ApprovalIds \ {id} : approvals'[i] = approvals[i]
  <2>1. CASE MarkPartiallyApproved(id, by, name)
    BY <1>2, <1>3, <2>1 DEF MarkPartiallyApproved, Rows
  <2>2. CASE ReplaceFirstApprover(id, first, by, name)
    BY <1>2, <1>3, <2>2 DEF ReplaceFirstApprover, ReplaceWhere, Rows
  <2> QED
    BY <2>1, <2>2
<1>5. Exists(id)'
  BY <1>4 DEF Exists, NoRow
<1> QED
  BY <1>1, <1>2, <1>4, <1>5 DEF DecidedRow

\* Whatever a decider does, every row takes such a step, and no nonce is
\* spent.
LEMMA DecidersDecide ==
  ASSUME ServiceTypeOK, DeciderNext
  PROVE  nonces' = nonces /\ \A id \in ApprovalIds : DecidedRow(id)
<1>1. ASSUME UNCHANGED <<approvals, nonces>>
      PROVE  nonces' = nonces /\ \A id \in ApprovalIds : DecidedRow(id)
  BY <1>1 DEF DecidedRow
<1>2. ASSUME NEW p \in Callers, call[p].pc \in CallPcs
      PROVE  call[p].id \in ApprovalIds
  BY <1>2 DEF ServiceTypeOK, Calls, NoCall, CallPcs
<1>3. ASSUME NEW p \in Callers, Mark(p) \/ Replace(p)
      PROVE  nonces' = nonces /\ \A id \in ApprovalIds : DecidedRow(id)
  <2>1. call[p].id \in ApprovalIds
    BY <1>2, <1>3 DEF Mark, Replace, CallPcs
  <2>2. CASE UNCHANGED storeVars
    BY <1>1, <2>2 DEF storeVars
  <2>3. CASE \/ MarkPartiallyApproved(call[p].id, call[p].by.account, call[p].by.name)
             \/ ReplaceFirstApprover(call[p].id, call[p].first, call[p].by.account, call[p].by.name)
    BY <2>1, <2>3, FirstRow DEF MarkPartiallyApproved, ReplaceFirstApprover
  <2> QED
    BY <1>3, <2>2, <2>3 DEF Mark, Replace
<1>4. ASSUME NEW p \in Callers, Second(p) \/ Lone(p) \/ DenyWrite(p)
      PROVE  nonces' = nonces /\ \A id \in ApprovalIds : DecidedRow(id)
  <2> DEFINE id == call[p].id
  <2>1. id \in ApprovalIds
    BY <1>2, <1>4 DEF Second, Lone, DenyWrite, CallPcs
  <2>2. CASE UNCHANGED storeVars
    BY <1>1, <2>2 DEF storeVars
  <2>3. CASE \/ ApproveSecond(id, call[p].first, call[p].by.account, Nonce, MintedToken(id, call[p].now + TokenTTL), call[p].now + TokenTTL)
             \/ DecideApproval(id, "approved", call[p].by.name, Nonce, MintedToken(id, call[p].now + TokenTTL), call[p].now + TokenTTL)
    <3>1. approvals[id].status \in Waiting
      BY <2>3 DEF ApproveSecond, ApproveSecondWhere, DecideApproval, DecideWhere, Waiting
    <3>2. \E by : decide(id, "approved", by, Nonce, MintedToken(id, call[p].now + TokenTTL), call[p].now + TokenTTL)
      BY <2>3 DEF ApproveSecond, DecideApproval
    <3>3. MintedToken(id, call[p].now + TokenTTL)
          = TokenOf(id, approvals[id].key, approvals[id].impact, Nonce, call[p].now + TokenTTL)
      BY DEF MintedToken
    <3> HIDE DEF id
    <3>4. \A i \in ApprovalIds : DecidedRow(i)
      BY <2>1, <3>1, <3>2, <3>3, DecideRow
    <3> QED
      BY <3>2, <3>4 DEF decide
  <2>4. CASE DecideApproval(id, "denied", call[p].by.name, 0, Null, call[p].now + PendingTTL)
    <3>1. /\ approvals[id].status \in Waiting
          /\ decide(id, "denied", call[p].by.name, 0, Null, call[p].now + PendingTTL)
      BY <2>4 DEF DecideApproval, DecideWhere
    <3> HIDE DEF id
    <3>2. \A i \in ApprovalIds : DecidedRow(i)
      BY <2>1, <3>1, DecideRow
    <3> QED
      BY <3>1, <3>2 DEF decide
  <2> QED
    BY <1>4, <2>2, <2>3, <2>4 DEF Second, Lone, DenyWrite
<1>5. ASSUME NEW p \in Callers, LoadApprove(p) \/ CheckFirst(p) \/ LoadDeny(p) \/ Abandon(p)
      PROVE  UNCHANGED <<approvals, nonces>>
  BY <1>5 DEF LoadApprove, CheckFirst, LoadDeny, Abandon, storeVars
<1>6. ASSUME NEW p \in Callers, NEW verb, NEW by, NEW id, NEW signedIn, BeginCall(p, verb, by, id, signedIn)
      PROVE  UNCHANGED <<approvals, nonces>>
  BY <1>6 DEF BeginCall, storeVars
<1>7. ASSUME (\E a \in Accounts : NewApprover(a) \/ Revoke(a)) \/ Tick
      PROVE  UNCHANGED <<approvals, nonces>>
  BY <1>7 DEF NewApprover, Revoke, CreateApprover, RevokeApprover, Tick, storeVars
<1> QED
  BY <1>1, <1>3, <1>4, <1>5, <1>6, <1>7 DEF DeciderNext
=============================================================================
