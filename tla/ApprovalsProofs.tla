---------------------------- MODULE ApprovalsProofs ----------------------------
(***************************************************************************)
(* What TLAPS proves of Approvals, for every number of approvals, accounts, *)
(* callers, retriers and every setting of the lifetimes: type correctness,  *)
(* that tokens are minted by the right people and spent once, why a         *)
(* decision can be lost, what the outbox tells, and that the lifecycle      *)
(* implements ReleaseContract.                                              *)
(***************************************************************************)
EXTENDS Approvals, ServiceProofs, FiniteSetTheorems

\* A row with a status a row can have is a row: NoRow has another.
LEMMA RowTyped ==
  ASSUME TypeOK, NEW id \in ApprovalIds
  PROVE  /\ approvals[id].status \in Statuses => approvals[id] \in Rows /\ Exists(id)
         /\ Exists(id) => approvals[id] \in Rows
BY RowInTable DEF TypeOK

-----------------------------------------------------------------------------
(* Types *)

\* The empty database has its types.
LEMMA InitTyped == Init => TypeOK
BY ServiceInitTyped DEF Init, TypeOK

\* Every step of a retry, Verify's copy of the row included, keeps the types.
LEMMA RetryTyped == TypeOK /\ RetryNext => TypeOK'
<1> SUFFICES ASSUME TypeOK, NEW q \in Retriers,
                    \/ \E k \in Keys, impact \in Impacts : Verify(q, k, impact)
                    \/ VerifyWrite(q) \/ Consume(q) \/ Spend(q) \/ ConsumeLate(q) \/ Create(q) \/ GiveUp(q)
             PROVE  TypeOK'
  BY DEF RetryNext
<1> USE DEF TypeOK
<1>1. ASSUME StoreTypeOK', UNCHANGED serviceVars PROVE ServiceTypeOK'
  BY <1>1 DEF ServiceTypeOK, serviceVars
<1>2. ASSUME UNCHANGED storeVars PROVE StoreTypeOK'
  BY <1>2 DEF ServiceTypeOK, StoreTypeOK, storeVars
<1>3. ASSUME retry[q].pc \in RetryPcs \ {"create"} PROVE retry[q] \in Retries
  BY <1>3 DEF Creations, NoRetry, RetryPcs
<1>4. ASSUME NEW k \in Keys, NEW impact \in Impacts, Verify(q, k, impact) PROVE TypeOK'
  <2>1. CASE retry' = [retry EXCEPT ![q] = ToCreate(k, impact)]
    BY <1>1, <1>2, <1>4, <2>1 DEF Verify, ToCreate, Creations
  <2>2. ASSUME NEW id \in Latest(k),
               retry' = [retry EXCEPT ![q] =
                 AfterVerify(id, approvals[id], k, impact, VerifyAnswer(id, approvals[id], k, impact))]
        PROVE  TypeOK'
    <3>1. approvals[id] \in Rows /\ id \in ApprovalIds
      BY RowTyped DEF Latest, RowsOf
    <3>2. AfterVerify(id, approvals[id], k, impact, VerifyAnswer(id, approvals[id], k, impact))
            \in Retries \cup Creations \cup {NoRetry}
      BY <3>1 DEF AfterVerify, ToCreate, Retries, Creations, RetryPcs
    <3> QED
      BY <1>1, <1>2, <1>4, <2>2, <3>2 DEF Verify
  <2> QED
    BY <1>4, <2>1, <2>2 DEF Verify
<1>5. CASE VerifyWrite(q)
  <2>1. retry[q] \in Retries
    BY <1>3, <1>5 DEF VerifyWrite, RetryPcs
  <2>2. StoreTypeOK'
    BY <1>5, <2>1, WriteTyped DEF VerifyWrite, Retries, Rows, Statuses, Final
  <2> QED
    BY <1>1, <1>5, <2>1, <2>2 DEF VerifyWrite, ToCreate, Retries, Creations
<1>6. CASE Consume(q)
  <2>1. retry[q] \in Retries
    BY <1>3, <1>6 DEF Consume, RetryPcs
  <2>2. clock \in Nat
    BY DEF ServiceTypeOK
  <2>3. \A pc \in {"expireLate", "spend"} : [retry[q] EXCEPT !.pc = pc, !.now = clock] \in Retries
    BY <2>1, <2>2 DEF Retries, RetryPcs
  <2> QED
    BY <1>1, <1>2, <1>6, <2>3 DEF Consume
<1>9. CASE Spend(q)
  <2>1. retry[q] \in Retries
    BY <1>3, <1>9 DEF Spend, RetryPcs
  <2>2. retry[q].id \in ApprovalIds /\ retry[q].row.nonce \in Nat
    BY <2>1 DEF Retries, Rows
  <2>3. StoreTypeOK'
    BY <1>2, <1>9, <2>2, ConsumeTyped DEF Spend
  <2> DEFINE release == [key |-> retry[q].key, impact |-> retry[q].impact, at |-> retry[q].now]
  <2>4. release \in Releases
    BY <2>1 DEF Retries, Releases
  <2>5. released' \in [ApprovalIds -> Seq(Releases)]
    <3>1. released' = released \/ released' = [released EXCEPT ![retry[q].id] = Append(@, release)]
      BY <1>9 DEF Spend
    <3> HIDE DEF release
    <3>2. Append(released[retry[q].id], release) \in Seq(Releases)
      BY <2>2, <2>4
    <3> QED
      BY <2>2, <3>1, <3>2
  <2> QED
    BY <1>1, <1>9, <2>3, <2>5 DEF Spend
<1>7. CASE ConsumeLate(q)
  <2>1. retry[q] \in Retries
    BY <1>3, <1>7 DEF ConsumeLate, RetryPcs
  <2>2. StoreTypeOK'
    BY <1>7, <2>1, WriteTyped DEF ConsumeLate, Retries, Statuses, Final
  <2> QED
    BY <1>1, <1>7, <2>2 DEF ConsumeLate
<1>8. CASE Create(q)
  <2>1. retry[q] \in Creations
    BY <1>8 DEF Create, Retries, NoRetry
  <2>2. StoreTypeOK'
    BY <1>8, <2>1, CreateTyped, ServiceAssumption DEF Create, CreatePending, Creations, ServiceTypeOK
  <2> QED
    BY <1>1, <1>8, <2>2 DEF Create
<1>10. CASE GiveUp(q)
  BY <1>1, <1>2, <1>10 DEF GiveUp
<1> QED
  BY <1>4, <1>5, <1>6, <1>7, <1>8, <1>9, <1>10

\* Every step of the system keeps the types.
LEMMA StepTyped == TypeOK /\ [Next]_vars => TypeOK'
<1>1. TypeOK /\ UNCHANGED vars => TypeOK'
  BY DEF vars, storeVars, serviceVars, TypeOK, ServiceTypeOK, StoreTypeOK
<1>2. TypeOK /\ DeciderNext /\ UNCHANGED <<retry, released>> => TypeOK'
  BY DeciderTyped DEF TypeOK
<1> QED
  BY <1>1, <1>2, RetryTyped DEF Next

\* The tables, the calls and the retries keep their types, whatever the
\* interleaving: in particular every status written is one the schema has.
THEOREM TypeCorrect == Spec => []TypeOK
BY InitTyped, StepTyped, PTL DEF Spec

-----------------------------------------------------------------------------
(* The inductive invariant.  Neither MintedByTheRightPeople nor             *)
(* SpentOnceAsApproved is inductive: both rest on what the calls and        *)
(* retries between two of their steps already know about the row they read. *)

\* A row: a waiting or denied one carries no token, an approved one does, a
\* token was signed over this very row, and the first approver is not the
\* person the request was made for.
RowSound(id) ==
  LET row == approvals[id] IN
  Exists(id) =>
    /\ row.status \in Waiting \cup {"denied"} => row.token = Null
    /\ row.status = "approved" => row.token # Null
    /\ row.token # Null => row.token = TokenOf(id, row.key, row.impact, row.nonce, row.expires)
    /\ row.first # Null => ~IsSelf(UiApprover(row.first), row.key)

\* A call: once past the rules they hold of its approver, however the row
\* has moved since.
CallSound(p) ==
  LET c == call[p]
      row == approvals[c.id]
  IN c # NoCall =>
       /\ Exists(c.id)
       /\ c.pc \in {"mark", "firstLive", "replace", "second"} =>
            c.by.account # Null /\ ~IsSelf(c.by, row.key)
       /\ c.pc = "second" => ~SamePerson(c.by, c.first)
       /\ c.pc = "lone" => ~IsSelf(c.by, row.key) /\ row.impact \notin Grants

\* A retry: only rows that were not final are expired, and one that is about
\* to consume holds an approval for its own key and impact, whose deadline
\* is still the one in its copy; Consume judged that deadline in time.
RetrySound(q) ==
  LET r == retry[q]
      row == approvals[r.id]
  IN /\ r.pc = "expire" => r.row.status \in Waiting \cup {"approved"}
     /\ r.pc \in {"consume", "spend"} =>
          /\ Exists(r.id)
          /\ row.status \in Decisive
          /\ row.key = r.key /\ row.impact = r.impact /\ row.expires = r.row.expires
     /\ r.pc = "spend" => r.now <= r.row.expires

RowsSound    == \A id \in ApprovalIds : RowSound(id)
CallsSound   == \A p \in Callers : CallSound(p)
RetriesSound == \A q \in Retriers : RetrySound(q)

IInv ==
  /\ TypeOK /\ RowsSound /\ CallsSound /\ RetriesSound
  /\ MintedByTheRightPeople /\ SpentOnceAsApproved

\* What every step leaves alone in a row that exists.
RowKept(id) ==
  LET row == approvals[id]
      new == approvals'[id]
  IN Exists(id) =>
       /\ Exists(id)'
       /\ new.key = row.key /\ new.impact = row.impact
       /\ row.status \in Decisive =>
            /\ new.status \in Decisive
            /\ new.expires = row.expires
       /\ row.status = "consumed" => new = row
RowsKept == \A id \in ApprovalIds : RowKept(id)

\* What one row needs of MintedByTheRightPeople.
MintedRight(id) ==
  LET row == approvals[id]
      by  == decider[id]
  IN Exists(id) /\ row.token # Null =>
       /\ by \in Approver
       /\ ~IsSelf(by, row.key)
       /\ row.impact \in Grants =>
            /\ by.account \in Accounts
            /\ row.first \in Accounts
            /\ ~IsSelf(UiApprover(row.first), row.key)
            /\ ~SamePerson(by, row.first)

\* MintedByTheRightPeople, row by row.
LEMMA MintedRightForAll == MintedByTheRightPeople <=> \A id \in ApprovalIds : MintedRight(id)
BY DEF MintedByTheRightPeople, MintedRight

\* What one row needs of SpentOnceAsApproved.
SpentRight(id) ==
  /\ Len(released[id]) <= 1
  /\ \A n \in DOMAIN released[id] :
       /\ approvals[id].status = "consumed"
       /\ released[id][n].key = approvals[id].key
       /\ released[id][n].impact = approvals[id].impact
       /\ released[id][n].at <= approvals[id].expires

\* SpentOnceAsApproved, row by row.
LEMMA SpentRightForAll == SpentOnceAsApproved <=> \A id \in ApprovalIds : SpentRight(id)
BY DEF SpentOnceAsApproved, SpentRight

\* The invariant holds of the empty database.
LEMMA InitSound == Init => IInv
<1> SUFFICES ASSUME Init PROVE IInv
  OBVIOUS
<1>1. TypeOK
  BY InitTyped
<1>2. \A id \in ApprovalIds : ~Exists(id) /\ released[id] = <<>>
  BY DEF Init, ServiceInit, StoreInit, Exists
<1>3. \A p \in Callers : call[p] = NoCall
  BY DEF Init, ServiceInit
<1>4. \A q \in Retriers : retry[q].pc \notin {"expire", "consume", "spend"}
  BY DEF Init, NoRetry
<1>5. RowsSound /\ MintedByTheRightPeople
  BY <1>2 DEF RowsSound, RowSound, MintedByTheRightPeople
<1>6. CallsSound /\ RetriesSound
  BY <1>3, <1>4 DEF CallsSound, CallSound, RetriesSound, RetrySound
<1>7. SpentOnceAsApproved
  <2> SUFFICES ASSUME NEW id \in ApprovalIds PROVE SpentRight(id)
    BY SpentRightForAll
  <2>1. Len(released[id]) = 0 /\ released[id] \in Seq(Releases)
    BY <1>1, <1>2 DEF TypeOK
  <2>2. ASSUME NEW n \in DOMAIN released[id] PROVE FALSE
    <3>1. n \in 1 .. 0
      BY <2>1
    <3> QED
      BY <3>1
  <2>3. Len(released[id]) <= 1
    BY <2>1
  <2> QED
    BY <2>2, <2>3 DEF SpentRight
<1> QED
  BY <1>1, <1>5, <1>6, <1>7 DEF IInv

-----------------------------------------------------------------------------
(* What each transaction does to the rows *)

\* A row that a step leaves alone stays sound.
LEMMA SameRow ==
  ASSUME IInv, NEW id \in ApprovalIds,
         approvals'[id] = approvals[id], decider'[id] = decider[id]
  PROVE  RowKept(id) /\ RowSound(id)' /\ MintedRight(id)'
<1>1. RowSound(id) /\ MintedRight(id)
  BY MintedRightForAll DEF IInv, RowsSound
<1> QED
  BY <1>1 DEF RowKept, RowSound, MintedRight, Exists, IsSelf, SamePerson, UiApprover, TokenOf

RowGood(id) == RowKept(id) /\ RowSound(id)' /\ MintedRight(id)'

\* A step that writes no row keeps all of them sound.
LEMMA SameRows ==
  ASSUME IInv, UNCHANGED <<approvals, decider>>
  PROVE  \A id \in ApprovalIds : RowGood(id)
BY SameRow DEF RowGood

\* A new pending row is sound and leaves the others alone.
LEMMA CreateGood ==
  ASSUME IInv, NEW id \in ApprovalIds, NEW k \in Keys, NEW impact \in Impacts,
         CreatePending(id, k, impact), UNCHANGED decider
  PROVE  \A i \in ApprovalIds : RowGood(i)
<1> SUFFICES ASSUME NEW i \in ApprovalIds PROVE RowGood(i)
  OBVIOUS
<1>1. CASE i # id
  BY <1>1, SameRow DEF RowGood, CreatePending, CreateApproval, IInv, TypeOK, ServiceTypeOK, StoreTypeOK
<1>2. CASE i = id
  <2>1. ~Exists(id)
    BY DEF CreatePending, CreateApproval
  <2>2. /\ approvals'[id].first = Null /\ approvals'[id].token = Null
        /\ approvals'[id].status = "pending"
    BY DEF CreatePending, CreateApproval, IInv, TypeOK, ServiceTypeOK, StoreTypeOK
  <2> QED
    BY <1>2, <2>1, <2>2 DEF RowGood, RowKept, RowSound, MintedRight, Waiting
<1> QED
  BY <1>1, <1>2

\* A first approver who is not the requester is put on record.
LEMMA FirstGood ==
  ASSUME IInv, NEW id \in ApprovalIds, NEW by \in Accounts, NEW name, NEW first,
         \/ MarkPartiallyApproved(id, by, name)
         \/ ReplaceFirstApprover(id, first, by, name),
         ~IsSelf(UiApprover(by), approvals[id].key), UNCHANGED decider
  PROVE  \A i \in ApprovalIds : RowGood(i)
<1> SUFFICES ASSUME NEW i \in ApprovalIds PROVE RowGood(i)
  OBVIOUS
<1> USE DEF IInv, TypeOK, ServiceTypeOK, StoreTypeOK
<1>1. CASE i # id
  BY <1>1, SameRow DEF RowGood, MarkPartiallyApproved, ReplaceFirstApprover
<1>2. CASE i = id
  <2>1. approvals[id].status \in Waiting
    BY DEF MarkPartiallyApproved, MarkWhere, ReplaceFirstApprover, ReplaceWhere, Waiting
  <2>2. approvals[id] \in Rows /\ Exists(id)
    BY <2>1, RowTyped DEF Statuses
  <2>3. approvals'[id] = [approvals[id] EXCEPT !.status = "partially_approved", !.first = by]
    <3>1. CASE MarkPartiallyApproved(id, by, name)
      BY <3>1 DEF MarkPartiallyApproved
    <3>2. CASE ReplaceFirstApprover(id, first, by, name)
      <4>1. approvals'[id] = [approvals[id] EXCEPT !.first = by]
        BY <3>2 DEF ReplaceFirstApprover
      <4>2. approvals[id].status = "partially_approved"
        BY <3>2 DEF ReplaceFirstApprover, ReplaceWhere
      <4> QED
        BY <2>2, <4>1, <4>2 DEF Rows
    <3> QED
      BY <3>1, <3>2
  <2>4. approvals[id].token = Null
    BY <2>1, <2>2 DEF RowsSound, RowSound
  <2>5. /\ approvals'[id] \in Rows /\ approvals'[id].token = Null
        /\ approvals'[id].first = by /\ approvals'[id].status = "partially_approved"
        /\ approvals'[id].key = approvals[id].key /\ approvals'[id].impact = approvals[id].impact
    BY <2>2, <2>3, <2>4 DEF Rows, Statuses, Waiting
  <2>6. Exists(id)'
    BY <2>5 DEF Exists, NoRow
  <2>7. RowKept(id)
    BY <2>1, <2>5, <2>6 DEF RowKept, Waiting, Decisive
  <2>8. RowSound(id)' /\ MintedRight(id)'
    BY <2>5, <2>6 DEF RowSound, MintedRight, UiApprover, IsSelf
  <2> QED
    BY <1>2, <2>7, <2>8 DEF RowGood
<1> QED
  BY <1>1, <1>2

\* A final decision on a waiting row: a denial, or a token given by someone
\* the rules accept.
LEMMA DecideGood ==
  ASSUME IInv, NEW id \in ApprovalIds, NEW status \in {"approved", "denied"}, NEW name \in Names,
         NEW nonce \in Nat, NEW token \in Tokens \cup {Null}, NEW expires \in Nat,
         NEW by \in Approver,
         approvals[id].status \in Waiting,
         decide(id, status, name, nonce, token, expires),
         decider' = [decider EXCEPT ![id] = by],
         status = "denied" => token = Null,
         status = "approved" =>
           /\ token # Null
           /\ token = TokenOf(id, approvals[id].key, approvals[id].impact, nonce, expires)
           /\ ~IsSelf(by, approvals[id].key)
           /\ approvals[id].impact \in Grants =>
                /\ by.account \in Accounts
                /\ approvals[id].first \in Accounts
                /\ ~SamePerson(by, approvals[id].first)
  PROVE  \A i \in ApprovalIds : RowGood(i)
<1> SUFFICES ASSUME NEW i \in ApprovalIds PROVE RowGood(i)
  OBVIOUS
<1> USE DEF IInv, TypeOK, ServiceTypeOK, StoreTypeOK
<1>1. CASE i # id
  BY <1>1, SameRow DEF RowGood, decide
<1>2. CASE i = id
  <2>1. approvals[id] \in Rows /\ Exists(id)
    BY RowTyped DEF Statuses
  <2>2. approvals'[id] = [approvals[id] EXCEPT !.status = status, !.decidedBy = name, !.nonce = nonce,
                                               !.token = token, !.expires = expires]
    BY DEF decide
  <2>3. decider'[id] = by
    OBVIOUS
  <2>4. /\ approvals'[id].status = status /\ approvals'[id].nonce = nonce
        /\ approvals'[id].token = token /\ approvals'[id].expires = expires
        /\ approvals'[id].key = approvals[id].key /\ approvals'[id].impact = approvals[id].impact
        /\ approvals'[id].first = approvals[id].first
    BY <2>1, <2>2 DEF Rows
  <2>5. Exists(id)'
    BY <2>4 DEF Exists, NoRow
  <2>6. approvals[id].first # Null => ~IsSelf(UiApprover(approvals[id].first), approvals[id].key)
    BY <2>1 DEF RowsSound, RowSound
  <2>7. RowKept(id)
    BY <2>1, <2>4, <2>5 DEF RowKept, Waiting, Decisive
  <2>8. RowSound(id)'
    BY <2>4, <2>6 DEF RowSound, Waiting, IsSelf, UiApprover, TokenOf
  <2>9. MintedRight(id)'
    BY <2>3, <2>4, <2>6, NullAssumption DEF MintedRight, IsSelf, SamePerson, UiApprover
  <2> QED
    BY <1>2, <2>7, <2>8, <2>9 DEF RowGood
<1> QED
  BY <1>1, <1>2

\* A row that was not final is expired, or an approved one superseded.
LEMMA StatusGood ==
  ASSUME IInv, NEW id \in ApprovalIds, NEW from \in Waiting \cup {"approved"},
         NEW to \in {"expired", "superseded"}, to = "superseded" => from = "approved",
         WriteStatus(id, from, to), UNCHANGED decider
  PROVE  \A i \in ApprovalIds : RowGood(i)
<1> SUFFICES ASSUME NEW i \in ApprovalIds PROVE RowGood(i)
  OBVIOUS
<1> USE DEF IInv, TypeOK, ServiceTypeOK, StoreTypeOK
<1>1. CASE UNCHANGED storeVars
  BY <1>1, SameRow DEF RowGood, storeVars
<1>2. CASE SetApprovalStatus(id, from, to) /\ i # id
  BY <1>2, SameRow DEF RowGood, SetApprovalStatus
<1>3. CASE SetApprovalStatus(id, from, to) /\ i = id
  <2>1. approvals[id].status = from /\ approvals[id] \in Rows /\ Exists(id)
    BY <1>3, RowTyped DEF SetApprovalStatus, StatusWhere, Statuses
  <2>2. approvals'[id] = [approvals[id] EXCEPT !.status = to]
    BY <1>3 DEF SetApprovalStatus
  <2>3. /\ approvals'[id].status = to /\ approvals'[id].nonce = approvals[id].nonce
        /\ approvals'[id].token = approvals[id].token /\ approvals'[id].expires = approvals[id].expires
        /\ approvals'[id].key = approvals[id].key /\ approvals'[id].impact = approvals[id].impact
        /\ approvals'[id].first = approvals[id].first
    BY <2>1, <2>2 DEF Rows
  <2>4. Exists(id)'
    BY <2>3 DEF Exists, NoRow
  <2>5. RowSound(id) /\ MintedRight(id)
    BY MintedRightForAll DEF RowsSound
  <2>6. RowKept(id)
    BY <2>1, <2>3, <2>4 DEF RowKept, Waiting, Decisive
  <2>7. RowSound(id)'
    BY <2>1, <2>3, <2>5 DEF RowSound, Waiting, IsSelf, UiApprover, TokenOf
  <2>8. MintedRight(id)'
    BY <2>1, <2>3, <2>5 DEF MintedRight, IsSelf, SamePerson, UiApprover
  <2> QED
    BY <1>3, <2>6, <2>7, <2>8 DEF RowGood
<1> QED
  BY <1>1, <1>2, <1>3 DEF WriteStatus

\* Consuming an approved row keeps all rows sound.
LEMMA ConsumeGood ==
  ASSUME IInv, NEW id \in ApprovalIds, NEW nonce \in Nat, ConsumeApproval(id, nonce), UNCHANGED decider
  PROVE  /\ \A i \in ApprovalIds : RowGood(i)
         /\ approvals'[id].status = "consumed"
<1> USE DEF IInv, TypeOK, ServiceTypeOK, StoreTypeOK
<1>1. approvals[id].status = "approved" /\ approvals[id] \in Rows /\ Exists(id)
  BY RowTyped DEF ConsumeApproval, ConsumeWhere, Statuses
<1>2. approvals'[id] = [approvals[id] EXCEPT !.status = "consumed"]
  BY DEF ConsumeApproval
<1>3. /\ approvals'[id].status = "consumed" /\ approvals'[id].nonce = approvals[id].nonce
      /\ approvals'[id].token = approvals[id].token /\ approvals'[id].expires = approvals[id].expires
      /\ approvals'[id].key = approvals[id].key /\ approvals'[id].impact = approvals[id].impact
      /\ approvals'[id].first = approvals[id].first
  BY <1>1, <1>2 DEF Rows
<1>4. Exists(id)'
  BY <1>3 DEF Exists, NoRow
<1>5. RowSound(id) /\ MintedRight(id)
  BY MintedRightForAll DEF RowsSound
<1>6. RowKept(id)
  BY <1>1, <1>3, <1>4 DEF RowKept, Decisive
<1>7. RowSound(id)'
  BY <1>1, <1>3, <1>5 DEF RowSound, Waiting, IsSelf, UiApprover, TokenOf
<1>8. MintedRight(id)'
  BY <1>1, <1>3, <1>5 DEF MintedRight, IsSelf, SamePerson, UiApprover
<1>9. ASSUME NEW i \in ApprovalIds, i # id PROVE RowGood(i)
  BY <1>9, SameRow DEF RowGood, ConsumeApproval
<1> QED
  BY <1>3, <1>6, <1>7, <1>8, <1>9 DEF RowGood

-----------------------------------------------------------------------------
(* What a step leaves of the calls, the retries and the releases that it is *)
(* not about.                                                               *)

\* A call that did not move stays sound while rows only change as RowKept allows.
LEMMA SameCall ==
  ASSUME IInv, RowsKept, NEW p \in Callers, call'[p] = call[p]
  PROVE  CallSound(p)'
<1>1. CallSound(p)
  BY DEF IInv, CallsSound
<1>2. CASE call[p] = NoCall
  BY <1>2 DEF CallSound
<1>3. CASE call[p] # NoCall
  <2>1. call[p].id \in ApprovalIds
    BY <1>3 DEF IInv, TypeOK, ServiceTypeOK, Calls
  <2>2. RowKept(call[p].id)
    BY <2>1 DEF RowsKept
  <2> QED
    BY <1>1, <1>3, <2>2 DEF CallSound, RowKept, IsSelf, SamePerson, Exists
<1> QED
  BY <1>2, <1>3

\* So does a retry that did not move.
LEMMA SameRetry ==
  ASSUME IInv, RowsKept, NEW q \in Retriers, retry'[q] = retry[q]
  PROVE  RetrySound(q)'
<1>1. RetrySound(q)
  BY DEF IInv, RetriesSound
<1>2. CASE retry[q].pc \notin {"consume", "spend"}
  BY <1>1, <1>2 DEF RetrySound
<1>3. CASE retry[q].pc \in {"consume", "spend"}
  <2>1. retry[q].id \in ApprovalIds
    BY <1>3 DEF IInv, TypeOK, Retries, Creations, NoRetry
  <2>2. RowKept(retry[q].id)
    BY <2>1 DEF RowsKept
  <2> QED
    BY <1>1, <1>3, <2>2 DEF RetrySound, RowKept, Exists
<1> QED
  BY <1>2, <1>3

\* And so do the releases, when none is added.
LEMMA SameReleases ==
  ASSUME IInv, RowsKept, NEW id \in ApprovalIds, released'[id] = released[id]
  PROVE  SpentRight(id)'
<1>1. SpentRight(id)
  BY SpentRightForAll DEF IInv
<1>2. ASSUME NEW n \in DOMAIN released[id] PROVE Exists(id) /\ approvals'[id] = approvals[id]
  <2>1. approvals[id].status = "consumed"
    BY <1>1 DEF SpentRight
  <2>2. Exists(id)
    BY <2>1 DEF Exists, NoRow
  <2> QED
    BY <2>1, <2>2 DEF RowsKept, RowKept
<1> QED
  BY <1>1, <1>2 DEF SpentRight

\* The parts of the invariant, put back together.
LEMMA AllSound ==
  ASSUME TypeOK', \A id \in ApprovalIds : RowGood(id), \A p \in Callers : CallSound(p)',
         \A q \in Retriers : RetrySound(q)', \A id \in ApprovalIds : SpentRight(id)'
  PROVE  IInv'
<1>1. MintedByTheRightPeople'
  BY DEF RowGood, MintedByTheRightPeople, MintedRight
<1>2. SpentOnceAsApproved'
  BY DEF SpentOnceAsApproved, SpentRight
<1> QED
  BY <1>1, <1>2 DEF IInv, RowGood, RowsSound, CallsSound, RetriesSound

\* A step of one caller.
LEMMA CallerSound ==
  ASSUME IInv, TypeOK', \A id \in ApprovalIds : RowGood(id), UNCHANGED <<retry, released>>,
         NEW p \in Callers, CallSound(p)', \A o \in Callers \ {p} : call'[o] = call[o]
  PROVE  IInv'
<1>1. RowsKept
  BY DEF RowsKept, RowGood
<1>2. \A o \in Callers : CallSound(o)'
  BY <1>1, SameCall
<1>3. \A q \in Retriers : RetrySound(q)'
  BY <1>1, SameRetry
<1>4. \A id \in ApprovalIds : SpentRight(id)'
  BY <1>1, SameReleases
<1> QED
  BY <1>2, <1>3, <1>4, AllSound

\* A step of one retry that releases nothing.
LEMMA RetrierSound ==
  ASSUME IInv, TypeOK', \A id \in ApprovalIds : RowGood(id), UNCHANGED <<call, released>>,
         NEW q \in Retriers, RetrySound(q)', \A o \in Retriers \ {q} : retry'[o] = retry[o]
  PROVE  IInv'
<1>1. RowsKept
  BY DEF RowsKept, RowGood
<1>2. \A p \in Callers : CallSound(p)'
  BY <1>1, SameCall
<1>3. \A o \in Retriers : RetrySound(o)'
  BY <1>1, SameRetry
<1>4. \A id \in ApprovalIds : SpentRight(id)'
  BY <1>1, SameReleases
<1> QED
  BY <1>2, <1>3, <1>4, AllSound

-----------------------------------------------------------------------------
(* Every step of the deciders preserves the invariant *)

\* An approver with an account is the UiApprover of it.
LEMMA CallFields ==
  ASSUME TypeOK, NEW p \in Callers, call[p] # NoCall
  PROVE  /\ call[p].pc \in CallPcs
         /\ call[p].id \in ApprovalIds
         /\ call[p].by \in Approver
         /\ call[p].by.name \in Names
         /\ call[p].now \in Nat
         /\ call[p].by.account # Null =>
              call[p].by.account \in Accounts /\ call[p].by = UiApprover(call[p].by.account)
<1>1. call[p] \in Calls
  BY DEF TypeOK, ServiceTypeOK
<1> QED
  BY <1>1, ApproverFields DEF Calls

\* LoadApprove and CheckFirst establish what CallSound says of the next place.
LEMMA ApproveSound == ASSUME IInv, TypeOK', NEW p \in Callers, LoadApprove(p) \/ CheckFirst(p),
                             UNCHANGED <<retry, released>>
                      PROVE  IInv'
<1>1. call[p] # NoCall /\ TypeOK /\ call \in [Callers -> Calls \cup {NoCall}]
  BY DEF LoadApprove, CheckFirst, NoCall, IInv, TypeOK, ServiceTypeOK
<1>2. call[p].id \in ApprovalIds /\ call[p] \in Calls
  BY <1>1, CallFields
<1>3. UNCHANGED storeVars /\ UNCHANGED decider
  BY DEF LoadApprove, CheckFirst
<1>4. \A id \in ApprovalIds : RowGood(id)
  BY <1>3, SameRows DEF storeVars
<1>5. \A o \in Callers \ {p} : call'[o] = call[o]
  BY <1>1 DEF LoadApprove, CheckFirst
<1>6. CallSound(p)
  BY DEF IInv, CallsSound
<1>7. approvals' = approvals
  BY <1>3 DEF storeVars
<1>8. CASE LoadApprove(p) /\ ApproveRefuses(call[p].by, call[p].signedIn, approvals[call[p].id])
  <2>1. call'[p] = NoCall
    BY <1>1, <1>8 DEF LoadApprove
  <2>2. CallSound(p)'
    BY <2>1 DEF CallSound
  <2> QED
    BY <1>4, <1>5, <2>2, CallerSound
<1>9. CASE LoadApprove(p) /\ ~ApproveRefuses(call[p].by, call[p].signedIn, approvals[call[p].id])
  <2> DEFINE row == approvals[call[p].id]
  <2>1. call'[p] = [call[p] EXCEPT !.pc = ApproveNext(row), !.first = row.first, !.signedIn = 0, !.now = clock]
    BY <1>1, <1>9 DEF LoadApprove
  <2>2. /\ call'[p] # NoCall /\ call'[p].pc = ApproveNext(row)
        /\ call'[p].id = call[p].id /\ call'[p].by = call[p].by
    BY <1>2, <2>1 DEF Calls, NoCall
  <2>3. ~IsSelf(call[p].by, row.key) /\ (NeedsTwo(row) => call[p].by.account # Null)
    BY <1>9 DEF ApproveRefuses
  <2>4. ApproveNext(row) \in {"mark", "firstLive"} => NeedsTwo(row)
    BY DEF ApproveNext
  <2>5. ApproveNext(row) = "lone" => row.impact \notin Grants
    BY DEF ApproveNext, NeedsTwo
  <2>6. ApproveNext(row) \in {"mark", "firstLive", "lone"}
    BY DEF ApproveNext
  <2>7. CallSound(p)'
    BY <1>1, <1>6, <1>7, <2>2, <2>3, <2>4, <2>5, <2>6 DEF CallSound, Exists, IsSelf
  <2> QED
    BY <1>4, <1>5, <2>7, CallerSound
<1>10. CASE CheckFirst(p)
  <2>1. call[p].pc = "firstLive"
    BY <1>10 DEF CheckFirst
  <2>2. call[p].by.account # Null /\ ~IsSelf(call[p].by, approvals[call[p].id].key) /\ Exists(call[p].id)
    BY <1>1, <1>6, <2>1 DEF CallSound
  <2>3. ASSUME NEW pc \in {"replace", "second"}, call'[p] = [call[p] EXCEPT !.pc = pc],
               pc = "second" => ~SamePerson(call[p].by, call[p].first)
        PROVE  CallSound(p)'
    <3>1. /\ call'[p].id = call[p].id /\ call'[p].by = call[p].by /\ call'[p].first = call[p].first
          /\ call'[p].pc = pc
      BY <1>2, <2>3 DEF Calls
    <3> QED
      BY <1>7, <2>2, <2>3, <3>1 DEF CallSound, Exists, IsSelf, SamePerson
  <2>4. ASSUME ~Live(call[p].first) PROVE CallSound(p)'
    <3>1. call'[p] = [call[p] EXCEPT !.pc = "replace"]
      BY <1>1, <1>10, <2>4 DEF CheckFirst
    <3> QED
      BY <2>3, <3>1
  <2>5. ASSUME Live(call[p].first) PROVE CallSound(p)'
    <3>1. CASE SamePerson(call[p].by, call[p].first)
      <4>1. call'[p] = NoCall
        BY <1>1, <1>10, <2>5, <3>1 DEF CheckFirst
      <4> QED
        BY <4>1 DEF CallSound
    <3>2. CASE ~SamePerson(call[p].by, call[p].first)
      <4>1. call'[p] = [call[p] EXCEPT !.pc = "second"]
        BY <1>1, <1>10, <2>5, <3>2 DEF CheckFirst
      <4> QED
        BY <2>3, <3>2, <4>1
    <3> QED
      BY <3>1, <3>2
  <2>6. CallSound(p)'
    BY <2>4, <2>5
  <2> QED
    BY <1>4, <1>5, <2>6, CallerSound
<1> QED
  BY <1>8, <1>9, <1>10

\* A write ends its call, whether it took effect or not.
LEMMA ReturnSound ==
  ASSUME IInv, TypeOK', NEW p \in Callers, Return(p), UNCHANGED <<retry, released>>,
         \A id \in ApprovalIds : RowGood(id)
  PROVE  IInv'
<1>1. call'[p] = NoCall /\ \A o \in Callers \ {p} : call'[o] = call[o]
  BY DEF Return, IInv, TypeOK, ServiceTypeOK
<1>2. CallSound(p)'
  BY <1>1 DEF CallSound
<1> QED
  BY <1>1, <1>2, CallerSound

\* The first of two approvals, recorded or replaced.
LEMMA FirstSound == ASSUME IInv, TypeOK', NEW p \in Callers, Mark(p) \/ Replace(p),
                           UNCHANGED <<retry, released>>
                    PROVE  IInv'
<1>1. call[p] # NoCall /\ TypeOK /\ CallSound(p) /\ call[p].pc \in {"mark", "replace"}
  BY DEF Mark, Replace, NoCall, IInv, CallsSound
<1>2. /\ call[p].id \in ApprovalIds /\ call[p].by.account \in Accounts
      /\ ~IsSelf(UiApprover(call[p].by.account), approvals[call[p].id].key)
  BY <1>1, CallFields DEF CallSound
<1>3. Return(p) /\ UNCHANGED decider
  BY DEF Mark, Replace
<1>4. \/ UNCHANGED storeVars
      \/ MarkPartiallyApproved(call[p].id, call[p].by.account, call[p].by.name)
      \/ ReplaceFirstApprover(call[p].id, call[p].first, call[p].by.account, call[p].by.name)
  BY DEF Mark, Replace
<1>5. \A id \in ApprovalIds : RowGood(id)
  <2>1. CASE UNCHANGED storeVars
    BY <1>3, <2>1, SameRows DEF storeVars
  <2>2. CASE \/ MarkPartiallyApproved(call[p].id, call[p].by.account, call[p].by.name)
             \/ ReplaceFirstApprover(call[p].id, call[p].first, call[p].by.account, call[p].by.name)
    BY <1>2, <1>3, <2>2, FirstGood
  <2> QED
    BY <1>4, <2>1, <2>2
<1> QED
  BY <1>3, <1>5, ReturnSound

\* What a minted token signs.
LEMMA MintedTyped ==
  ASSUME TypeOK, NEW id \in ApprovalIds, approvals[id] \in Rows, NEW now \in Nat
  PROVE  /\ MintedToken(id, now + TokenTTL) \in Tokens
         /\ Nonce \in Nat /\ now + TokenTTL \in Nat /\ now + PendingTTL \in Nat
BY ServiceAssumption, SMTT(30)
DEF MintedToken, TokenOf, Nonce, Tokens, Rows, TypeOK, ServiceTypeOK

\* The second of two approvals: the compare-and-swap pins the first approver the caller checked.
LEMMA SecondSound == ASSUME IInv, TypeOK', NEW p \in Callers, Second(p), UNCHANGED <<retry, released>>
                     PROVE  IInv'
<1> DEFINE id == call[p].id
           by == call[p].by
           expires == call[p].now + TokenTTL
<1>1. call[p] # NoCall /\ TypeOK /\ CallSound(p) /\ call[p].pc = "second"
  BY DEF Second, NoCall, IInv, CallsSound
<1>2. /\ id \in ApprovalIds /\ by \in Approver /\ by.account \in Accounts
      /\ ~IsSelf(by, approvals[id].key) /\ ~SamePerson(by, call[p].first)
  BY <1>1, CallFields DEF CallSound
<1>3. Return(p)
  BY DEF Second
<1>4. CASE UNCHANGED storeVars /\ UNCHANGED decider
  BY <1>3, <1>4, SameRows, ReturnSound DEF storeVars
<1>5. CASE /\ ApproveSecond(id, call[p].first, by.account, Nonce, MintedToken(id, expires), expires)
           /\ Decided(p)
  <2>1. /\ approvals[id].status = "partially_approved"
        /\ approvals[id].first = call[p].first /\ approvals[id].first \in Accounts
    BY <1>5 DEF ApproveSecond, ApproveSecondWhere, Live
  <2>2. approvals[id] \in Rows
    BY <1>1, <1>2, <2>1, RowTyped DEF Statuses, Waiting
  <2>3. /\ MintedToken(id, expires) \in Tokens /\ MintedToken(id, expires) # Null /\ Nonce \in Nat
        /\ expires \in Nat
    BY <1>1, <1>2, <2>2, CallFields, MintedTyped, TokenAssumption
  <2>4. MintedToken(id, expires) = TokenOf(id, approvals[id].key, approvals[id].impact, Nonce, expires)
    BY DEF MintedToken
  <2>5. AccountName[by.account] \in Names
    BY <1>2, NamesAssumption
  <2>6. decide(id, "approved", AccountName[by.account], Nonce, MintedToken(id, expires), expires)
    BY <1>5 DEF ApproveSecond
  <2>7. decider' = [decider EXCEPT ![id] = by]
    BY <1>5 DEF Decided
  <2>8. approvals[id].status \in Waiting
    BY <2>1 DEF Waiting
  <2> HIDE DEF id, by, expires
  <2>9. \A i \in ApprovalIds : RowGood(i)
    BY <1>2, <2>1, <2>3, <2>4, <2>5, <2>6, <2>7, <2>8, DecideGood
  <2> QED
    BY <1>3, <2>9, ReturnSound
<1> QED
  BY <1>4, <1>5 DEF Second

\* A lone approval: the row was no access grant when it was read and cannot have become one.
LEMMA LoneSound == ASSUME IInv, TypeOK', NEW p \in Callers, Lone(p), UNCHANGED <<retry, released>>
                   PROVE  IInv'
<1> DEFINE id == call[p].id
           by == call[p].by
           expires == call[p].now + TokenTTL
<1>1. call[p] # NoCall /\ TypeOK /\ CallSound(p) /\ call[p].pc = "lone"
  BY DEF Lone, NoCall, IInv, CallsSound
<1>2. /\ id \in ApprovalIds /\ by \in Approver /\ by.name \in Names
      /\ ~IsSelf(by, approvals[id].key) /\ approvals[id].impact \notin Grants
  BY <1>1, CallFields DEF CallSound
<1>3. Return(p)
  BY DEF Lone
<1>4. CASE UNCHANGED storeVars /\ UNCHANGED decider
  BY <1>3, <1>4, SameRows, ReturnSound DEF storeVars
<1>5. CASE /\ DecideApproval(id, "approved", by.name, Nonce, MintedToken(id, expires), expires)
           /\ Decided(p)
  <2>1. approvals[id].status \in Waiting
    BY <1>5 DEF DecideApproval, DecideWhere, Waiting
  <2>2. approvals[id] \in Rows
    BY <1>1, <1>2, <2>1, RowTyped DEF Statuses
  <2>3. /\ MintedToken(id, expires) \in Tokens /\ MintedToken(id, expires) # Null /\ Nonce \in Nat
        /\ expires \in Nat
    BY <1>1, <1>2, <2>2, CallFields, MintedTyped, TokenAssumption
  <2>4. MintedToken(id, expires) = TokenOf(id, approvals[id].key, approvals[id].impact, Nonce, expires)
    BY DEF MintedToken
  <2>5. decide(id, "approved", by.name, Nonce, MintedToken(id, expires), expires)
    BY <1>5 DEF DecideApproval
  <2>6. decider' = [decider EXCEPT ![id] = by]
    BY <1>5 DEF Decided
  <2> HIDE DEF id, by, expires
  <2>7. \A i \in ApprovalIds : RowGood(i)
    BY <1>2, <2>1, <2>3, <2>4, <2>5, <2>6, DecideGood
  <2> QED
    BY <1>3, <2>7, ReturnSound
<1> QED
  BY <1>4, <1>5 DEF Lone

\* A denial.
LEMMA DenySound == ASSUME IInv, TypeOK', NEW p \in Callers, DenyWrite(p), UNCHANGED <<retry, released>>
                   PROVE  IInv'
<1> DEFINE id == call[p].id
           by == call[p].by
<1>1. call[p] # NoCall /\ TypeOK
  BY DEF DenyWrite, NoCall, IInv
<1>2. id \in ApprovalIds /\ by \in Approver /\ by.name \in Names
  BY <1>1, CallFields
<1>3. Return(p)
  BY DEF DenyWrite
<1>4. CASE UNCHANGED storeVars /\ UNCHANGED decider
  BY <1>3, <1>4, SameRows, ReturnSound DEF storeVars
<1>5. CASE /\ DecideApproval(id, "denied", by.name, 0, Null, call[p].now + PendingTTL)
           /\ decider' = [decider EXCEPT ![id] = by]
  <2>1. approvals[id].status \in Waiting /\ decide(id, "denied", by.name, 0, Null, call[p].now + PendingTTL)
    BY <1>5 DEF DecideApproval, DecideWhere
  <2>2. call[p].now + PendingTTL \in Nat
    BY <1>1, CallFields, ServiceAssumption
  <2> HIDE DEF id, by
  <2>3. \A i \in ApprovalIds : RowGood(i)
    BY <1>2, <1>5, <2>1, <2>2, DecideGood
  <2> QED
    BY <1>3, <2>3, ReturnSound
<1> QED
  BY <1>4, <1>5 DEF DenyWrite

\* Every step of a decider keeps the invariant.
LEMMA DeciderSound == ASSUME IInv, TypeOK', DeciderNext, UNCHANGED <<retry, released>>
                      PROVE  IInv'
<1>1. TypeOK /\ call \in [Callers -> Calls \cup {NoCall}]
  BY DEF IInv, TypeOK, ServiceTypeOK
<1>2. ASSUME NEW p \in Callers, NEW verb \in {"approve", "deny"}, NEW by \in Approver,
             NEW id \in ApprovalIds, NEW signedIn \in 0 .. clock, BeginCall(p, verb, by, id, signedIn)
      PROVE  IInv'
  <2>1. UNCHANGED <<approvals, decider>> /\ Exists(id)
    BY <1>2 DEF BeginCall, storeVars
  <2>2. \A i \in ApprovalIds : RowGood(i)
    BY <2>1, SameRows
  <2>3. call'[p].pc \in {"approve", "deny"} /\ call'[p].id = id
    BY <1>1, <1>2 DEF BeginCall
  <2>4. \A o \in Callers \ {p} : call'[o] = call[o]
    BY <1>1, <1>2 DEF BeginCall
  <2>5. CallSound(p)'
    BY <2>1, <2>3 DEF CallSound, Exists
  <2> QED
    BY <2>2, <2>4, <2>5, CallerSound
<1>3. ASSUME NEW p \in Callers, LoadDeny(p) PROVE IInv'
  <2>1. UNCHANGED <<approvals, decider>>
    BY <1>3 DEF LoadDeny, storeVars
  <2>2. \A i \in ApprovalIds : RowGood(i)
    BY <2>1, SameRows
  <2>3. CallSound(p) /\ call[p] # NoCall /\ call[p] \in Calls
    BY <1>1, <1>3 DEF LoadDeny, NoCall, IInv, CallsSound
  <2>4. \A o \in Callers \ {p} : call'[o] = call[o]
    BY <1>1, <1>3 DEF LoadDeny
  <2>5. call'[p] = NoCall \/ (call'[p].pc = "denyWrite" /\ call'[p].id = call[p].id)
    BY <1>1, <1>3, <2>3 DEF LoadDeny, Calls
  <2>6. CallSound(p)'
    BY <2>1, <2>3, <2>5 DEF CallSound, Exists
  <2> QED
    BY <2>2, <2>4, <2>6, CallerSound
<1>4. ASSUME NEW p \in Callers, Abandon(p) PROVE IInv'
  BY <1>4, SameRows, ReturnSound DEF Abandon, storeVars
<1>5. CASE \/ \E a \in Accounts : NewApprover(a) \/ Revoke(a)
           \/ Tick
  <2>1. UNCHANGED <<approvals, decider, call>>
    BY <1>5 DEF NewApprover, Revoke, CreateApprover, RevokeApprover, Tick, serviceVars, storeVars
  <2>2. \A i \in ApprovalIds : RowGood(i)
    BY <2>1, SameRows
  <2>3. RowsKept
    BY <2>2 DEF RowsKept, RowGood
  <2> QED
    BY <2>1, <2>2, <2>3, SameCall, SameRetry, SameReleases, AllSound
<1> QED
  BY <1>2, <1>3, <1>4, <1>5, ApproveSound, FirstSound, SecondSound, LoneSound, DenySound DEF DeciderNext

-----------------------------------------------------------------------------
(* Every step of the retries preserves the invariant *)

\* The fields of a retry that holds a copy of a row.
LEMMA RetryFields ==
  ASSUME TypeOK, NEW q \in Retriers, retry[q].pc \in RetryPcs \ {"create"}
  PROVE  /\ retry[q] \in Retries
         /\ retry[q].id \in ApprovalIds /\ retry[q].row \in Rows
BY DEF TypeOK, Retries, Creations, NoRetry, RetryPcs

\* Verify copies a row only on the answers RetrySound allows.
LEMMA VerifySound == ASSUME IInv, TypeOK', NEW q \in Retriers, NEW k \in Keys, NEW impact \in Impacts,
                            Verify(q, k, impact)
                     PROVE  IInv'
<1>1. TypeOK /\ retry \in [Retriers -> Retries \cup Creations \cup {NoRetry}]
  BY DEF IInv, TypeOK
<1>2. UNCHANGED <<approvals, decider, call, released>>
  BY DEF Verify, storeVars, serviceVars
<1>3. \A i \in ApprovalIds : RowGood(i)
  BY <1>2, SameRows
<1>4. \A o \in Retriers \ {q} : retry'[o] = retry[o]
  BY <1>1 DEF Verify
<1>5. CASE retry'[q].pc \notin {"expire", "consume", "spend"}
  <2>1. RetrySound(q)'
    BY <1>5 DEF RetrySound
  <2> QED
    BY <1>2, <1>3, <1>4, <2>1, RetrierSound
<1>6. CASE retry'[q].pc \in {"expire", "consume", "spend"}
  <2>1. retry' # [retry EXCEPT ![q] = ToCreate(k, impact)]
    BY <1>1, <1>6 DEF ToCreate
  <2>2. PICK id \in Latest(k) :
          retry'[q] = AfterVerify(id, approvals[id], k, impact, VerifyAnswer(id, approvals[id], k, impact))
    BY <1>1, <2>1 DEF Verify
  <2>3. id \in ApprovalIds /\ Exists(id) /\ approvals[id].key = k
    BY DEF Latest, RowsOf
  <2> DEFINE row == approvals[id]
             answer == VerifyAnswer(id, row, k, impact)
  <2>4. answer \in {"expire", "verified"}
    BY <1>6, <2>2 DEF AfterVerify, ToCreate, NoRetry, VerifyAnswer
  <2>5. /\ retry'[q].key = k /\ retry'[q].impact = impact /\ retry'[q].id = id /\ retry'[q].row = row
        /\ retry'[q].pc = IF answer = "verified" THEN "consume" ELSE "expire"
    BY <2>2, <2>4 DEF AfterVerify
  <2>6. answer = "expire" => row.status \in Waiting \cup {"approved"}
    BY DEF VerifyAnswer
  <2>7. answer = "verified" =>
          /\ row.status = "approved"
          /\ row.token = TokenOf(id, k, impact, row.nonce, row.expires)
    BY DEF VerifyAnswer
  <2>8. answer = "verified" => row.impact = impact
    <3>1. RowSound(id)
      BY <2>3 DEF IInv, RowsSound
    <3> QED
      BY <2>3, <2>7, <3>1 DEF RowSound, TokenOf
  <2> HIDE DEF answer
  <2>9. RetrySound(q)'
    BY <1>2, <2>3, <2>4, <2>5, <2>6, <2>7, <2>8 DEF RetrySound, Exists, Decisive
  <2> QED
    BY <1>2, <1>3, <1>4, <2>9, RetrierSound
<1> QED
  BY <1>5, <1>6

\* A retry that only writes a status, creates a row or ends.
LEMMA QuietSound == ASSUME IInv, TypeOK', NEW q \in Retriers,
                           VerifyWrite(q) \/ ConsumeLate(q) \/ Create(q) \/ GiveUp(q)
                    PROVE  IInv'
<1>1. TypeOK /\ retry \in [Retriers -> Retries \cup Creations \cup {NoRetry}]
  BY DEF IInv, TypeOK
<1>2. UNCHANGED <<decider, call, released>>
  BY DEF VerifyWrite, ConsumeLate, Create, GiveUp, serviceVars
<1>3. \A o \in Retriers \ {q} : retry'[o] = retry[o]
  BY <1>1 DEF VerifyWrite, ConsumeLate, Create, GiveUp
<1>4. retry'[q].pc \in {"create", "idle"}
  BY <1>1 DEF VerifyWrite, ConsumeLate, Create, GiveUp, ToCreate, NoRetry
<1>5. RetrySound(q)'
  BY <1>4 DEF RetrySound
<1>6. \A i \in ApprovalIds : RowGood(i)
  <2>1. CASE VerifyWrite(q)
    <3>1. retry[q].pc \in {"expire", "supersede"} /\ retry[q].id \in ApprovalIds
      BY <1>1, <2>1, RetryFields DEF VerifyWrite, RetryPcs
    <3>2. CASE retry[q].pc = "expire"
      <4>1. retry[q].row.status \in Waiting \cup {"approved"}
        BY <3>2 DEF IInv, RetriesSound, RetrySound
      <4>2. WriteStatus(retry[q].id, retry[q].row.status, "expired")
        BY <2>1, <3>2 DEF VerifyWrite
      <4> QED
        BY <1>2, <3>1, <4>1, <4>2, StatusGood
    <3>3. CASE retry[q].pc = "supersede"
      <4>1. WriteStatus(retry[q].id, "approved", "superseded")
        BY <2>1, <3>3 DEF VerifyWrite
      <4> QED
        BY <1>2, <3>1, <4>1, StatusGood
    <3> QED
      BY <3>1, <3>2, <3>3
  <2>2. CASE ConsumeLate(q)
    <3>1. retry[q].id \in ApprovalIds /\ WriteStatus(retry[q].id, "approved", "expired")
      BY <1>1, <2>2, RetryFields DEF ConsumeLate, RetryPcs
    <3> QED
      BY <1>2, <3>1, StatusGood
  <2>3. CASE Create(q)
    <3>1. retry[q].key \in Keys /\ retry[q].impact \in Impacts
      BY <1>1, <2>3 DEF Create, Retries, Creations, NoRetry
    <3>2. PICK id \in ApprovalIds : CreatePending(id, retry[q].key, retry[q].impact)
      BY <2>3 DEF Create
    <3> QED
      BY <1>2, <3>1, <3>2, CreateGood
  <2>4. CASE GiveUp(q)
    BY <1>2, <2>4, SameRows DEF GiveUp, storeVars
  <2> QED
    BY <2>1, <2>2, <2>3, <2>4
<1> QED
  BY <1>2, <1>3, <1>5, <1>6, RetrierSound

\* Consume judges the copy in time, or sends the retry to expire its row.
LEMMA ConsumeSound == ASSUME IInv, TypeOK', NEW q \in Retriers, Consume(q) PROVE IInv'
<1>1. TypeOK /\ retry \in [Retriers -> Retries \cup Creations \cup {NoRetry}]
  BY DEF IInv, TypeOK
<1>2. UNCHANGED <<approvals, decider, call, released>>
  BY DEF Consume, storeVars, serviceVars
<1>3. \A i \in ApprovalIds : RowGood(i)
  BY <1>2, SameRows
<1>4. \A o \in Retriers \ {q} : retry'[o] = retry[o]
  BY <1>1 DEF Consume
<1>5. retry[q] \in Retries /\ retry[q].pc = "consume" /\ RetrySound(q)
  BY <1>1, RetryFields DEF Consume, RetryPcs, IInv, RetriesSound
<1>6. /\ retry'[q].pc = IF Lapsed(retry[q].row) THEN "expireLate" ELSE "spend"
      /\ retry'[q].now = clock /\ retry'[q].id = retry[q].id /\ retry'[q].row = retry[q].row
      /\ retry'[q].key = retry[q].key /\ retry'[q].impact = retry[q].impact
  BY <1>1, <1>5 DEF Consume, Retries
<1>7. ~Lapsed(retry[q].row) => clock <= retry[q].row.expires
  BY <1>1, <1>5 DEF Lapsed, Retries, Rows, TypeOK, ServiceTypeOK
<1>8. RetrySound(q)'
  BY <1>2, <1>5, <1>6, <1>7 DEF RetrySound, Exists
<1> QED
  BY <1>2, <1>3, <1>4, <1>8, RetrierSound

\* Spend releases at most once: a consumed row is final, an approved one released nothing yet.
LEMMA SpendSound == ASSUME IInv, TypeOK', NEW q \in Retriers, Spend(q) PROVE IInv'
<1> DEFINE r == retry[q]
           release == [key |-> r.key, impact |-> r.impact, at |-> r.now]
<1>1. TypeOK /\ retry \in [Retriers -> Retries \cup Creations \cup {NoRetry}]
  BY DEF IInv, TypeOK
<1>2. r.pc = "spend" /\ UNCHANGED <<decider, call>>
  BY DEF Spend, serviceVars
<1>3. r.id \in ApprovalIds /\ r.row \in Rows /\ r \in Retries
  BY <1>1, <1>2, RetryFields DEF RetryPcs
<1>4. \A o \in Retriers \ {q} : retry'[o] = retry[o]
  BY <1>1 DEF Spend
<1>5. retry'[q].pc = "idle"
  BY <1>1 DEF Spend, NoRetry
<1>6. RetrySound(q)'
  BY <1>5 DEF RetrySound
<1>7. CASE UNCHANGED storeVars /\ UNCHANGED released
  BY <1>2, <1>4, <1>6, <1>7, SameRows, RetrierSound DEF storeVars
<1>8. CASE /\ ConsumeApproval(r.id, r.row.nonce)
           /\ released' = [released EXCEPT ![r.id] = Append(@, release)]
  <2> PICK id \in ApprovalIds : id = r.id
    BY <1>3
  <2>1. r.row.nonce \in Nat /\ r.row.expires \in Nat /\ r.now \in Nat
    BY <1>3 DEF Rows, Retries
  <2>2. \A i \in ApprovalIds : RowGood(i)
    BY <1>2, <1>3, <1>8, <2>1, ConsumeGood
  <2>3. approvals'[id].status = "consumed"
    BY <1>2, <1>3, <1>8, <2>1, ConsumeGood
  <2>4. RowsKept
    BY <2>2 DEF RowsKept, RowGood
  <2>5. /\ Exists(id) /\ approvals[id].status \in Decisive
        /\ approvals[id].key = r.key /\ approvals[id].impact = r.impact
        /\ approvals[id].expires = r.row.expires
    BY <1>2 DEF IInv, RetriesSound, RetrySound
  <2>6. /\ approvals'[id].key = r.key /\ approvals'[id].impact = r.impact
        /\ approvals'[id].expires = r.row.expires
    BY <1>3, <2>4, <2>5 DEF RowsKept, RowKept
  <2>7. r.now <= r.row.expires
    BY <1>2 DEF IInv, RetriesSound, RetrySound
  \* The row was approved until now, so nothing was released from it.
  <2>8. released[id] \in Seq(Releases) /\ Len(released[id]) = 0
    <3>1. approvals[id].status = "approved"
      BY <1>8 DEF ConsumeApproval, ConsumeWhere
    <3>2. released[id] \in Seq(Releases)
      BY <1>1, <1>3 DEF TypeOK
    <3>3. SpentRight(id)
      BY <1>3, SpentRightForAll DEF IInv
    <3>4. 1 \notin DOMAIN released[id] /\ Len(released[id]) <= 1
      BY <3>1, <3>3 DEF SpentRight
    <3>5. DOMAIN released[id] = 1 .. Len(released[id]) /\ Len(released[id]) \in Nat
      BY <3>2, LenProperties
    <3> DEFINE n == Len(released[id])
    <3>6. 1 \notin 1 .. n /\ n <= 1 /\ n \in Nat
      BY <3>4, <3>5
    <3> HIDE DEF n
    <3>7. n = 0
      BY <3>6
    <3> QED
      BY <3>2, <3>7 DEF n
  <2>9. SpentRight(id)'
    <3>1. released'[id] = Append(released[id], release)
      BY <1>1, <1>3, <1>8 DEF TypeOK
    <3>2. release \in Releases
      BY <1>1, <1>2, <2>1, RetryFields DEF Releases, Retries, RetryPcs
    <3>3. Len(released'[id]) = 1 /\ \A n \in DOMAIN released'[id] : released'[id][n] = release
      <4> DEFINE old == released[id]
                 new == released'[id]
      <4>1. old \in Seq(Releases) /\ Len(old) = 0 /\ new = Append(old, release)
        BY <2>8, <3>1
      <4> HIDE DEF old, new, release, r
      <4>2. Len(new) = 1 /\ new[1] = release /\ new \in Seq(Releases)
        BY <3>2, <4>1, AppendProperties
      <4>3. DOMAIN new = 1 .. 1
        BY <4>2, LenProperties
      <4>4. \A n \in DOMAIN new : new[n] = release
        BY <4>2, <4>3
      <4> QED
        BY <4>2, <4>4 DEF new
    <3> QED
      BY <2>3, <2>6, <2>7, <3>3 DEF SpentRight
  <2>10. \A i \in ApprovalIds : SpentRight(i)'
    <3>1. ASSUME NEW i \in ApprovalIds, i # id PROVE SpentRight(i)'
      <4>1. released'[i] = released[i]
        BY <1>1, <1>8, <3>1 DEF TypeOK
      <4> QED
        BY <2>4, <4>1, SameReleases
    <3> QED
      BY <2>9, <3>1
  <2>11. \A o \in Retriers : RetrySound(o)'
    BY <1>4, <1>6, <2>4, SameRetry
  <2>12. \A p \in Callers : CallSound(p)'
    BY <1>2, <2>4, SameCall
  <2> QED
    BY <2>2, <2>10, <2>11, <2>12, AllSound
<1>9. \/ UNCHANGED storeVars /\ UNCHANGED released
      \/ /\ ConsumeApproval(r.id, r.row.nonce)
         /\ released' = [released EXCEPT ![r.id] = Append(@, release)]
  BY DEF Spend
<1> QED
  BY <1>7, <1>8, <1>9

\* Every step of the system keeps the invariant.
LEMMA StepSound == IInv /\ [Next]_vars => IInv'
<1> SUFFICES ASSUME IInv, [Next]_vars PROVE IInv'
  OBVIOUS
<1>1. TypeOK'
  BY StepTyped DEF IInv
<1>2. CASE DeciderNext /\ UNCHANGED <<retry, released>>
  BY <1>1, <1>2, DeciderSound
<1>3. CASE RetryNext
  BY <1>1, <1>3, VerifySound, QuietSound, ConsumeSound, SpendSound DEF RetryNext
<1>4. CASE UNCHANGED vars
  <2>1. UNCHANGED <<approvals, decider, call, retry, released>>
    BY <1>4 DEF vars, storeVars, serviceVars
  <2>2. \A i \in ApprovalIds : RowGood(i)
    BY <2>1, SameRows
  <2>3. RowsKept
    BY <2>2 DEF RowsKept, RowGood
  <2> QED
    BY <1>1, <2>1, <2>2, <2>3, SameCall, SameRetry, SameReleases, AllSound
<1> QED
  BY <1>2, <1>3, <1>4 DEF Next

-----------------------------------------------------------------------------

\* The invariant holds in every reachable state.
LEMMA Inductive == Spec => []IInv
BY InitSound, StepSound, PTL DEF Spec

\* Every token the service mints rests on people the rules accept: nobody
\* the request was made for, and for an access grant two accounts that are
\* not the same person, however approvals, revocations and new accounts
\* interleave.
THEOREM MintedByTheRightPeopleHolds == Spec => []MintedByTheRightPeople
<1>1. IInv => MintedByTheRightPeople
  BY DEF IInv
<1> QED
  BY <1>1, Inductive, PTL

\* An approval is spent at most once, by a retry of the request and the
\* impact that was approved, and before it lapsed, however many retries hold
\* a copy of it.
THEOREM SpentOnceAsApprovedHolds == Spec => []SpentOnceAsApproved
<1>1. IInv => SpentOnceAsApproved
  BY DEF IInv
<1> QED
  BY <1>1, Inductive, PTL

-----------------------------------------------------------------------------
(* Every step.  What the theorems below say follows from one lemma,         *)
(* StepWrites: a step writes at most one row, in one of five ways.  The     *)
(* invariant CInv adds what a writer knows of the row it writes.            *)

\* How a status may move on.
Onward(s, t) ==
  \/ s = t
  \/ s = "pending"
  \/ s = "partially_approved" /\ t # "pending"
  \/ s = "approved" /\ t \in Decisive

\* A row has a first approver when it waits for the second, and only a grant
\* ever has; an id not asked about has told nothing.
RowFits(id) ==
  LET row == approvals[id] IN
  /\ ~Exists(id) => outbox[id] = <<>>
  /\ Exists(id) =>
       /\ row.status = "pending" => row.first = Null
       /\ row.status = "partially_approved" => row.first # Null
       /\ row.first # Null => row.impact \in Grants

\* A retry that is about to end a row holds a copy that had lapsed, of which
\* the row has at most moved on; while it has not, its deadline is the copy's.
CopyFits(q) ==
  LET r == retry[q]
      row == approvals[r.id]
  IN /\ r.pc = "expire" =>
          /\ Exists(r.id) /\ Lapsed(r.row)
          /\ Onward(r.row.status, row.status)
          /\ row.status = r.row.status => row.expires = r.row.expires
     /\ r.pc = "expireLate" =>
          /\ Exists(r.id) /\ Lapsed(r.row)
          /\ row.status \in Decisive /\ row.expires = r.row.expires
     /\ r.pc = "supersede" => Exists(r.id) /\ row.impact # r.impact

\* A first approval is only on its way to a grant.
MarkFits(p) == call[p].pc = "mark" => approvals[call[p].id].impact \in Grants

CInv ==
  /\ IInv
  /\ \A id \in ApprovalIds : RowFits(id)
  /\ \A q \in Retriers : CopyFits(q)
  /\ \A p \in Callers : MarkFits(p)

-----------------------------------------------------------------------------
(* The ways a step writes a row *)

Tells(id, status, first) == outbox'[id] = Append(outbox[id], [status |-> status, first |-> first])

Ask(id) ==
  LET new == approvals'[id] IN
  /\ ~Exists(id) /\ new.status = "pending" /\ new.first = Null /\ new.token = Null
  /\ Tells(id, "pending", Null)

\* The first of two approvals, or another in place of one that no longer counts.
Half(id) ==
  LET row == approvals[id]
      new == approvals'[id]
  IN /\ \/ row.status = "pending" /\ row.impact \in Grants
        \/ row.status = "partially_approved" /\ ~Live(row.first)
     /\ new.status = "partially_approved" /\ new.first \in Accounts
     /\ new.token = row.token /\ new.impact = row.impact /\ new.expires = row.expires
     /\ Tells(id, "partially_approved", AccountName[new.first])
     /\ decider'[id] = decider[id]

\* The approval that mints the token: a lone one, or the second of two.
Grant(id) ==
  LET row == approvals[id]
      new == approvals'[id]
      by  == decider'[id]
  IN /\ \/ row.status = "pending" /\ row.impact \notin Grants
        \/ /\ row.status = "partially_approved"
           /\ Live(row.first) /\ Live(by.account) /\ ~SamePerson(by, row.first)
     /\ by \in Approver
     /\ new.status = "approved" /\ new.token # Null /\ new.first = row.first /\ new.impact = row.impact
     /\ Tells(id, "approved", Null)

Refusal(id) ==
  LET row == approvals[id]
      new == approvals'[id]
  IN /\ row.status \in Waiting
     /\ new.status = "denied" /\ new.token = Null /\ new.first = row.first /\ new.impact = row.impact
     /\ Tells(id, "denied", Null)

\* A row ends: it has lapsed, a fresh impact supersedes it, or it is spent.
Ending(id) ==
  LET row == approvals[id]
      new == approvals'[id]
  IN /\ \/ row.status \in Waiting \cup {"approved"} /\ new.status = "expired" /\ Lapsed(row)
        \/ /\ row.status = "approved" /\ new.status = "superseded"
           /\ \E q \in Retriers : retry[q].pc = "supersede" /\ retry[q].impact # row.impact
        \/ row.status = "approved" /\ new.status = "consumed"
     /\ new.token = row.token /\ new.first = row.first /\ new.impact = row.impact /\ new.expires = row.expires
     /\ outbox'[id] = outbox[id] /\ decider'[id] = decider[id]

Write(id) ==
  /\ Ask(id) \/ (Exists(id) /\ (Half(id) \/ Grant(id) \/ Refusal(id) \/ Ending(id)))
  /\ Exists(id)'
  /\ \A i \in ApprovalIds \ {id} :
       approvals'[i] = approvals[i] /\ outbox'[i] = outbox[i] /\ decider'[i] = decider[i]

NoWrite == UNCHANGED <<approvals, outbox, decider>>

-----------------------------------------------------------------------------
(* Each transaction is one of them *)

\* CreateApproval.
LEMMA CreateWrites ==
  ASSUME CInv, TypeOK', NEW id \in ApprovalIds, NEW k, NEW impact, CreatePending(id, k, impact), UNCHANGED decider
  PROVE  Write(id)
<1> USE DEF CInv, IInv, TypeOK, ServiceTypeOK, StoreTypeOK
<1>1. ~Exists(id) /\ Tells(id, "pending", Null)
  BY DEF CreatePending, CreateApproval, Record, Tells
<1>2. approvals'[id].status = "pending" /\ approvals'[id].first = Null /\ approvals'[id].token = Null
  BY DEF CreatePending, CreateApproval
<1>3. Exists(id)'
  BY <1>2 DEF Exists, NoRow
<1>4. \A i \in ApprovalIds \ {id} :
        approvals'[i] = approvals[i] /\ outbox'[i] = outbox[i] /\ decider'[i] = decider[i]
  BY DEF CreatePending, CreateApproval, Record
<1> QED
  BY <1>1, <1>2, <1>3, <1>4 DEF Write, Ask

\* MarkPartiallyApproved and ReplaceFirstApprover.
LEMMA HalfWrites ==
  ASSUME CInv, NEW id \in ApprovalIds, NEW by \in Accounts, NEW first,
         \/ MarkPartiallyApproved(id, by, AccountName[by]) /\ approvals[id].impact \in Grants
         \/ ReplaceFirstApprover(id, first, by, AccountName[by]),
         UNCHANGED decider
  PROVE  Write(id)
<1> USE DEF CInv, IInv, TypeOK, ServiceTypeOK, StoreTypeOK
<1>1. \/ approvals[id].status = "pending" /\ approvals[id].impact \in Grants
      \/ approvals[id].status = "partially_approved" /\ ~Live(approvals[id].first)
  BY DEF MarkPartiallyApproved, MarkWhere, ReplaceFirstApprover, ReplaceWhere
<1>2. approvals[id] \in Rows /\ Exists(id)
  BY <1>1, RowTyped DEF Statuses, Waiting
<1>3. approvals'[id] = [approvals[id] EXCEPT !.status = "partially_approved", !.first = by]
  <2>1. CASE MarkPartiallyApproved(id, by, AccountName[by])
    BY <2>1 DEF MarkPartiallyApproved
  <2>2. CASE ReplaceFirstApprover(id, first, by, AccountName[by])
    <3>1. approvals'[id] = [approvals[id] EXCEPT !.first = by]
      BY <2>2 DEF ReplaceFirstApprover
    <3>2. approvals[id].status = "partially_approved"
      BY <2>2 DEF ReplaceFirstApprover, ReplaceWhere
    <3> QED
      BY <1>2, <3>1, <3>2 DEF Rows
  <2> QED
    BY <2>1, <2>2
<1>4. /\ approvals'[id].status = "partially_approved" /\ approvals'[id].first = by
      /\ approvals'[id].token = approvals[id].token /\ approvals'[id].impact = approvals[id].impact
      /\ approvals'[id].expires = approvals[id].expires
  BY <1>2, <1>3 DEF Rows
<1>5. Exists(id)'
  BY <1>4 DEF Exists, NoRow
<1>6. Record(id, "partially_approved", AccountName[by])
  BY DEF MarkPartiallyApproved, ReplaceFirstApprover
<1>7. Tells(id, "partially_approved", AccountName[by])
  BY <1>6 DEF Record, Tells
<1>8. \A i \in ApprovalIds \ {id} :
        approvals'[i] = approvals[i] /\ outbox'[i] = outbox[i] /\ decider'[i] = decider[i]
  BY <1>6 DEF MarkPartiallyApproved, ReplaceFirstApprover, Record
<1>9. Half(id)
  BY <1>1, <1>4, <1>7 DEF Half
<1> QED
  BY <1>2, <1>5, <1>8, <1>9 DEF Write

\* DecideApproval and ApproveSecond.
LEMMA DecideWrites ==
  ASSUME CInv, NEW id \in ApprovalIds, NEW status \in {"approved", "denied"}, NEW name, NEW nonce,
         NEW token, NEW expires, NEW by \in Approver,
         decide(id, status, name, nonce, token, expires),
         decider' = [decider EXCEPT ![id] = by],
         approvals[id].status \in Waiting,
         status = "denied" => token = Null,
         status = "approved" =>
           /\ token # Null
           /\ \/ approvals[id].status = "pending" /\ approvals[id].impact \notin Grants
              \/ /\ approvals[id].status = "partially_approved"
                 /\ Live(approvals[id].first) /\ Live(by.account) /\ ~SamePerson(by, approvals[id].first)
  PROVE  Write(id)
<1> USE DEF CInv, IInv, TypeOK, ServiceTypeOK, StoreTypeOK
<1>1. approvals[id] \in Rows /\ Exists(id)
  BY RowTyped DEF Statuses
<1>2. approvals'[id] = [approvals[id] EXCEPT !.status = status, !.decidedBy = name, !.nonce = nonce,
                                             !.token = token, !.expires = expires]
  BY DEF decide
<1>3. /\ approvals'[id].status = status /\ approvals'[id].token = token
      /\ approvals'[id].first = approvals[id].first /\ approvals'[id].impact = approvals[id].impact
  BY <1>1, <1>2 DEF Rows
<1>4. Exists(id)'
  BY <1>3 DEF Exists, NoRow
<1>5. Tells(id, status, Null)
  BY DEF decide, Record, Tells
<1>6. \A i \in ApprovalIds \ {id} :
        approvals'[i] = approvals[i] /\ outbox'[i] = outbox[i] /\ decider'[i] = decider[i]
  BY DEF decide, Record
<1>7. decider'[id] = by
  OBVIOUS
<1>8. CASE status = "approved"
  <2>1. Grant(id)
    BY <1>3, <1>5, <1>7, <1>8 DEF Grant, SamePerson
  <2> QED
    BY <1>1, <1>4, <1>6, <2>1 DEF Write
<1>9. CASE status = "denied"
  <2>1. Refusal(id)
    BY <1>3, <1>5, <1>9 DEF Refusal
  <2> QED
    BY <1>1, <1>4, <1>6, <2>1 DEF Write
<1> QED
  BY <1>8, <1>9

\* SetApprovalStatus and ConsumeApproval.
LEMMA EndWrites ==
  ASSUME CInv, NEW id \in ApprovalIds, NEW to \in {"expired", "superseded", "consumed"},
         approvals' = [approvals EXCEPT ![id].status = to], UNCHANGED <<outbox, decider>>,
         approvals[id].status \in Waiting \cup {"approved"},
         to = "expired" => Lapsed(approvals[id]),
         to = "superseded" =>
           /\ approvals[id].status = "approved"
           /\ \E q \in Retriers : retry[q].pc = "supersede" /\ retry[q].impact # approvals[id].impact,
         to = "consumed" => approvals[id].status = "approved"
  PROVE  Write(id)
<1> USE DEF CInv, IInv, TypeOK, ServiceTypeOK, StoreTypeOK
<1>1. approvals[id] \in Rows /\ Exists(id)
  BY RowTyped DEF Statuses
<1>2. approvals'[id] = [approvals[id] EXCEPT !.status = to]
  OBVIOUS
<1>3. /\ approvals'[id].status = to /\ approvals'[id].token = approvals[id].token
      /\ approvals'[id].first = approvals[id].first /\ approvals'[id].impact = approvals[id].impact
      /\ approvals'[id].expires = approvals[id].expires
  BY <1>1, <1>2 DEF Rows
<1>4. Exists(id)'
  BY <1>3 DEF Exists, NoRow
<1>5. Ending(id)
  BY <1>3 DEF Ending
<1> QED
  BY <1>1, <1>4, <1>5 DEF Write

\* The steps of the deciders.
LEMMA DeciderWrites ==
  ASSUME CInv, TypeOK', DeciderNext
  PROVE  NoWrite \/ \E id \in ApprovalIds : Write(id)
<1>0. IInv /\ TypeOK
  BY DEF CInv, IInv
<1>1. ASSUME NEW p \in Callers, Mark(p) \/ Replace(p) PROVE NoWrite \/ \E id \in ApprovalIds : Write(id)
  <2>1. call[p] # NoCall /\ call[p].pc \in {"mark", "replace"} /\ CallSound(p) /\ MarkFits(p)
    BY <1>0, <1>1 DEF Mark, Replace, NoCall, IInv, CallsSound, CInv
  <2>2. call[p].id \in ApprovalIds /\ call[p].by.account \in Accounts
        /\ call[p].by.name = AccountName[call[p].by.account]
    <3>1. call[p].id \in ApprovalIds /\ call[p].by.account \in Accounts
          /\ call[p].by = UiApprover(call[p].by.account)
      BY <1>0, <2>1, CallFields DEF CallSound
    <3>2. \A a : UiApprover(a).name = AccountName[a]
      BY DEF UiApprover
    <3> QED
      BY <3>1, <3>2
  <2>3. UNCHANGED decider
    BY <1>1 DEF Mark, Replace
  <2>4. CASE UNCHANGED storeVars
    BY <2>3, <2>4 DEF NoWrite, storeVars
  <2>5. CASE \/ call[p].pc = "mark" /\ MarkPartiallyApproved(call[p].id, call[p].by.account, call[p].by.name)
             \/ ReplaceFirstApprover(call[p].id, call[p].first, call[p].by.account, call[p].by.name)
    <3>1. Write(call[p].id)
      BY <2>1, <2>2, <2>3, <2>5, HalfWrites DEF MarkFits
    <3> QED
      BY <2>2, <3>1
  <2> QED
    BY <1>1, <2>4, <2>5 DEF Mark, Replace
<1>2. ASSUME NEW p \in Callers, Second(p) PROVE NoWrite \/ \E id \in ApprovalIds : Write(id)
  <2> DEFINE id == call[p].id
             by == call[p].by
             expires == call[p].now + TokenTTL
  <2>1. call[p] # NoCall /\ CallSound(p) /\ call[p].pc = "second"
    BY <1>0, <1>2 DEF Second, NoCall, IInv, CallsSound
  <2>2. id \in ApprovalIds /\ by \in Approver /\ ~SamePerson(by, call[p].first)
    BY <1>0, <2>1, CallFields DEF CallSound
  <2>3. CASE UNCHANGED storeVars /\ UNCHANGED decider
    BY <2>3 DEF NoWrite, storeVars
  <2>4. CASE /\ ApproveSecond(id, call[p].first, by.account, Nonce, MintedToken(id, expires), expires)
             /\ Decided(p)
    <3>1. /\ approvals[id].status = "partially_approved" /\ approvals[id].first = call[p].first
          /\ Live(approvals[id].first) /\ Live(by.account)
      BY <2>4 DEF ApproveSecond, ApproveSecondWhere
    <3>2. approvals[id] \in Rows
      BY <1>0, <2>2, <3>1, RowTyped DEF Statuses, Waiting
    <3>3. MintedToken(id, expires) # Null
      BY <1>0, <2>1, <2>2, <3>2, CallFields, MintedTyped, TokenAssumption
    <3>4. decide(id, "approved", AccountName[by.account], Nonce, MintedToken(id, expires), expires)
      BY <2>4 DEF ApproveSecond
    <3>5. decider' = [decider EXCEPT ![id] = by] /\ approvals[id].status \in Waiting
      BY <2>4, <3>1 DEF Decided, Waiting
    <3> HIDE DEF id, by, expires
    <3>6. Write(id)
      BY <2>2, <3>1, <3>3, <3>4, <3>5, DecideWrites
    <3> QED
      BY <2>2, <3>6
  <2> QED
    BY <1>2, <2>3, <2>4 DEF Second
<1>3. ASSUME NEW p \in Callers, Lone(p) PROVE NoWrite \/ \E id \in ApprovalIds : Write(id)
  <2> DEFINE id == call[p].id
             by == call[p].by
             expires == call[p].now + TokenTTL
  <2>1. call[p] # NoCall /\ CallSound(p) /\ call[p].pc = "lone"
    BY <1>0, <1>3 DEF Lone, NoCall, IInv, CallsSound
  <2>2. id \in ApprovalIds /\ by \in Approver /\ approvals[id].impact \notin Grants
    BY <1>0, <2>1, CallFields DEF CallSound
  <2>3. CASE UNCHANGED storeVars /\ UNCHANGED decider
    BY <2>3 DEF NoWrite, storeVars
  <2>4. CASE /\ DecideApproval(id, "approved", by.name, Nonce, MintedToken(id, expires), expires)
             /\ Decided(p)
    <3>1. approvals[id].status = "pending"
      BY <2>4 DEF DecideApproval, DecideWhere
    <3>2. approvals[id] \in Rows
      BY <1>0, <2>2, <3>1, RowTyped DEF Statuses, Waiting
    <3>3. MintedToken(id, expires) # Null
      BY <1>0, <2>1, <2>2, <3>2, CallFields, MintedTyped, TokenAssumption
    <3>4. decide(id, "approved", by.name, Nonce, MintedToken(id, expires), expires)
      BY <2>4 DEF DecideApproval
    <3>5. decider' = [decider EXCEPT ![id] = by] /\ approvals[id].status \in Waiting
      BY <2>4, <3>1 DEF Decided, Waiting
    <3> HIDE DEF id, by, expires
    <3>6. Write(id)
      BY <2>2, <3>1, <3>3, <3>4, <3>5, DecideWrites
    <3> QED
      BY <2>2, <3>6
  <2> QED
    BY <1>3, <2>3, <2>4 DEF Lone
<1>4. ASSUME NEW p \in Callers, DenyWrite(p) PROVE NoWrite \/ \E id \in ApprovalIds : Write(id)
  <2> DEFINE id == call[p].id
             by == call[p].by
  <2>1. call[p] # NoCall
    BY <1>4 DEF DenyWrite, NoCall
  <2>2. id \in ApprovalIds /\ by \in Approver
    BY <1>0, <2>1, CallFields
  <2>3. CASE UNCHANGED storeVars /\ UNCHANGED decider
    BY <2>3 DEF NoWrite, storeVars
  <2>4. CASE /\ DecideApproval(id, "denied", by.name, 0, Null, call[p].now + PendingTTL)
             /\ decider' = [decider EXCEPT ![id] = by]
    <3>1. approvals[id].status \in Waiting /\ decide(id, "denied", by.name, 0, Null, call[p].now + PendingTTL)
      BY <2>4 DEF DecideApproval, DecideWhere
    <3> HIDE DEF id, by
    <3>2. Write(id)
      BY <2>2, <2>4, <3>1, DecideWrites
    <3> QED
      BY <2>2, <3>2
  <2> QED
    BY <1>4, <2>3, <2>4 DEF DenyWrite
<1>5. ASSUME NEW p \in Callers, LoadApprove(p) \/ CheckFirst(p) \/ LoadDeny(p) \/ Abandon(p) PROVE NoWrite
  BY <1>5 DEF LoadApprove, CheckFirst, LoadDeny, Abandon, NoWrite, storeVars
<1>6. ASSUME NEW p \in Callers, NEW verb, NEW by, NEW id, NEW signedIn, BeginCall(p, verb, by, id, signedIn)
      PROVE  NoWrite
  BY <1>6 DEF BeginCall, NoWrite, storeVars
<1>7. ASSUME (\E a \in Accounts : NewApprover(a) \/ Revoke(a)) \/ Tick PROVE NoWrite
  BY <1>7 DEF NewApprover, Revoke, CreateApprover, RevokeApprover, Tick, serviceVars, storeVars, NoWrite
<1> QED
  BY <1>1, <1>2, <1>3, <1>4, <1>5, <1>6, <1>7 DEF DeciderNext

\* The steps of the retries: what ends a row acts on a copy that CopyFits
\* ties to the row as it is by then.
LEMMA RetryWrites ==
  ASSUME CInv, TypeOK', RetryNext
  PROVE  NoWrite \/ \E id \in ApprovalIds : Write(id)
<1> SUFFICES ASSUME NEW q \in Retriers,
                    \/ \E k \in Keys, impact \in Impacts : Verify(q, k, impact)
                    \/ VerifyWrite(q) \/ Consume(q) \/ Spend(q) \/ ConsumeLate(q) \/ Create(q) \/ GiveUp(q)
             PROVE  NoWrite \/ \E id \in ApprovalIds : Write(id)
  BY DEF RetryNext
<1>0. TypeOK /\ RetrySound(q) /\ CopyFits(q)
  BY DEF CInv, IInv, RetriesSound
<1>1. ASSUME UNCHANGED storeVars, UNCHANGED serviceVars PROVE NoWrite
  BY <1>1 DEF NoWrite, storeVars, serviceVars
<1>2. CASE (\E k \in Keys, impact \in Impacts : Verify(q, k, impact)) \/ GiveUp(q) \/ Consume(q)
  BY <1>1, <1>2 DEF Verify, GiveUp, Consume
<1>3. CASE VerifyWrite(q) /\ retry[q].pc = "expire"
  <2> DEFINE id == retry[q].id
             from == retry[q].row.status
  <2>1. id \in ApprovalIds /\ retry[q].row \in Rows
    BY <1>0, <1>3, RetryFields DEF RetryPcs
  <2>2. from \in Waiting \cup {"approved"} /\ Lapsed(retry[q].row)
        /\ (approvals[id].status = from => approvals[id].expires = retry[q].row.expires)
    BY <1>0, <1>3 DEF RetrySound, CopyFits
  <2>3. WriteStatus(id, from, "expired") /\ UNCHANGED serviceVars
    BY <1>3 DEF VerifyWrite
  <2>4. CASE SetApprovalStatus(id, from, "expired")
    <3>1. approvals[id].status = from /\ Lapsed(approvals[id])
      BY <2>2, <2>4 DEF SetApprovalStatus, StatusWhere, Lapsed
    <3>2. approvals' = [approvals EXCEPT ![id].status = "expired"] /\ UNCHANGED <<outbox, decider>>
      BY <2>3, <2>4 DEF SetApprovalStatus, serviceVars
    <3> HIDE DEF id, from
    <3>3. Write(id)
      BY <2>1, <2>2, <3>1, <3>2, EndWrites
    <3> QED
      BY <2>1, <3>3
  <2> QED
    BY <1>1, <2>3, <2>4 DEF WriteStatus
<1>4. CASE VerifyWrite(q) /\ retry[q].pc = "supersede"
  <2> DEFINE id == retry[q].id
  <2>1. id \in ApprovalIds
    BY <1>0, <1>4, RetryFields DEF RetryPcs
  <2>2. retry[q].impact # approvals[id].impact
    BY <1>0, <1>4 DEF CopyFits
  <2>3. WriteStatus(id, "approved", "superseded") /\ UNCHANGED serviceVars
    BY <1>4 DEF VerifyWrite
  <2>4. CASE SetApprovalStatus(id, "approved", "superseded")
    <3>1. /\ approvals[id].status = "approved"
          /\ approvals' = [approvals EXCEPT ![id].status = "superseded"] /\ UNCHANGED <<outbox, decider>>
      BY <2>3, <2>4 DEF SetApprovalStatus, StatusWhere, serviceVars
    <3>2. \E r \in Retriers : retry[r].pc = "supersede" /\ retry[r].impact # approvals[id].impact
      BY <1>4, <2>2
    <3> HIDE DEF id
    <3>3. Write(id)
      BY <2>1, <3>1, <3>2, EndWrites
    <3> QED
      BY <2>1, <3>3
  <2> QED
    BY <1>1, <2>3, <2>4 DEF WriteStatus
<1>5. CASE ConsumeLate(q)
  <2> DEFINE id == retry[q].id
  <2>1. id \in ApprovalIds
    BY <1>0, <1>5, RetryFields DEF ConsumeLate, RetryPcs
  <2>2. Lapsed(approvals[id])
    BY <1>0, <1>5 DEF ConsumeLate, CopyFits, Lapsed
  <2>3. WriteStatus(id, "approved", "expired") /\ UNCHANGED serviceVars
    BY <1>5 DEF ConsumeLate
  <2>4. CASE SetApprovalStatus(id, "approved", "expired")
    <3>1. /\ approvals[id].status = "approved"
          /\ approvals' = [approvals EXCEPT ![id].status = "expired"] /\ UNCHANGED <<outbox, decider>>
      BY <2>3, <2>4 DEF SetApprovalStatus, StatusWhere, serviceVars
    <3> HIDE DEF id
    <3>2. Write(id)
      BY <2>1, <2>2, <3>1, EndWrites
    <3> QED
      BY <2>1, <3>2
  <2> QED
    BY <1>1, <2>3, <2>4 DEF WriteStatus
<1>6. CASE Spend(q)
  <2> DEFINE id == retry[q].id
  <2>1. id \in ApprovalIds /\ UNCHANGED serviceVars
    BY <1>0, <1>6, RetryFields DEF Spend, RetryPcs
  <2>2. CASE ConsumeApproval(id, retry[q].row.nonce)
    <3>1. /\ approvals[id].status = "approved"
          /\ approvals' = [approvals EXCEPT ![id].status = "consumed"] /\ UNCHANGED <<outbox, decider>>
      BY <2>1, <2>2 DEF ConsumeApproval, ConsumeWhere, serviceVars
    <3> HIDE DEF id
    <3>2. Write(id)
      BY <2>1, <3>1, EndWrites
    <3> QED
      BY <2>1, <3>2
  <2> QED
    BY <1>1, <1>6, <2>1, <2>2 DEF Spend
<1>7. CASE Create(q)
  <2>1. PICK id \in ApprovalIds : CreatePending(id, retry[q].key, retry[q].impact)
    BY <1>7 DEF Create
  <2>2. UNCHANGED decider
    BY <1>7 DEF Create, serviceVars
  <2> QED
    BY <2>1, <2>2, CreateWrites
<1> QED
  BY <1>2, <1>3, <1>4, <1>5, <1>6, <1>7 DEF VerifyWrite

\* A step writes at most one row, in one of the five ways.
LEMMA StepWrites ==
  ASSUME CInv, TypeOK', [Next]_vars
  PROVE  NoWrite \/ \E id \in ApprovalIds : Write(id)
<1>1. CASE UNCHANGED vars
  BY <1>1 DEF vars, storeVars, serviceVars, NoWrite
<1> QED
  BY <1>1, DeciderWrites, RetryWrites DEF Next

-----------------------------------------------------------------------------
(* CInv is inductive *)

\* With no row there is nothing that could not fit.
LEMMA InitFits == Init => CInv
<1> SUFFICES ASSUME Init PROVE CInv
  OBVIOUS
<1>1. IInv
  BY InitSound
<1>2. \A id \in ApprovalIds : ~Exists(id) /\ outbox[id] = <<>>
  BY DEF Init, ServiceInit, StoreInit, Exists
<1>3. (\A p \in Callers : call[p] = NoCall) /\ (\A q \in Retriers : retry[q] = NoRetry)
  BY DEF Init, ServiceInit
<1> QED
  BY <1>1, <1>2, <1>3 DEF CInv, RowFits, CopyFits, MarkFits, NoCall, NoRetry

\* What no step does to a row: it never goes back, and its deadline moves
\* only with its status, before the decision is made.
RowOnward(id) ==
  LET row == approvals[id]
      new == approvals'[id]
  IN Exists(id) =>
       /\ Exists(id)' /\ new.impact = row.impact
       /\ Onward(row.status, new.status)
       /\ new.status = row.status \/ row.status \in Decisive => new.expires = row.expires
       /\ row.status \in Decisive => new.status \in Decisive

\* Every row a step leaves is the one there was, further on its way.
LEMMA RowsOnward ==
  ASSUME CInv, TypeOK', [Next]_vars, NEW id \in ApprovalIds
  PROVE  RowOnward(id)
<1>1. CASE approvals'[id] = approvals[id]
  BY <1>1 DEF RowOnward, Onward, Exists
<1>2. CASE Write(id)
  <2>1. CASE Ask(id)
    BY <2>1 DEF Ask, RowOnward
  <2>2. CASE Exists(id) /\ (Half(id) \/ Grant(id) \/ Refusal(id) \/ Ending(id))
    BY <1>2, <2>2 DEF Write, Half, Grant, Refusal, Ending, RowOnward, Onward, Waiting, Decisive
  <2> QED
    BY <1>2, <2>1, <2>2 DEF Write
<1> QED
  BY <1>1, <1>2, StepWrites DEF NoWrite, Write

\* A row and its outbox events still fit one another after a step.
LEMMA RowsFit ==
  ASSUME CInv, TypeOK', [Next]_vars, NEW id \in ApprovalIds
  PROVE  RowFits(id)'
<1>0. RowFits(id)
  BY DEF CInv
<1>1. CASE approvals'[id] = approvals[id] /\ outbox'[id] = outbox[id]
  BY <1>0, <1>1 DEF RowFits, Exists
<1>2. CASE Write(id)
  <2>1. CASE Ask(id)
    BY <1>2, <2>1 DEF Ask, Write, RowFits
  <2>2. CASE Exists(id) /\ (Half(id) \/ Grant(id) \/ Refusal(id) \/ Ending(id))
    BY <1>0, <1>2, <2>2, NullAssumption DEF Write, Half, Grant, Refusal, Ending, RowFits, Waiting
  <2> QED
    BY <1>2, <2>1, <2>2 DEF Write
<1> QED
  BY <1>1, <1>2, StepWrites DEF NoWrite, Write

\* The clock is a number and does not go back.
LEMMA ClockOnward == ASSUME TypeOK, [Next]_vars PROVE clock \in Nat /\ clock' \in Nat /\ clock <= clock'
<1>1. clock \in Nat
  BY DEF TypeOK, ServiceTypeOK
<1>2. CASE UNCHANGED clock
  BY <1>1, <1>2
<1>3. CASE Tick
  BY <1>1, <1>3 DEF Tick
<1>4. CASE RetryNext \/ UNCHANGED vars
  BY <1>2, <1>4 DEF RetryNext, Verify, VerifyWrite, Consume, Spend, ConsumeLate, Create, GiveUp, vars, serviceVars
<1>5. CASE DeciderNext
  BY <1>2, <1>3, <1>5 DEF DeciderNext, BeginCall, LoadApprove, Mark, CheckFirst, Replace, Second, Lone,
                          LoadDeny, DenyWrite, Abandon, NewApprover, Revoke, serviceVars
<1> QED
  BY <1>4, <1>5 DEF Next

\* A retry that does not move keeps what its copy is good for.
LEMMA SameCopy ==
  ASSUME CInv, TypeOK', [Next]_vars, NEW q \in Retriers, retry'[q] = retry[q]
  PROVE  CopyFits(q)'
<1>0. CopyFits(q) /\ TypeOK
  BY DEF CInv, IInv
<1>1. CASE retry[q].pc \notin {"expire", "expireLate", "supersede"}
  BY <1>1 DEF CopyFits
<1>2. CASE retry[q].pc \in {"expire", "expireLate", "supersede"}
  <2>1. retry[q].id \in ApprovalIds /\ retry[q].row \in Rows
    BY <1>0, <1>2, RetryFields DEF RetryPcs
  <2>2. RowOnward(retry[q].id)
    BY <2>1, RowsOnward
  <2>3. Lapsed(retry[q].row) => Lapsed(retry[q].row)'
    BY <1>0, <2>1, ClockOnward DEF Lapsed, Rows
  <2> DEFINE r == retry[q]
             row == approvals[r.id]
             new == approvals'[r.id]
  <2>4. r'.pc = r.pc /\ r'.id = r.id /\ r'.row = r.row /\ r'.impact = r.impact
    OBVIOUS
  <2>5. CASE r.pc = "expire"
    <3>1. /\ Exists(r.id) /\ Lapsed(r.row) /\ Onward(r.row.status, row.status)
          /\ row.status = r.row.status => row.expires = r.row.expires
      BY <1>0, <2>5 DEF CopyFits
    <3>2. /\ Exists(r.id)' /\ Onward(row.status, new.status)
          /\ new.status = row.status => new.expires = row.expires
      BY <2>2, <3>1 DEF RowOnward
    <3>3. Onward(r.row.status, new.status)
      BY <3>1, <3>2 DEF Onward, Decisive
    <3>4. new.status = r.row.status => row.status = r.row.status
      BY <1>0, <2>5, <3>1, <3>2 DEF Onward, Decisive, CInv, IInv, RetriesSound, RetrySound, Waiting
    <3> QED
      BY <2>3, <2>4, <2>5, <3>1, <3>2, <3>3, <3>4 DEF CopyFits
  <2>6. CASE r.pc = "expireLate"
    BY <1>0, <2>2, <2>3, <2>4, <2>6 DEF CopyFits, RowOnward
  <2>7. CASE r.pc = "supersede"
    BY <1>0, <2>2, <2>4, <2>7 DEF CopyFits, RowOnward
  <2> QED
    BY <1>2, <2>5, <2>6, <2>7
<1> QED
  BY <1>1, <1>2

\* Verify answers "expire" on a copy that has lapsed and "supersede" on one
\* of another impact.
LEMMA VerifyFits ==
  ASSUME CInv, NEW q \in Retriers, NEW k \in Keys, NEW impact \in Impacts, Verify(q, k, impact)
  PROVE  CopyFits(q)'
<1>1. TypeOK /\ retry \in [Retriers -> Retries \cup Creations \cup {NoRetry}]
  BY DEF CInv, IInv, TypeOK
<1>2. UNCHANGED <<approvals, clock>>
  BY DEF Verify, storeVars, serviceVars
<1>3. CASE retry'[q].pc \notin {"expire", "expireLate", "supersede"}
  BY <1>3 DEF CopyFits
<1>4. CASE retry'[q].pc \in {"expire", "expireLate", "supersede"}
  <2>1. retry' # [retry EXCEPT ![q] = ToCreate(k, impact)]
    BY <1>1, <1>4 DEF ToCreate
  <2>2. PICK id \in Latest(k) :
          retry'[q] = AfterVerify(id, approvals[id], k, impact, VerifyAnswer(id, approvals[id], k, impact))
    BY <1>1, <2>1 DEF Verify
  <2>3. id \in ApprovalIds /\ Exists(id) /\ approvals[id].key = k
    BY DEF Latest, RowsOf
  <2> DEFINE row == approvals[id]
             answer == VerifyAnswer(id, row, k, impact)
  <2>4. answer \in {"expire", "supersede"}
    BY <1>4, <2>2 DEF AfterVerify, ToCreate, NoRetry, VerifyAnswer
  <2>5. retry'[q].impact = impact /\ retry'[q].id = id /\ retry'[q].row = row /\ retry'[q].pc = answer
    BY <2>2, <2>4 DEF AfterVerify
  <2>6. answer = "expire" => Lapsed(row)
    BY DEF VerifyAnswer
  <2>7. answer = "supersede" => row.impact # impact
    <3>1. answer = "supersede" =>
            row.status = "approved" /\ row.token # TokenOf(id, k, impact, row.nonce, row.expires)
      BY DEF VerifyAnswer
    <3>2. RowSound(id)
      BY <2>3 DEF CInv, IInv, RowsSound
    <3> QED
      BY <2>3, <3>1, <3>2 DEF RowSound
  <2> HIDE DEF answer
  <2>8. approvals'[retry'[q].id] = row /\ Exists(retry[q].id)' = (approvals'[retry'[q].id] # NoRow)
    BY <1>2, <2>5 DEF Exists
  <2>9. Exists(retry[q].id)'
    BY <2>3, <2>8 DEF Exists
  <2>10. Lapsed(row) => Lapsed(retry[q].row)'
    BY <1>2, <2>5 DEF Lapsed
  <2> QED
    BY <2>4, <2>5, <2>6, <2>7, <2>8, <2>9, <2>10 DEF CopyFits, Onward
<1> QED
  BY <1>3, <1>4

\* The copy a retry holds still fits its row after a step.
LEMMA CopiesFit ==
  ASSUME CInv, TypeOK', [Next]_vars, NEW q \in Retriers
  PROVE  CopyFits(q)'
<1>1. TypeOK /\ retry \in [Retriers -> Retries \cup Creations \cup {NoRetry}]
  BY DEF CInv, IInv, TypeOK
<1>2. CASE retry'[q] = retry[q]
  BY <1>2, SameCopy
<1>3. ASSUME NEW k \in Keys, NEW impact \in Impacts, Verify(q, k, impact) PROVE CopyFits(q)'
  BY <1>3, VerifyFits
<1>4. CASE VerifyWrite(q) \/ ConsumeLate(q) \/ Create(q) \/ GiveUp(q)
  <2>1. retry'[q].pc \in {"create", "idle"}
    BY <1>1, <1>4 DEF VerifyWrite, ConsumeLate, Create, GiveUp, ToCreate, NoRetry
  <2> QED
    BY <2>1 DEF CopyFits
<1>5. CASE Consume(q)
  <2>1. retry[q] \in Retries /\ retry[q].pc = "consume"
    BY <1>1, <1>5, RetryFields DEF Consume, RetryPcs
  <2>2. UNCHANGED <<approvals, clock>>
    BY <1>5 DEF Consume, storeVars, serviceVars
  <2>3. /\ retry'[q].pc = IF Lapsed(retry[q].row) THEN "expireLate" ELSE "spend"
        /\ retry'[q].id = retry[q].id /\ retry'[q].row = retry[q].row
    BY <1>1, <1>5, <2>1 DEF Consume, Retries
  <2>4. RetrySound(q)
    BY DEF CInv, IInv, RetriesSound
  <2>5. CASE Lapsed(retry[q].row)
    <3>1. Exists(retry[q].id)' /\ Lapsed(retry[q].row)'
      BY <2>1, <2>2, <2>3, <2>4, <2>5 DEF RetrySound, Exists, Lapsed
    <3> QED
      BY <2>1, <2>2, <2>3, <2>4, <2>5, <3>1 DEF CopyFits, RetrySound
  <2>6. CASE ~Lapsed(retry[q].row)
    BY <2>3, <2>6 DEF CopyFits
  <2> QED
    BY <2>5, <2>6
<1>6. CASE Spend(q)
  <2>1. retry'[q].pc = "idle"
    BY <1>1, <1>6 DEF Spend, NoRetry
  <2> QED
    BY <2>1 DEF CopyFits
<1>7. ASSUME NEW o \in Retriers \ {q},
             \/ \E k \in Keys, impact \in Impacts : Verify(o, k, impact)
             \/ VerifyWrite(o) \/ Consume(o) \/ Spend(o) \/ ConsumeLate(o) \/ Create(o) \/ GiveUp(o)
      PROVE  CopyFits(q)'
  <2>1. retry'[q] = retry[q]
    BY <1>1, <1>7 DEF Verify, VerifyWrite, Consume, Spend, ConsumeLate, Create, GiveUp
  <2> QED
    BY <1>2, <2>1
<1>8. CASE UNCHANGED retry
  BY <1>2, <1>8
<1>9. CASE RetryNext
  BY <1>3, <1>4, <1>5, <1>6, <1>7, <1>9 DEF RetryNext
<1> QED
  BY <1>8, <1>9 DEF Next, vars

\* LoadApprove goes on to Mark from a pending row only for a grant, and a
\* row's impact never changes.
LEMMA MarksFit ==
  ASSUME CInv, TypeOK', [Next]_vars, NEW p \in Callers
  PROVE  MarkFits(p)'
<1>1. TypeOK /\ call \in [Callers -> Calls \cup {NoCall}] /\ MarkFits(p) /\ CallSound(p)
  BY DEF CInv, IInv, TypeOK, ServiceTypeOK, CallsSound
<1>2. CASE call'[p] = call[p]
  <2>1. CASE call[p].pc = "mark"
    <3>1. call[p] # NoCall
      BY <2>1 DEF NoCall
    <3>2. call[p].id \in ApprovalIds /\ Exists(call[p].id)
      BY <1>1, <3>1, CallFields DEF CallSound
    <3>3. approvals'[call[p].id].impact = approvals[call[p].id].impact
      BY <3>2, RowsOnward DEF RowOnward
    <3> QED
      BY <1>1, <1>2, <2>1, <3>3 DEF MarkFits
  <2>2. CASE call[p].pc # "mark"
    BY <1>2, <2>2 DEF MarkFits
  <2> QED
    BY <2>1, <2>2
<1>3. CASE call'[p].pc # "mark"
  BY <1>3 DEF MarkFits
<1>4. CASE LoadApprove(p)
  <2>1. call[p] \in Calls /\ approvals' = approvals
    BY <1>1, <1>4, CallFields DEF LoadApprove, NoCall, storeVars
  <2> DEFINE row == approvals[call[p].id]
  <2>2. CASE ApproveRefuses(call[p].by, call[p].signedIn, row)
    BY <1>1, <1>3, <1>4, <2>2 DEF LoadApprove, NoCall
  <2>3. CASE ~ApproveRefuses(call[p].by, call[p].signedIn, row)
    <3>1. call'[p] = [call[p] EXCEPT !.pc = ApproveNext(row), !.first = row.first, !.signedIn = 0, !.now = clock]
      BY <1>1, <1>4, <2>3 DEF LoadApprove
    <3>2. call'[p].pc = ApproveNext(row) /\ call'[p].id = call[p].id
      BY <2>1, <3>1 DEF Calls
    <3>3. ApproveNext(row) = "mark" => row.impact \in Grants
      BY DEF ApproveNext, NeedsTwo
    <3> QED
      BY <2>1, <3>2, <3>3 DEF MarkFits
  <2> QED
    BY <2>2, <2>3
<1>5. CASE Mark(p) \/ Replace(p) \/ Second(p) \/ Lone(p) \/ DenyWrite(p) \/ Abandon(p)
  <2>1. call'[p] = NoCall
    BY <1>1, <1>5 DEF Mark, Replace, Second, Lone, DenyWrite, Abandon, Return
  <2> QED
    BY <1>3, <2>1 DEF NoCall
<1>6. CASE CheckFirst(p) \/ LoadDeny(p)
  <2>1. call[p] \in Calls
    BY <1>1, <1>6 DEF CheckFirst, LoadDeny, NoCall
  <2>2. CASE call'[p] = NoCall
    BY <1>3, <2>2 DEF NoCall
  <2>3. CASE call'[p] = [call[p] EXCEPT !.pc = "denyWrite", !.signedIn = 0, !.now = clock]
    BY <1>3, <2>1, <2>3 DEF Calls
  <2>4. CASE call'[p] = [call[p] EXCEPT !.pc = "replace"] \/ call'[p] = [call[p] EXCEPT !.pc = "second"]
    BY <1>3, <2>1, <2>4 DEF Calls
  <2> QED
    BY <1>1, <1>6, <2>2, <2>3, <2>4 DEF CheckFirst, LoadDeny
<1>7. ASSUME NEW verb \in {"approve", "deny"}, NEW by, NEW id, NEW signedIn, BeginCall(p, verb, by, id, signedIn)
      PROVE  MarkFits(p)'
  <2>1. call'[p].pc # "mark"
    BY <1>1, <1>7 DEF BeginCall
  <2> QED
    BY <1>3, <2>1
<1>8. ASSUME NEW o \in Callers \ {p},
             \/ LoadApprove(o) \/ Mark(o) \/ CheckFirst(o) \/ Replace(o) \/ Second(o) \/ Lone(o)
             \/ LoadDeny(o) \/ DenyWrite(o) \/ Abandon(o)
             \/ \E verb \in {"approve", "deny"}, by \in Approver, id \in ApprovalIds :
                  \E signedIn \in 0 .. clock : BeginCall(o, verb, by, id, signedIn)
      PROVE  MarkFits(p)'
  <2>1. call'[p] = call[p]
    BY <1>1, <1>8 DEF LoadApprove, Mark, CheckFirst, Replace, Second, Lone, LoadDeny, DenyWrite, Abandon,
                      BeginCall, Return
  <2> QED
    BY <1>2, <2>1
<1>9. CASE RetryNext \/ UNCHANGED vars \/ (\E a \in Accounts : NewApprover(a) \/ Revoke(a)) \/ Tick
  <2>1. UNCHANGED call
    BY <1>9 DEF RetryNext, Verify, VerifyWrite, Consume, Spend, ConsumeLate, Create, GiveUp, vars, serviceVars,
                NewApprover, Revoke, Tick
  <2> QED
    BY <1>2, <2>1
<1>10. CASE DeciderNext
  BY <1>4, <1>5, <1>6, <1>7, <1>8, <1>9, <1>10 DEF DeciderNext
<1> QED
  BY <1>9, <1>10 DEF Next

\* Every step keeps the invariant.
LEMMA StepFits == CInv /\ [Next]_vars => CInv' /\ TypeOK'
<1> SUFFICES ASSUME CInv, [Next]_vars PROVE CInv' /\ TypeOK'
  OBVIOUS
<1>1. IInv' /\ TypeOK'
  BY StepSound, StepTyped DEF CInv, IInv
<1>2. (\A id \in ApprovalIds : RowFits(id)') /\ (\A q \in Retriers : CopyFits(q)') /\ (\A p \in Callers : MarkFits(p)')
  BY <1>1, RowsFit, CopiesFit, MarksFit
<1> QED
  BY <1>1, <1>2 DEF CInv

\* So it always holds.
LEMMA Fits == Spec => []CInv
BY InitFits, StepFits, PTL DEF Spec

-----------------------------------------------------------------------------
(* The action properties *)

\* A decision is lost only for cause, whatever a retry read before: for any
\* number of calls and retries, a row expires only once it has lapsed, an
\* approval is superseded only by a retry that measured another impact, and a
\* final row is for good.
THEOREM LostOnlyForCauseHolds == Spec => LostOnlyForCause
<1> DEFINE Lost(id) ==
      LET row == approvals[id]
          new == approvals'[id]
      IN Exists(id) /\ new # row =>
           /\ row.status \notin Final
           /\ new.status = "expired" => Lapsed(row)
           /\ new.status = "superseded" =>
                /\ row.status = "approved"
                /\ \E q \in Retriers : retry[q].pc = "supersede" /\ retry[q].impact # row.impact
           /\ row.status = "approved" => new.status \in {"consumed", "superseded", "expired"}
<1>1. ASSUME CInv, TypeOK', [Next]_vars, NEW id \in ApprovalIds PROVE Lost(id)
  <2>1. CASE approvals'[id] = approvals[id]
    BY <2>1
  <2>2. CASE Write(id)
    <3>1. CASE Ask(id)
      BY <3>1 DEF Ask
    <3>2. CASE Half(id) \/ Grant(id) \/ Refusal(id)
      BY <3>2 DEF Half, Grant, Refusal, Waiting, Final
    <3>3. CASE Ending(id)
      BY <3>3 DEF Ending, Waiting, Final
    <3> QED
      BY <2>2, <3>1, <3>2, <3>3 DEF Write
  <2> QED
    BY <1>1, <2>1, <2>2, StepWrites DEF NoWrite, Write
<1>2. CInv /\ [Next]_vars => [\A id \in ApprovalIds : Lost(id)]_vars
  BY <1>1, StepFits
<1> QED
  BY <1>2, Fits, PTL DEF Spec, LostOnlyForCause

\* A revoked account is never half of a release: for any number of accounts,
\* revoked at any step of any call, the approval that mints a grant's token
\* comes with both accounts live.
THEOREM HalvesAreLiveHolds == Spec => HalvesAreLive
<1> DEFINE Halves(id) ==
      LET row == approvals[id]
          new == approvals'[id]
      IN Exists(id) /\ row.status = "partially_approved" =>
           /\ new.status = "approved" => Live(row.first) /\ Live(decider'[id].account) /\ new.first = row.first
           /\ new.first # row.first => ~Live(row.first) /\ new.status = "partially_approved"
<1>1. ASSUME CInv, TypeOK', [Next]_vars, NEW id \in ApprovalIds PROVE Halves(id)
  <2>1. CASE approvals'[id] = approvals[id]
    BY <2>1
  <2>2. CASE Write(id)
    <3>1. CASE Ask(id)
      BY <3>1 DEF Ask
    <3>2. CASE Half(id) \/ Grant(id) \/ Refusal(id) \/ Ending(id)
      BY <3>2 DEF Half, Grant, Refusal, Ending
    <3> QED
      BY <2>2, <3>1, <3>2 DEF Write
  <2> QED
    BY <1>1, <2>1, <2>2, StepWrites DEF NoWrite, Write
<1>2. CInv /\ [Next]_vars => [\A id \in ApprovalIds : Halves(id)]_vars
  BY <1>1, StepFits
<1> QED
  BY <1>2, Fits, PTL DEF Spec, HalvesAreLive

-----------------------------------------------------------------------------
(* The outbox *)

\* OutboxTellsTheRow, row by row and part by part.
Begun(story) == Len(story) > 0 /\ story[1].status = "pending"
EndsAs(story, row) ==
  /\ row.status \in Waiting \cup {"denied"} => story[Len(story)].status = row.status
  /\ row.token # Null <=> story[Len(story)].status = "approved"
NamesFirst(story, first) ==
  first # Null =>
    \E n \in DOMAIN story :
      /\ story[n].first = AccountName[first]
      /\ \A m \in n + 1 .. Len(story) : story[m].status # "partially_approved"
Story(id) ==
  Exists(id) => Begun(outbox[id]) /\ EndsAs(outbox[id], approvals[id]) /\ NamesFirst(outbox[id], approvals[id].first)

\* The outbox is right when it is right about each row.
LEMMA StoryForAll == OutboxTellsTheRow <=> \A id \in ApprovalIds : Story(id)
BY DEF OutboxTellsTheRow, Story, Begun, EndsAs, NamesFirst

\* One more event.
LEMMA OneMore ==
  ASSUME NEW story \in Seq(Events), NEW ev \in Events
  PROVE  LET new == Append(story, ev)
         IN /\ Len(story) \in Nat /\ Len(new) = Len(story) + 1 /\ new[Len(new)] = ev
            /\ \A n \in 1 .. Len(story) : new[n] = story[n]
            /\ DOMAIN story = 1 .. Len(story) /\ DOMAIN new = 1 .. Len(new)
BY AppendProperties, LenProperties

\* The first event stays the first, and an event that is no partial approval
\* leaves the name of the first approver where it was.
LEMMA StoryGrows ==
  ASSUME NEW story \in Seq(Events), NEW ev \in Events
  PROVE  /\ Begun(story) => Begun(Append(story, ev))
         /\ ev.status # "partially_approved" =>
              \A first : NamesFirst(story, first) => NamesFirst(Append(story, ev), first)
<1> DEFINE new == Append(story, ev)
<1>1. /\ Len(story) \in Nat /\ Len(new) = Len(story) + 1 /\ new[Len(new)] = ev
      /\ \A n \in 1 .. Len(story) : new[n] = story[n]
      /\ DOMAIN story = 1 .. Len(story) /\ DOMAIN new = 1 .. Len(new)
  BY OneMore
<1> HIDE DEF new
<1>2. Begun(story) => Begun(new)
  <2> SUFFICES ASSUME Begun(story) PROVE Begun(new)
    OBVIOUS
  <2>1. 1 \in 1 .. Len(story)
    BY <1>1 DEF Begun
  <2> QED
    BY <1>1, <2>1 DEF Begun
<1>3. ASSUME NEW first, ev.status # "partially_approved", NamesFirst(story, first)
      PROVE  NamesFirst(new, first)
  <2> SUFFICES ASSUME first # Null PROVE NamesFirst(new, first)
    BY DEF NamesFirst
  <2>1. PICK n \in 1 .. Len(story) :
          /\ story[n].first = AccountName[first]
          /\ \A m \in n + 1 .. Len(story) : story[m].status # "partially_approved"
    BY <1>1, <1>3 DEF NamesFirst
  <2>2. n \in DOMAIN new /\ new[n].first = AccountName[first]
    BY <1>1, <2>1
  <2>3. ASSUME NEW m \in n + 1 .. Len(new) PROVE new[m].status # "partially_approved"
    <3>1. CASE m = Len(new)
      BY <1>1, <1>3, <3>1
    <3>2. CASE m # Len(new)
      <4>1. m \in n + 1 .. Len(story) /\ m \in 1 .. Len(story)
        BY <1>1, <3>2
      <4> QED
        BY <1>1, <2>1, <4>1
    <3> QED
      BY <3>1, <3>2
  <2> QED
    BY <2>2, <2>3 DEF NamesFirst
<1> QED
  BY <1>2, <1>3 DEF new

\* Each write and its event.
LEMMA StoryStep ==
  ASSUME CInv, CInv', [Next]_vars, NEW id \in ApprovalIds, Story(id)
  PROVE  Story(id)'
<1>0. TypeOK /\ TypeOK' /\ outbox[id] \in Seq(Events) /\ RowFits(id) /\ RowSound(id) /\ RowSound(id)'
  BY DEF CInv, IInv, RowsSound, TypeOK, ServiceTypeOK, StoreTypeOK
<1>1. CASE approvals'[id] = approvals[id] /\ outbox'[id] = outbox[id]
  BY <1>1 DEF Story, Exists
<1>2. CASE Write(id)
  <2>1. CASE Ask(id)
    <3> DEFINE ev == [status |-> "pending", first |-> Null]
    <3>1. outbox'[id] = Append(<<>>, ev) /\ ev \in Events /\ ev.status = "pending"
      BY <1>0, <2>1 DEF Ask, Tells, RowFits, Events, Waiting
    <3> HIDE DEF ev
    <3>2. Append(<<>>, ev) = <<ev>>
      BY <3>1
    <3>3. Len(outbox'[id]) = 1 /\ outbox'[id][1] = ev
      BY <3>1, <3>2
    <3> QED
      BY <2>1, <3>1, <3>3 DEF Ask, Story, Begun, EndsAs, NamesFirst
  <2>2. ASSUME Exists(id), NEW ev \in Events, outbox'[id] = Append(outbox[id], ev),
               ev.status \in {"approved", "denied"}, approvals'[id].status = ev.status,
               approvals'[id].token # Null <=> ev.status = "approved",
               approvals'[id].first = approvals[id].first
        PROVE  Story(id)'
    <3>1. Begun(outbox[id]) /\ NamesFirst(outbox[id], approvals[id].first)
      BY <2>2 DEF Story
    <3>2. Begun(outbox'[id]) /\ NamesFirst(outbox'[id], approvals'[id].first)
      BY <1>0, <2>2, <3>1, StoryGrows
    <3>3. outbox'[id][Len(outbox'[id])] = ev
      BY <1>0, <2>2, OneMore
    <3>4. EndsAs(outbox'[id], approvals'[id])
      BY <2>2, <3>3 DEF EndsAs
    <3> QED
      BY <3>2, <3>4 DEF Story, Begun, EndsAs, NamesFirst
  <2>3. CASE Exists(id) /\ Grant(id)
    <3>1. [status |-> "approved", first |-> Null] \in Events
      BY DEF Events
    <3> QED
      BY <2>2, <2>3, <3>1 DEF Grant, Tells
  <2>4. CASE Exists(id) /\ Refusal(id)
    <3>1. [status |-> "denied", first |-> Null] \in Events
      BY DEF Events
    <3> QED
      BY <2>2, <2>4, <3>1 DEF Refusal, Tells
  <2>5. CASE Exists(id) /\ Half(id)
    <3> DEFINE ev == [status |-> "partially_approved", first |-> AccountName[approvals'[id].first]]
    <3>1. AccountName[approvals'[id].first] \in Names
      BY <2>5, NamesAssumption DEF Half
    <3>2. ev \in Events /\ ev.status = "partially_approved" /\ ev.first = AccountName[approvals'[id].first]
      BY <3>1 DEF Events, Waiting
    <3>3. outbox'[id] = Append(outbox[id], ev)
      BY <2>5 DEF Half, Tells
    <3> HIDE DEF ev
    <3>4. /\ Len(outbox'[id]) = Len(outbox[id]) + 1 /\ outbox'[id][Len(outbox'[id])] = ev
          /\ Len(outbox[id]) \in Nat /\ DOMAIN outbox'[id] = 1 .. Len(outbox'[id])
      BY <1>0, <3>2, <3>3, OneMore
    <3>5. Begun(outbox'[id])
      BY <1>0, <2>5, <3>2, <3>3, StoryGrows DEF Story
    <3>6. NamesFirst(outbox'[id], approvals'[id].first)
      <4>1. Len(outbox'[id]) \in DOMAIN outbox'[id] /\ Len(outbox'[id]) + 1 .. Len(outbox'[id]) = {}
        BY <3>4
      <4> QED
        BY <3>2, <3>4, <4>1 DEF NamesFirst
    <3>7. approvals[id].token = Null
      BY <1>0, <2>5 DEF Half, RowSound, Waiting
    <3>8. EndsAs(outbox'[id], approvals'[id])
      BY <2>5, <3>2, <3>4, <3>7 DEF EndsAs, Half
    <3> QED
      BY <3>5, <3>6, <3>8 DEF Story, Begun, EndsAs, NamesFirst
  <2>6. CASE Exists(id) /\ Ending(id)
    <3>1. /\ outbox'[id] = outbox[id] /\ approvals'[id].first = approvals[id].first
          /\ approvals'[id].token = approvals[id].token /\ approvals'[id].status \notin Waiting \cup {"denied"}
      BY <2>6 DEF Ending, Waiting
    <3> QED
      BY <2>6, <3>1 DEF Story, EndsAs
  <2> QED
    BY <1>2, <2>1, <2>3, <2>4, <2>5, <2>6 DEF Write
<1> QED
  BY <1>1, <1>2, StepWrites, <1>0 DEF NoWrite, Write

\* For any number of rows, calls and retries: the outbox and the table tell
\* one story.
THEOREM OutboxTellsTheRowHolds == Spec => []OutboxTellsTheRow
<1>1. Init => OutboxTellsTheRow
  BY StoryForAll DEF Init, ServiceInit, StoreInit, Story, Exists
<1>2. CInv /\ CInv' /\ OutboxTellsTheRow /\ [Next]_vars => OutboxTellsTheRow'
  <2> SUFFICES ASSUME CInv, CInv', OutboxTellsTheRow, [Next]_vars PROVE OutboxTellsTheRow'
    OBVIOUS
  <2>1. \A id \in ApprovalIds : Story(id)'
    BY StoryForAll, StoryStep
  <2> QED
    BY <2>1 DEF OutboxTellsTheRow, Story, Begun, EndsAs, NamesFirst
<1> QED
  BY <1>1, <1>2, Fits, PTL DEF Spec

-----------------------------------------------------------------------------
(* The contract *)

\* The cardinalities the contract counts people with.
LEMMA Counts ==
  /\ Contract!Cardinality({}) = 0
  /\ \A x : Contract!Cardinality({x}) = 1
<1>1. \A S : Contract!Cardinality(S) = Cardinality(S)
  BY DEF Cardinality, Contract!Cardinality
<1> QED
  BY <1>1, FS_EmptySet, FS_Singleton

\* The phase, the need and the people of every other row are what they were.
LEMMA OneItem ==
  ASSUME NEW id \in ApprovalIds, Write(id)
  PROVE  LET phase == [i \in ApprovalIds |-> PhaseOf(approvals[i])]
             need  == [i \in ApprovalIds |-> NeedOf(approvals[i])]
             yes   == [i \in ApprovalIds |-> YesOf(i)]
         IN /\ phase' = [phase EXCEPT ![id] = PhaseOf(approvals'[id])]
            /\ need'  = [need  EXCEPT ![id] = NeedOf(approvals'[id])]
            /\ yes'   = [yes   EXCEPT ![id] = YesOf(id)']
<1>1. \A i \in ApprovalIds \ {id} : approvals'[i] = approvals[i] /\ decider'[i] = decider[i]
  BY DEF Write
<1>2. \A i \in ApprovalIds \ {id} : YesOf(i)' = YesOf(i)
  BY <1>1 DEF YesOf
<1> QED
  BY <1>1, <1>2

\* What a row that exists maps to.
LEMMA Mapped ==
  ASSUME NEW id \in ApprovalIds, Exists(id)
  PROVE  LET row == approvals[id] IN
         /\ row.status \in Waiting => PhaseOf(row) = "asked"
         /\ row.status = "approved" => PhaseOf(row) = "granted"
         /\ row.status = "consumed" => PhaseOf(row) = "used"
         /\ row.status \in {"denied", "superseded", "expired"} => PhaseOf(row) = "closed"
         /\ NeedOf(row) = IF row.impact \in Grants THEN 2 ELSE 1
         /\ YesOf(id) = (IF row.first = Null THEN {} ELSE {Fold[AccountName[row.first]]})
                        \cup (IF row.token = Null THEN {} ELSE {Fold[decider[id].name]})
BY DEF Exists, PhaseOf, NeedOf, YesOf, Waiting

\* A new row asks.
LEMMA AskImplements ==
  ASSUME NEW id \in ApprovalIds, Write(id), Ask(id)
  PROVE  Contract!Ask(id)
<1>1. approvals[id] = NoRow /\ Exists(id)'
  BY DEF Ask, Exists, Write
<1>2. PhaseOf(approvals[id]) = "unborn" /\ YesOf(id) = {}
  <2>1. NoRow.status \notin Waiting \cup {"approved", "consumed"}
    BY DEF NoRow, Waiting
  <2> QED
    BY <1>1, <2>1 DEF PhaseOf, YesOf
<1>3. PhaseOf(approvals'[id]) = "asked" /\ NeedOf(approvals'[id]) \in {1, 2} /\ YesOf(id)' = {}
  BY <1>1 DEF Ask, Exists, PhaseOf, NeedOf, YesOf, Waiting
<1> QED
  BY <1>2, <1>3, OneItem DEF Contract!Ask

\* A yes of a person who had not said one, in the contract's terms: c people
\* had said yes before.
LEMMA YesImplements ==
  ASSUME NEW id \in ApprovalIds, Write(id), NEW q, NEW c, q \notin YesOf(id),
         PhaseOf(approvals[id]) = "asked", NeedOf(approvals'[id]) = NeedOf(approvals[id]),
         YesOf(id)' = YesOf(id) \cup {q}, Contract!Cardinality(YesOf(id)) = c,
         PhaseOf(approvals'[id]) = IF c + 1 = NeedOf(approvals[id]) THEN "granted" ELSE "asked"
  PROVE  Contract!SayYes(id, q)
<1> DEFINE phase == [i \in ApprovalIds |-> PhaseOf(approvals[i])]
           need  == [i \in ApprovalIds |-> NeedOf(approvals[i])]
           yes   == [i \in ApprovalIds |-> YesOf(i)]
<1>1. phase[id] = "asked" /\ need[id] = NeedOf(approvals[id]) /\ yes[id] = YesOf(id)
  OBVIOUS
<1>2. /\ phase' = [phase EXCEPT ![id] = PhaseOf(approvals'[id])]
      /\ need'  = [need  EXCEPT ![id] = NeedOf(approvals'[id])]
      /\ yes'   = [yes   EXCEPT ![id] = YesOf(id)']
  BY OneItem
<1>3. need' = need
  BY <1>2
<1>4. yes' = [yes EXCEPT ![id] = @ \cup {q}]
  BY <1>1, <1>2
<1>5. Contract!Cardinality(yes[id]) = c
  BY <1>1
<1>6. phase' = [phase EXCEPT ![id] =
                  IF Contract!Cardinality(yes[id]) + 1 = need[id] THEN "granted" ELSE "asked"]
  BY <1>1, <1>2, <1>5
<1>7. q \notin yes[id]
  BY <1>1
<1> QED
  BY <1>1, <1>3, <1>4, <1>6, <1>7 DEF Contract!SayYes

\* A first approval is a yes that is not enough.
LEMMA HalfImplements ==
  ASSUME CInv, TypeOK', NEW id \in ApprovalIds, Exists(id), Write(id), Half(id)
  PROVE  Contract!Next
<1> DEFINE p == Fold[AccountName[approvals[id].first]]
           q == Fold[AccountName[approvals'[id].first]]
<1>1. /\ approvals'[id].first \in Accounts /\ approvals'[id].first # Null
      /\ approvals'[id].token = Null /\ approvals[id].token = Null
      /\ RowFits(id) /\ Exists(id)'
  BY NullAssumption DEF Half, CInv, IInv, RowsSound, RowSound, Waiting, Write
<1>2. AccountName[approvals'[id].first] \in Names
  BY <1>1, NamesAssumption
<1>3. PhaseOf(approvals[id]) = "asked" /\ PhaseOf(approvals'[id]) = "asked"
  BY <1>1, Mapped DEF Half, Waiting, Exists, PhaseOf
<1>4. NeedOf(approvals'[id]) = NeedOf(approvals[id])
  BY <1>1 DEF Half, NeedOf, Exists
<1>5. YesOf(id)' = {q}
  BY <1>1 DEF YesOf, Exists
<1>6. q \in {Fold[n] : n \in Names}
  BY <1>2
<1>7. CASE approvals[id].status = "pending"
  <2>1. approvals[id].first = Null /\ approvals[id].impact \in Grants
    BY <1>1, <1>7 DEF RowFits, Half
  <2>2. YesOf(id) = {} /\ NeedOf(approvals[id]) = 2
    BY <1>1, <2>1, Mapped
  <2> HIDE DEF p, q
  <2>3. Contract!SayYes(id, q)
    <3>1. /\ q \notin YesOf(id) /\ YesOf(id)' = YesOf(id) \cup {q}
          /\ Contract!Cardinality(YesOf(id)) = 0
      BY <1>5, <2>2, Counts
    <3> QED
      BY <1>3, <1>4, <2>2, <3>1, YesImplements
  <2> QED
    BY <1>6, <2>3 DEF Contract!Next
<1>8. CASE approvals[id].status = "partially_approved"
  <2>1. approvals[id].first # Null
    BY <1>1, <1>8 DEF RowFits
  <2>2. YesOf(id) = {p}
    BY <1>1, <2>1, Mapped
  <2>3. approvals[id].first \in Accounts
    BY <2>1, RowTyped DEF CInv, IInv, Rows
  <2>4. p \in {Fold[n] : n \in Names}
    BY <2>3, NamesAssumption
  <2> HIDE DEF p, q
  <2>5. Contract!ReplaceYes(id, p, q)
    BY <1>3, <1>4, <1>5, <2>2, OneItem DEF Contract!ReplaceYes
  <2> QED
    BY <1>6, <2>4, <2>5 DEF Contract!Next
<1> QED
  BY <1>7, <1>8 DEF Half

\* An approval that mints is the last yes.
LEMMA GrantImplements ==
  ASSUME CInv, TypeOK', NEW id \in ApprovalIds, Exists(id), Write(id), Grant(id)
  PROVE  Contract!Next
<1> DEFINE p == Fold[AccountName[approvals[id].first]]
           q == Fold[decider'[id].name]
<1>1. /\ approvals'[id].first = approvals[id].first /\ approvals'[id].token # Null
      /\ approvals[id].token = Null /\ RowFits(id) /\ Exists(id)'
      /\ approvals'[id].impact = approvals[id].impact /\ approvals'[id].status = "approved"
  BY DEF Grant, CInv, IInv, RowsSound, RowSound, Waiting, Write
<1>2. q \in {Fold[n] : n \in Names}
  BY ApproverFields DEF Grant
<1>3. PhaseOf(approvals[id]) = "asked" /\ PhaseOf(approvals'[id]) = "granted"
  BY <1>1, Mapped DEF Grant, Waiting, Exists, PhaseOf
<1>4. NeedOf(approvals'[id]) = NeedOf(approvals[id])
  BY <1>1 DEF NeedOf, Exists
<1>5. YesOf(id)' = (IF approvals[id].first = Null THEN {} ELSE {p}) \cup {q}
  BY <1>1 DEF YesOf, Exists
<1>6. YesOf(id) = IF approvals[id].first = Null THEN {} ELSE {p}
  BY <1>1, Mapped
<1>7. NeedOf(approvals[id]) = IF approvals[id].impact \in Grants THEN 2 ELSE 1
  BY Mapped
<1>8. CASE approvals[id].status = "pending"
  <2>1. approvals[id].first = Null /\ approvals[id].impact \notin Grants
    BY <1>1, <1>8 DEF RowFits, Grant
  <2>2. YesOf(id) = {} /\ YesOf(id)' = {q} /\ NeedOf(approvals[id]) = 1
    BY <1>5, <1>6, <1>7, <2>1
  <2> HIDE DEF p, q
  <2>3. Contract!SayYes(id, q)
    <3>1. /\ q \notin YesOf(id) /\ YesOf(id)' = YesOf(id) \cup {q}
          /\ Contract!Cardinality(YesOf(id)) = 0
      BY <2>2, Counts
    <3> QED
      BY <1>3, <1>4, <2>2, <3>1, YesImplements
  <2> QED
    BY <1>2, <2>3 DEF Contract!Next
<1>9. CASE approvals[id].status = "partially_approved"
  <2>1. approvals[id].first # Null /\ approvals[id].impact \in Grants
    BY <1>1, <1>9 DEF RowFits
  <2>2. p # q
    BY <1>9 DEF Grant, SamePerson
  <2>3. YesOf(id) = {p} /\ YesOf(id)' = {p} \cup {q} /\ NeedOf(approvals[id]) = 2
    BY <1>5, <1>6, <1>7, <2>1
  <2> HIDE DEF p, q
  <2>4. Contract!SayYes(id, q)
    <3>1. /\ q \notin YesOf(id) /\ YesOf(id)' = YesOf(id) \cup {q}
          /\ Contract!Cardinality(YesOf(id)) = 1
      BY <2>2, <2>3, Counts
    <3> QED
      BY <1>3, <1>4, <2>3, <3>1, YesImplements
  <2> QED
    BY <1>2, <2>4 DEF Contract!Next
<1> QED
  BY <1>8, <1>9 DEF Grant

\* A denial, an expiry or a replacement closes.
LEMMA CloseImplements ==
  ASSUME CInv, TypeOK', NEW id \in ApprovalIds, Exists(id), Write(id), Refusal(id) \/ Ending(id)
  PROVE  Contract!Close(id) \/ Contract!Use(id)
<1>1. /\ approvals'[id].first = approvals[id].first /\ approvals'[id].impact = approvals[id].impact
      /\ Exists(id)'
  BY DEF Refusal, Ending, Write
<1>2. NeedOf(approvals'[id]) = NeedOf(approvals[id])
  BY <1>1 DEF NeedOf, Exists
<1>3. YesOf(id)' = YesOf(id)
  <2>1. CASE Refusal(id)
    <3>1. approvals[id].token = Null /\ approvals'[id].token = Null
      BY <2>1 DEF Refusal, CInv, IInv, RowsSound, RowSound, Waiting
    <3> QED
      BY <1>1, <3>1 DEF YesOf, Exists
  <2>2. CASE Ending(id)
    <3>1. approvals'[id].token = approvals[id].token /\ decider'[id] = decider[id]
      BY <2>2 DEF Ending
    <3> QED
      BY <1>1, <3>1 DEF YesOf, Exists
  <2> QED
    BY <2>1, <2>2
<1>4. CASE approvals'[id].status \in {"denied", "expired", "superseded"}
  <2>1. PhaseOf(approvals'[id]) = "closed"
    BY <1>1, <1>4 DEF PhaseOf, Exists, Waiting
  <2>2. PhaseOf(approvals[id]) \in {"asked", "granted"}
    BY <1>4, Mapped DEF Refusal, Ending
  <2>3. Contract!Close(id)
    BY <1>2, <1>3, <2>1, <2>2, OneItem DEF Contract!Close
  <2> QED
    BY <2>3
<1>5. CASE approvals'[id].status = "consumed"
  <2>1. PhaseOf(approvals'[id]) = "used"
    BY <1>1, <1>5 DEF PhaseOf, Exists, Waiting
  <2>2. PhaseOf(approvals[id]) = "granted"
    BY <1>5, Mapped DEF Refusal, Ending
  <2>3. Contract!Use(id)
    BY <1>2, <1>3, <2>1, <2>2, OneItem DEF Contract!Use
  <2> QED
    BY <2>3
<1> QED
  BY <1>4, <1>5 DEF Refusal, Ending

\* The approval lifecycle, with its database, its clock and any number of
\* concurrent calls and retries, implements the contract of a held request:
\* it is granted only by as many different people as it needs, and used at
\* most once.
THEOREM ImplementsContractHolds == Spec => ImplementsContract
<1>1. Init => Contract!Init
  <2> SUFFICES ASSUME Init PROVE Contract!Init
    OBVIOUS
  <2>1. \A id \in ApprovalIds : approvals[id] = NoRow
    BY DEF Init, ServiceInit, StoreInit
  <2>2. NoRow.status \notin Waiting \cup {"approved", "consumed"}
    BY DEF NoRow, Waiting
  <2>3. \A id \in ApprovalIds :
          PhaseOf(approvals[id]) = "unborn" /\ NeedOf(approvals[id]) = 0 /\ YesOf(id) = {}
    BY <2>1, <2>2 DEF PhaseOf, NeedOf, YesOf
  <2> QED
    BY <2>3 DEF Contract!Init
<1>2. CInv /\ TypeOK' /\ [Next]_vars => [Contract!Next]_Contract!contractVars
  <2> SUFFICES ASSUME CInv, TypeOK', [Next]_vars PROVE Contract!Next \/ UNCHANGED Contract!contractVars
    OBVIOUS
  <2>1. CASE NoWrite
    <3>1. \A id \in ApprovalIds : YesOf(id)' = YesOf(id)
      BY <2>1 DEF NoWrite, YesOf
    <3>2. \A id \in ApprovalIds : approvals'[id] = approvals[id]
      BY <2>1 DEF NoWrite
    <3> QED
      BY <3>1, <3>2 DEF Contract!contractVars
  <2>2. ASSUME NEW id \in ApprovalIds, Write(id) PROVE Contract!Next
    <3>1. CASE Ask(id)
      BY <2>2, <3>1, AskImplements DEF Contract!Next
    <3>2. CASE Exists(id) /\ Half(id)
      BY <2>2, <3>2, HalfImplements
    <3>3. CASE Exists(id) /\ Grant(id)
      BY <2>2, <3>3, GrantImplements
    <3>4. CASE Exists(id) /\ (Refusal(id) \/ Ending(id))
      BY <2>2, <3>4, CloseImplements DEF Contract!Next
    <3> QED
      BY <2>2, <3>1, <3>2, <3>3, <3>4 DEF Write
  <2> QED
    BY <2>1, <2>2, StepWrites
<1>3. CInv /\ [Next]_vars => TypeOK'
  BY StepFits
<1> QED
  BY <1>1, <1>2, <1>3, Fits, PTL DEF Spec, ImplementsContract, Contract!Spec
===============================================================================
