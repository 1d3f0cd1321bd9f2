------------------------------ MODULE Approvals ------------------------------
(***************************************************************************)
(* The approval lifecycle as a whole: the deciders of ApprovalService, and  *)
(* retries of held requests.  A retry is Service.Check (Verify, then        *)
(* Consume) followed, when nothing usable was found, by the pending row its *)
(* caller creates.  Retries of one request run concurrently: an agent may   *)
(* send it twice, and a retry measures the cluster as it is by then, so     *)
(* each one comes with an impact of its own.                                *)
(***************************************************************************)
EXTENDS ApprovalService

CONSTANT Retriers      \* retries in flight at one time

VARIABLES
  retry,               \* the retries in progress, each with its copy of the row
  released             \* history: the retries each approval released

vars == <<storeVars, serviceVars, retry, released>>

RetryPcs == {"expire", "supersede", "create", "consume", "spend", "expireLate"}

\* row is the copy Verify returned, now the time Consume judged it at.  A
\* retry about to create has none of it.
Retries == [pc : RetryPcs \ {"create"}, key : Keys, impact : Impacts, id : ApprovalIds,
            row : Rows, now : Nat]
Creations == [pc : {"create"}, key : Keys, impact : Impacts]
NoRetry == [pc |-> "idle"]

Releases == [key : Keys, impact : Impacts, at : Nat]

TypeOK ==
  /\ ServiceTypeOK
  /\ retry \in [Retriers -> Retries \cup Creations \cup {NoRetry}]
  /\ released \in [ApprovalIds -> Seq(Releases)]

Init ==
  /\ ServiceInit
  /\ retry = [q \in Retriers |-> NoRetry]
  /\ released = [id \in ApprovalIds |-> <<>>]

-----------------------------------------------------------------------------

ToCreate(k, impact) == [pc |-> "create", key |-> k, impact |-> impact]

\* Where the retry goes on Verify's answer.
AfterVerify(id, row, k, impact, answer) ==
  LET Go(pc) == [pc |-> pc, key |-> k, impact |-> impact, id |-> id, row |-> row, now |-> 0] IN
  CASE answer = "verified"                -> Go("consume")
    [] answer \in {"expire", "supersede"} -> Go(answer)
    [] answer = "none"                    -> ToCreate(k, impact)
    [] OTHER                              -> NoRetry

\* Verify up to its answer.  Pending and Denied end the retry: the caller
\* waits or is refused, and nothing has changed.
Verify(q, k, impact) ==
  /\ retry[q] = NoRetry
  /\ \/ /\ RowsOf(k) = {}
        /\ retry' = [retry EXCEPT ![q] = ToCreate(k, impact)]
     \/ \E id \in Latest(k) :
          retry' = [retry EXCEPT ![q] =
            AfterVerify(id, approvals[id], k, impact, VerifyAnswer(id, approvals[id], k, impact))]
  /\ UNCHANGED <<storeVars, serviceVars, released>>

VerifyWriteVoid(q) ==     \* mutant: writes the outcome's name as the status
  /\ retry[q].pc \in {"expire", "supersede"}
  /\ LET r == retry[q] IN
       /\ IF r.pc = "expire" THEN WriteStatus(r.id, r.row.status, "expired")
                             ELSE WriteStatus(r.id, "approved", "void")
       /\ retry' = [retry EXCEPT ![q] = ToCreate(r.key, r.impact)]
  /\ UNCHANGED <<serviceVars, released>>

\* Verify's status write: a lapsed row is expired from the status it was
\* read in, an approval of another impact superseded.
VerifyWrite(q) ==
  /\ retry[q].pc \in {"expire", "supersede"}
  /\ LET r == retry[q] IN
       /\ IF r.pc = "expire" THEN WriteStatus(r.id, r.row.status, "expired")
                             ELSE WriteStatus(r.id, "approved", "superseded")
       /\ retry' = [retry EXCEPT ![q] = ToCreate(r.key, r.impact)]
  /\ UNCHANGED <<serviceVars, released>>

\* Consume judges the lapse on its copy and reads the time once.
Consume(q) ==
  /\ retry[q].pc = "consume"
  /\ retry' = [retry EXCEPT ![q].pc = IF Lapsed(retry[q].row) THEN "expireLate" ELSE "spend",
                            ![q].now = clock]
  /\ UNCHANGED <<storeVars, serviceVars, released>>

\* The spend is a transaction of its own: by the time it has the database,
\* the row and the clock may have moved on.
Spend(q) ==
  /\ retry[q].pc = "spend"
  /\ LET r == retry[q] IN
       \/ /\ ConsumeApproval(r.id, r.row.nonce)
          /\ released' = [released EXCEPT ![r.id] =
               Append(@, [key |-> r.key, impact |-> r.impact, at |-> r.now])]
       \/ ~ConsumeWhere(r.id, r.row.nonce) /\ UNCHANGED <<storeVars, released>>
  /\ retry' = [retry EXCEPT ![q] = NoRetry]
  /\ UNCHANGED serviceVars

\* Consume of an approval that lapsed since Verify: ErrConflict, after expire.
ConsumeLate(q) ==
  /\ retry[q].pc = "expireLate"
  /\ WriteStatus(retry[q].id, "approved", "expired")
  /\ retry' = [retry EXCEPT ![q] = NoRetry]
  /\ UNCHANGED <<serviceVars, released>>

Create(q) ==
  /\ retry[q].pc = "create"
  /\ \E id \in ApprovalIds : CreatePending(id, retry[q].key, retry[q].impact)
  /\ retry' = [retry EXCEPT ![q] = NoRetry]
  /\ UNCHANGED <<serviceVars, released>>

\* The retry's client leaves or a statement fails between two steps.
GiveUp(q) ==
  /\ retry[q] # NoRetry
  /\ retry' = [retry EXCEPT ![q] = NoRetry]
  /\ UNCHANGED <<storeVars, serviceVars, released>>

RetryNext ==
  \E q \in Retriers :
    \/ \E k \in Keys, impact \in Impacts : Verify(q, k, impact)
    \/ VerifyWrite(q) \/ Consume(q) \/ Spend(q) \/ ConsumeLate(q) \/ Create(q) \/ GiveUp(q)

Next ==
  \/ DeciderNext /\ UNCHANGED <<retry, released>>
  \/ RetryNext

Spec == Init /\ [][Next]_vars

-----------------------------------------------------------------------------
(* Safety *)

\* An approval releases at most one retry, the retry of exactly the request
\* and the measured impact the people saw, judged before the approval lapsed
\* (the transaction that follows the judgement may still wait its turn), and
\* only ever as the row's last word.  Verify, the judgement and the spend are
\* separate steps, so any number of retries may hold a copy of the same live
\* approval when one of them spends it.
SpentOnceAsApproved ==
  \A id \in ApprovalIds :
    /\ Len(released[id]) <= 1
    /\ \A n \in DOMAIN released[id] :
         /\ approvals[id].status = "consumed"
         /\ released[id][n].key = approvals[id].key
         /\ released[id][n].impact = approvals[id].impact
         /\ released[id][n].at <= approvals[id].expires

\* Every token rests on people the rules accept: nobody the request was made
\* for, and for an access grant two accounts that are not one person under
\* two spellings or two ids.  The two approvals are calls that read the row
\* at different times, around revocations and re-created accounts.
MintedByTheRightPeople ==
  \A id \in ApprovalIds :
    Exists(id) /\ approvals[id].token # Null =>
      LET row == approvals[id]
          by  == decider[id]
      IN /\ by \in Approver
         /\ ~IsSelf(by, row.key)
         /\ row.impact \in Grants =>
              /\ by.account \in Accounts
              /\ row.first \in Accounts
              /\ ~IsSelf(UiApprover(row.first), row.key)
              /\ ~SamePerson(by, row.first)

\* The outbox and the table tell one story: the last partial event names the
\* first approver of record, and the last event is what the people decided.
OutboxTellsTheRow ==
  \A id \in ApprovalIds :
    Exists(id) =>
      LET row   == approvals[id]
          story == outbox[id]
          last  == story[Len(story)]
      IN /\ Len(story) > 0 /\ story[1].status = "pending"
         /\ row.status \in Waiting \cup {"denied"} => last.status = row.status
         /\ row.token # Null <=> last.status = "approved"
         /\ row.first # Null =>
              \E n \in DOMAIN story :
                /\ story[n].first = AccountName[row.first]
                /\ \A m \in n + 1 .. Len(story) : story[m].status # "partially_approved"

-----------------------------------------------------------------------------
(* What a step may never do *)

\* What people decided is only ever lost for cause: a row expires only once
\* it has lapsed, an approval is superseded only by a retry whose fresh
\* impact differs, and a denial, like every other final row, is for good.
\* The writes that end a row act on a copy read earlier, and in between the
\* row may have been approved with a new deadline.
LostOnlyForCause ==
  [][\A id \in ApprovalIds :
       LET row == approvals[id]
           new == approvals'[id]
       IN Exists(id) /\ new # row =>
            /\ row.status \notin Final
            /\ new.status = "expired" => Lapsed(row)
            /\ new.status = "superseded" =>
                 /\ row.status = "approved"
                 /\ \E q \in Retriers : retry[q].pc = "supersede" /\ retry[q].impact # row.impact
            /\ row.status = "approved" => new.status \in {"consumed", "superseded", "expired"}]_vars

\* A revoked account is never half of a release: when a second approval
\* mints the token both accounts are live, and a first approver is replaced
\* only when its account no longer is.
HalvesAreLive ==
  [][\A id \in ApprovalIds :
       LET row == approvals[id]
           new == approvals'[id]
       IN Exists(id) /\ row.status = "partially_approved" =>
            /\ new.status = "approved" => Live(row.first) /\ Live(decider'[id].account) /\ new.first = row.first
            /\ new.first # row.first => ~Live(row.first) /\ new.status = "partially_approved"]_vars

-----------------------------------------------------------------------------
(* The contract this implements *)

PhaseOf(row) ==
  CASE row = NoRow               -> "unborn"
    [] row.status \in Waiting    -> "asked"
    [] row.status = "approved"   -> "granted"
    [] row.status = "consumed"   -> "used"
    [] OTHER                     -> "closed"

NeedOf(row) == IF row = NoRow THEN 0 ELSE IF row.impact \in Grants THEN 2 ELSE 1

\* People are told apart by their names without case.
YesOf(id) ==
  LET row == approvals[id]
  IN IF row = NoRow THEN {}
     ELSE (IF row.first = Null THEN {} ELSE {Fold[AccountName[row.first]]})
          \cup (IF row.token = Null THEN {} ELSE {Fold[decider[id].name]})

Contract == INSTANCE ReleaseContract WITH
  Items  <- ApprovalIds,
  People <- {Fold[n] : n \in Names},
  phase  <- [id \in ApprovalIds |-> PhaseOf(approvals[id])],
  need   <- [id \in ApprovalIds |-> NeedOf(approvals[id])],
  yes    <- [id \in ApprovalIds |-> YesOf(id)]

\* Whatever the interleaving, each held request is granted only by as many
\* different people as it needs and its grant is used at most once.
ImplementsContract == Contract!Spec

=============================================================================
