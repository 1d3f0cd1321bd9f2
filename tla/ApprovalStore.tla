---------------------------- MODULE ApprovalStore ----------------------------
(***************************************************************************)
(* The tables of internal/store that the approval lifecycle lives in, and   *)
(* the SQLite transactions that change them.  Every operator below is one   *)
(* transaction: the connection opens its transactions IMMEDIATE, so two of  *)
(* them never interleave and a whole function of store/approvals.go is one  *)
(* step.  A compare-and-swap is split in two: an operator ...Where is the   *)
(* WHERE clause of the UPDATE, the operator without the suffix is the       *)
(* transaction when the clause holds.  When it does not hold the function   *)
(* returns ErrConflict and nothing changes; the caller decides what that    *)
(* means.                                                                   *)
(*                                                                          *)
(* Left out: columns no decision reads (action_json, rule, decided_at,      *)
(* first_approved_at), and the human and agent columns, which the session   *)
(* in the key determines.                                                   *)
(***************************************************************************)
EXTENDS Naturals, Sequences

CONSTANTS
  ApprovalIds,   \* random ids; numbers, because LatestApproval orders by id
  Keys,          \* an agent session together with a request digest
  Impacts,       \* measured impacts, one per impact digest
  Accounts,      \* approver accounts (ids of the approvers table)
  Names,         \* names: of accounts, and those typed after --by
  AccountName,   \* the name column of each account
  Null           \* an empty column

ASSUME IdsAssumption == ApprovalIds \subseteq Nat
ASSUME NamesAssumption == AccountName \in [Accounts -> Names]
ASSUME NullAssumption == Null \notin Accounts \cup Names

VARIABLES
  approvals,     \* the approvals table
  nonces,        \* the nonces table
  outbox,        \* the outbox table, by the approval its events are about
  accounts       \* the approvers table: none, live or revoked

storeVars == <<approvals, nonces, outbox, accounts>>

Waiting  == {"pending", "partially_approved"}
Final    == {"denied", "consumed", "superseded", "expired"}
Statuses == Waiting \cup {"approved"} \cup Final

\* What Service.Token signs: the HMAC is injective over these fields, and
\* nobody without the key can make one.
Tokens == [id : ApprovalIds, key : Keys, impact : Impacts, nonce : Nat, expires : Nat]
ASSUME TokenAssumption == Null \notin Tokens

\* nonce 0 is the empty column: nonces are minted from 1.
Rows == [key : Keys, impact : Impacts, status : Statuses,
         created : Nat, expires : Nat,
         first : Accounts \cup {Null}, decidedBy : Names \cup {Null},
         nonce : Nat, token : Tokens \cup {Null}]

\* An id the table does not hold.
NoRow == [status |-> "absent"]

\* An event names the first approver, it does not carry the account.
Events == [status : Waiting \cup {"approved", "denied"}, first : Names \cup {Null}]

Exists(id) == approvals[id] # NoRow

StoreTypeOK ==
  /\ approvals \in [ApprovalIds -> Rows \cup {NoRow}]
  /\ nonces \in SUBSET Nat
  /\ outbox \in [ApprovalIds -> Seq(Events)]
  /\ accounts \in [Accounts -> {"none", "live", "revoked"}]

StoreInit ==
  /\ approvals = [id \in ApprovalIds |-> NoRow]
  /\ nonces = {}
  /\ outbox = [id \in ApprovalIds |-> <<>>]
  /\ accounts = [a \in Accounts |-> "none"]

-----------------------------------------------------------------------------
(* Reads *)

Live(a) == a \in Accounts /\ accounts[a] = "live"

\* ORDER BY created_at DESC, id DESC
Newer(i, j) ==
  \/ approvals[i].created > approvals[j].created
  \/ approvals[i].created = approvals[j].created /\ i > j

RowsOf(k) == {id \in ApprovalIds : Exists(id) /\ approvals[id].key = k}

\* LatestApproval, LIMIT 1: the newest row of the key, if it has one.
Latest(k) == {i \in RowsOf(k) : \A j \in RowsOf(k) \ {i} : Newer(i, j)}

\* The rows ListPendingApprovals and PendingQueue show an approver.
PendingQueue(now) ==
  {id \in ApprovalIds : Exists(id) /\ approvals[id].status \in Waiting /\ approvals[id].expires >= now}

-----------------------------------------------------------------------------
(* Transactions on approvals *)

Record(id, status, first) ==
  outbox' = [outbox EXCEPT ![id] = Append(@, [status |-> status, first |-> first])]

\* The INSERT fails on a duplicate id.
CreateApproval(id, k, impact, now, expires) ==
  /\ ~Exists(id)
  /\ approvals' = [approvals EXCEPT ![id] =
       [key |-> k, impact |-> impact, status |-> "pending", created |-> now,
        expires |-> expires, first |-> Null, decidedBy |-> Null, nonce |-> 0, token |-> Null]]
  /\ Record(id, "pending", Null)
  /\ UNCHANGED <<nonces, accounts>>

\* decide: the UPDATE shared by a deny, a lone approval and a second one.
decide(id, status, by, nonce, token, expires) ==
  /\ approvals' = [approvals EXCEPT ![id] =
       [@ EXCEPT !.status = status, !.decidedBy = by, !.nonce = nonce,
                 !.token = token, !.expires = expires]]
  /\ Record(id, status, Null)
  /\ UNCHANGED <<nonces, accounts>>

DecideWhere(id, status) ==
  approvals[id].status \in (IF status = "denied" THEN Waiting ELSE {"pending"})

DecideApproval(id, status, by, nonce, token, expires) ==
  DecideWhere(id, status) /\ decide(id, status, by, nonce, token, expires)

ApproveSecondUnpinned(id, first, by) ==      \* mutant: any first approver will do
  /\ approvals[id].status = "partially_approved"
  /\ Live(approvals[id].first)
  /\ Live(by)

ApproveSecondUnchecked(id, first, by) ==     \* mutant: accounts checked by the caller only
  approvals[id].status = "partially_approved" /\ approvals[id].first = first

\* The two existence tests on approvers are part of the same UPDATE.
ApproveSecondWhere(id, first, by) ==
  /\ approvals[id].status = "partially_approved"
  /\ approvals[id].first = first
  /\ Live(approvals[id].first)
  /\ Live(by)

ApproveSecond(id, first, by, nonce, token, expires) ==
  ApproveSecondWhere(id, first, by) /\ decide(id, "approved", AccountName[by], nonce, token, expires)

ReplaceWhere(id, revoked) ==
  /\ approvals[id].status = "partially_approved"
  /\ approvals[id].first = revoked
  /\ ~Live(approvals[id].first)

ReplaceSilently(id, revoked, by, name) ==          \* mutant: no outbox event
  /\ ReplaceWhere(id, revoked)
  /\ approvals' = [approvals EXCEPT ![id].first = by]
  /\ UNCHANGED <<nonces, outbox, accounts>>

ReplaceFirstApprover(id, revoked, by, name) ==
  /\ ReplaceWhere(id, revoked)
  /\ approvals' = [approvals EXCEPT ![id].first = by]
  /\ Record(id, "partially_approved", name)
  /\ UNCHANGED <<nonces, accounts>>

MarkWhere(id) == approvals[id].status = "pending"

MarkPartiallyApproved(id, by, name) ==
  /\ MarkWhere(id)
  /\ approvals' = [approvals EXCEPT ![id] = [@ EXCEPT !.status = "partially_approved", !.first = by]]
  /\ Record(id, "partially_approved", name)
  /\ UNCHANGED <<nonces, accounts>>

ConsumeWhereNonceOnly(id, nonce) ==          \* mutant: a spent nonce still matches
  approvals[id].nonce = nonce

\* The row must be approved under this nonce, and the nonce unused.
ConsumeWhere(id, nonce) ==
  /\ approvals[id].status = "approved"
  /\ approvals[id].nonce = nonce
  /\ nonce \notin nonces

ConsumeApproval(id, nonce) ==
  /\ ConsumeWhere(id, nonce)
  /\ approvals' = [approvals EXCEPT ![id].status = "consumed"]
  /\ nonces' = nonces \cup {nonce}
  /\ UNCHANGED <<outbox, accounts>>

StatusWhereAny(id, from) == Exists(id)       \* mutant: the update is not pinned

StatusWhere(id, from) == approvals[id].status = from

SetApprovalStatus(id, from, to) ==
  /\ StatusWhere(id, from)
  /\ approvals' = [approvals EXCEPT ![id].status = to]
  /\ UNCHANGED <<nonces, outbox, accounts>>

-----------------------------------------------------------------------------
(* Transactions on approvers *)

\* The unique index on the names of live approvers; names compare exactly.
NameFree(a) == \A b \in Accounts : accounts[b] = "live" => AccountName[b] # AccountName[a]

CreateApprover(a) ==
  /\ accounts[a] = "none"
  /\ NameFree(a)
  /\ accounts' = [accounts EXCEPT ![a] = "live"]
  /\ UNCHANGED <<approvals, nonces, outbox>>

RevokeApprover(a) ==
  /\ accounts[a] = "live"
  /\ accounts' = [accounts EXCEPT ![a] = "revoked"]
  /\ UNCHANGED <<approvals, nonces, outbox>>

=============================================================================
