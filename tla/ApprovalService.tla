--------------------------- MODULE ApprovalService ---------------------------
(***************************************************************************)
(* approval.Service (internal/approval): the rules under which people       *)
(* decide a held request, and what a retry of the request is answered.      *)
(*                                                                          *)
(* Approve and Deny are called by the admin API (a signed-in approver       *)
(* account) and by the CLI (a name, no account), each call on its own       *)
(* goroutine or in its own process.  A call reads the row, checks the rules *)
(* and only then writes, so it is several steps here, one per statement     *)
(* sent to the database; its place and the values it read earlier are in    *)
(* call.  Steps of different calls interleave freely.                       *)
(*                                                                          *)
(* Verify and Consume are the retry's side.  They are operators, because    *)
(* their caller keeps the copy of the row between their steps: Approvals    *)
(* drives them with the plain retry loop, Gate with the gate's decision.    *)
(***************************************************************************)
EXTENDS ApprovalStore

CONSTANTS
  Callers,       \* concurrent Approve and Deny calls
  CliNames,      \* names people type after --by
  KeyHuman,      \* the human the key's session acts for
  LinkedHumans,  \* approver_humans: never edited once the account exists
  Fold,          \* a name without its case
  Grants,        \* the impacts NeedsTwo says two people must approve
  PendingTTL, TokenTTL, Reauth,
  MaxTime        \* bound: the clock stops here

ASSUME ServiceAssumption ==
  /\ CliNames \subseteq Names
  /\ KeyHuman \in [Keys -> Names]
  /\ LinkedHumans \in [Accounts -> SUBSET Names]
  /\ Fold \in [Names -> Names]
  /\ Grants \subseteq Impacts
  /\ PendingTTL \in Nat /\ TokenTTL \in Nat /\ Reauth \in Nat /\ MaxTime \in Nat

VARIABLES
  clock,         \* Service.Now
  minted,        \* nonces minted so far
  call,          \* the Approve and Deny calls in progress
  decider        \* history: who made each row's final decision

serviceVars == <<clock, minted, call, decider>>

\* approval.Approver as its two callers fill it in.  The admin API always
\* gives an account and channel "ui", the CLI never an account and "cli", so
\* account = Null also stands for the channel.
UiApprover(a)  == [account |-> a, name |-> AccountName[a], humans |-> LinkedHumans[a]]
CliApprover(n) == [account |-> Null, name |-> n, humans |-> {}]
Approver == {UiApprover(a) : a \in Accounts} \cup {CliApprover(n) : n \in CliNames}

CallPcs == {"approve", "deny", "firstLive", "mark", "replace", "second", "lone", "denyWrite"}
Calls   == [pc : CallPcs, by : Approver, id : ApprovalIds,
            first : Accounts \cup {Null}, signedIn : Nat, now : Nat]
NoCall  == [pc |-> "idle"]

ServiceTypeOK ==
  /\ StoreTypeOK
  /\ clock \in Nat
  /\ minted \in Nat
  /\ call \in [Callers -> Calls \cup {NoCall}]
  /\ decider \in [ApprovalIds -> Approver \cup {Null}]

ServiceInit ==
  /\ StoreInit
  /\ clock = 0
  /\ minted = 0
  /\ call = [p \in Callers |-> NoCall]
  /\ decider = [id \in ApprovalIds |-> Null]

-----------------------------------------------------------------------------
(* The rules *)

Lapsed(row) == clock > row.expires

Decidable(row) == row.status \in Waiting /\ ~Lapsed(row)

\* Exact comparison, of the name and of the linked humans.
IsSelf(by, k) == by.name = KeyHuman[k] \/ KeyHuman[k] \in by.humans

NeedsTwoOnceBegun(row) == row.status = "partially_approved"    \* mutant: the class is not read

\* Grants stands for class AUTHORITY and for every impact NeedsTwo cannot
\* read or that no longer matches its digest.
NeedsTwo(row) == row.status = "partially_approved" \/ row.impact \in Grants

\* by.SignedIn.After(now) || now.Sub(by.SignedIn) > reauth
SignInTooOld(signedIn) == signedIn > clock \/ clock - signedIn > Reauth

SamePerson(by, first) ==
  by.account = first \/ Fold[by.name] = Fold[AccountName[first]]

ApproveRefusesByName(by, signedIn, row) ==     \* mutant: the linked humans are not read
  \/ ~Decidable(row)
  \/ by.name = KeyHuman[row.key]
  \/ NeedsTwo(row) /\ (by.account = Null \/ SignInTooOld(signedIn))

\* The refusals Approve gives from the row it loaded and the approver alone.
ApproveRefuses(by, signedIn, row) ==
  \/ ~Decidable(row)
  \/ IsSelf(by, row.key)
  \/ NeedsTwo(row) /\ (by.account = Null \/ SignInTooOld(signedIn))

\* Where Approve goes next when it does not refuse.
ApproveNext(row) ==
  IF ~NeedsTwo(row) THEN "lone"
  ELSE IF row.status = "pending" THEN "mark" ELSE "firstLive"

-----------------------------------------------------------------------------
(* Approve and Deny, statement by statement *)

Step(p, pc) == [call[p] EXCEPT !.pc = pc]
Return(p)   == call' = [call EXCEPT ![p] = NoCall]

\* Auth.Require let the browser session through: its account is live and it
\* was created at signedIn.  The CLI starts at the same place with a name.
\* Only an approval from the browser ever looks at signedIn.
BeginCall(p, verb, by, id, signedIn) ==
  /\ call[p] = NoCall
  /\ Exists(id)
  /\ by.account = Null \/ Live(by.account)
  /\ by.account = Null \/ verb = "deny" => signedIn = 0
  /\ call' = [call EXCEPT ![p] = [pc |-> verb, by |-> by, id |-> id, first |-> Null,
                                signedIn |-> signedIn, now |-> 0]]
  /\ UNCHANGED <<storeVars, clock, minted, decider>>

\* decidable reads the row; the rules that need nothing else follow at once.
\* Of the row read, only the first approver can still change afterwards.  now
\* is read here, once, and is what a later statement counts its deadline from.
LoadApprove(p) ==
  /\ call[p].pc = "approve"
  /\ LET row == approvals[call[p].id] IN
       call' = [call EXCEPT ![p] =
         IF ApproveRefuses(@.by, @.signedIn, row) THEN NoCall
         ELSE [@ EXCEPT !.pc = ApproveNext(row), !.first = row.first, !.signedIn = 0, !.now = clock]]
  /\ UNCHANGED <<storeVars, clock, minted, decider>>

\* The first of two approvals; on ErrConflict someone else got there first.
Mark(p) ==
  /\ call[p].pc = "mark"
  /\ \/ MarkPartiallyApproved(call[p].id, call[p].by.account, call[p].by.name)
     \/ ~MarkWhere(call[p].id) /\ UNCHANGED storeVars
  /\ Return(p)
  /\ UNCHANGED <<clock, minted, decider>>

\* ApproverLive on the first approver read by LoadApprove.
CheckFirst(p) ==
  /\ call[p].pc = "firstLive"
  /\ call' = [call EXCEPT ![p] =
       IF ~Live(@.first) THEN [@ EXCEPT !.pc = "replace"]
       ELSE IF SamePerson(@.by, @.first) THEN NoCall
       ELSE [@ EXCEPT !.pc = "second"]]
  /\ UNCHANGED <<storeVars, clock, minted, decider>>

Replace(p) ==
  /\ call[p].pc = "replace"
  /\ \/ ReplaceFirstApprover(call[p].id, call[p].first, call[p].by.account, call[p].by.name)
     \/ ~ReplaceWhere(call[p].id, call[p].first) /\ UNCHANGED storeVars
  /\ Return(p)
  /\ UNCHANGED <<clock, minted, decider>>

\* NewID is random: a nonce never minted before.  It is minted just before
\* the write that stores it, and one that loses is seen by nobody.
Nonce == minted + 1
TokenOf(id, k, impact, nonce, expires) ==
  [id |-> id, key |-> k, impact |-> impact, nonce |-> nonce, expires |-> expires]
MintedToken(id, expires) ==
  TokenOf(id, approvals[id].key, approvals[id].impact, Nonce, expires)

Decided(p) ==
  /\ minted' = minted + 1
  /\ decider' = [decider EXCEPT ![call[p].id] = call[p].by]

Second(p) ==
  /\ call[p].pc = "second"
  /\ LET id      == call[p].id
         expires == call[p].now + TokenTTL
     IN
       \/ /\ ApproveSecond(id, call[p].first, call[p].by.account, Nonce, MintedToken(id, expires), expires)
          /\ Decided(p)
       \/ /\ ~ApproveSecondWhere(id, call[p].first, call[p].by.account)
          /\ UNCHANGED <<storeVars, minted, decider>>
  /\ Return(p)
  /\ UNCHANGED clock

Lone(p) ==
  /\ call[p].pc = "lone"
  /\ LET id      == call[p].id
         expires == call[p].now + TokenTTL
     IN
       \/ /\ DecideApproval(id, "approved", call[p].by.name, Nonce, MintedToken(id, expires), expires)
          /\ Decided(p)
       \/ ~DecideWhere(id, "approved") /\ UNCHANGED <<storeVars, minted, decider>>
  /\ Return(p)
  /\ UNCHANGED clock

\* Deny has one rule: the row must still be decidable.
LoadDeny(p) ==
  /\ call[p].pc = "deny"
  /\ call' = [call EXCEPT ![p] =
       IF Decidable(approvals[@.id]) THEN [@ EXCEPT !.pc = "denyWrite", !.signedIn = 0, !.now = clock]
       ELSE NoCall]
  /\ UNCHANGED <<storeVars, clock, minted, decider>>

DenyWrite(p) ==
  /\ call[p].pc = "denyWrite"
  /\ LET id == call[p].id IN
       \/ /\ DecideApproval(id, "denied", call[p].by.name, 0, Null, call[p].now + PendingTTL)
          /\ decider' = [decider EXCEPT ![id] = call[p].by]
       \/ ~DecideWhere(id, "denied") /\ UNCHANGED <<storeVars, decider>>
  /\ Return(p)
  /\ UNCHANGED <<clock, minted>>

\* A statement fails, the browser hangs up or the process dies: the call
\* ends where it is, and what it had not committed never happened.
Abandon(p) ==
  /\ call[p] # NoCall
  /\ Return(p)
  /\ UNCHANGED <<storeVars, clock, minted, decider>>

-----------------------------------------------------------------------------
(* Accounts and time *)

\* approverNew: the account is of use only once its links are stored and its
\* token is printed, so the three are one step; a failure in between revokes
\* the account, which is NewApprover followed by Revoke.
NewApprover(a) == CreateApprover(a) /\ UNCHANGED serviceVars

Revoke(a) == RevokeApprover(a) /\ UNCHANGED serviceVars

Tick ==
  /\ clock < MaxTime
  /\ clock' = clock + 1
  /\ UNCHANGED <<storeVars, minted, call, decider>>

DeciderNext ==
  \/ \E p \in Callers : \E verb \in {"approve", "deny"}, by \in Approver, id \in ApprovalIds :
       \E signedIn \in 0 .. clock : BeginCall(p, verb, by, id, signedIn)
  \/ \E p \in Callers :
       \/ LoadApprove(p) \/ Mark(p) \/ CheckFirst(p) \/ Replace(p) \/ Second(p) \/ Lone(p)
       \/ LoadDeny(p) \/ DenyWrite(p) \/ Abandon(p)
  \/ \E a \in Accounts : NewApprover(a) \/ Revoke(a)
  \/ Tick

-----------------------------------------------------------------------------
(* Verify and Consume, the retry's side *)

\* Verify's switch on the row LatestApproval returned.  "expire" and
\* "supersede" are the answers None and Void that come with a status write,
\* a separate statement whose ErrConflict changes nothing in the answer.
VerifyAnswer(id, row, k, impact) ==
  CASE row.status \in Waiting   -> IF Lapsed(row) THEN "expire" ELSE "pending"
    [] row.status = "denied"    -> IF Lapsed(row) THEN "none" ELSE "denied"
    [] row.status = "approved"  -> IF Lapsed(row) THEN "expire"
                                   ELSE IF row.token = TokenOf(id, k, impact, row.nonce, row.expires)
                                   THEN "verified" ELSE "supersede"
    [] OTHER                    -> "none"

\* The status write behind "expire" and "supersede"; losing it is fine.
WriteStatus(id, from, to) ==
  \/ SetApprovalStatus(id, from, to)
  \/ ~StatusWhere(id, from) /\ UNCHANGED storeVars

\* approvalsAdapter.CreatePending stamps the pending lifetime.
CreatePending(id, k, impact) == CreateApproval(id, k, impact, clock, clock + PendingTTL)

=============================================================================
