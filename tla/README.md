# A TLA+ model of blastgate

blastgate is a gateway between AI agents and a Kubernetes API server. Reads pass;
a write is measured against the live cluster, put to a policy, and allowed, refused
or held until people approve it. An approval is good for one retry of exactly the
request, and the measured impact, that people saw.

These modules model the parts of the program where a mistake would let a write
through, lose a person's decision, hang a request, or show approvers something that is
not so: the approval lifecycle in the database, the service that applies the approval
rules, the gate that drives both for every request, the engine's measurement and the
policy it is put to, the proxy and its agent sessions in the server process, the webhook
that records what went around it, the data directory every process opens, the sign-in of
approvers, and the live console they decide from.

## The system

| Component | State | Operations | Talks to |
|---|---|---|---|
| Approval store (`internal/store/approvals.go`, `admin.go`) | tables `approvals`, `nonces`, `outbox`, `approvers`, `approver_humans`, `ui_sessions` | one SQLite transaction per function; compare-and-swap UPDATEs | called by the service, the CLI and the admin API, from several processes |
| Approval service (`internal/approval`) | none of its own: a signing key and lifetimes | Approve, Deny (people), Verify, Consume, Check (retries) | store |
| Gate (`internal/gate`) | one `Verdict` per request | Decide: hold, wait, recheck, forward, refuse; Complete | engine, policy, approvals, snapshots, audit |
| Proxy (`internal/proxy`) | one goroutine per request | authenticate, read the body, Decide, forward or answer, Complete | gate, API server |
| Snapshot taker (`internal/snapshot`) | a directory per request on disk | Take, Discard | engine, disk |
| Audit trail (`internal/store/audit.go`) | table `audit`, append-only | AppendAudit, queries | gate, admin API |
| Agent sessions (`internal/session`) | table `sessions` | New, Authenticate, revoke | proxy, CLI |
| Admin sign-in (`internal/admin/auth.go`, `ui/src/api.ts`) | `ui_sessions`, the login limiter; the browser's cookie, each tab's CSRF value and name | login, logout, Require, whoami | store, every admin route |
| Admin stream (`internal/admin/stream.go`, `ui/src/api.ts`) | stream slots, a cursor per stream; the EventSource's last event id | connect, resume, poll, retry | audit, pending queue, browser |
| Activity feed and badge (`ui/src/views/Activity.tsx`, `App.tsx`) | the list, rows held back, rows buffered, the count | load, fold, show | stream, admin API |
| Admin API (`internal/admin/api.go`) | none | decide (approve, deny), listings, replay | service, store |
| Bypass webhook (`internal/webhook`) | in-flight semaphore, table `bypass` | ServeHTTP | API server, store |
| Engine (`internal/engine`) | none: one `Impact` in the making per request | Assess: classify, read, dry-run, score, disruption, budget, labels | API server |
| Policy and replay (`internal/policy`, `internal/replay`) | the rules loaded at start | Load, Evaluate, replay of the audit trail | gate, admin API, CLI |
| Store opening (`internal/store/store.go`) | `schema_version`, the write lock | Open, migrate | every process |
| TLS files (`internal/tlsutil`) | `ca.key`, `ca.crt`, `server.key`, `server.crt` | LoadOrCreate, LoadCA | every process |
| Server process (`cmd/blastgate/serve.go`) | three listeners | start, serve, shut down | everything |
| CLI, configuration, normalisation, upstream, web console | files, environment | commands, parsing, rendering | |

What is hard in it:

* **Concurrency on rows.** Approve reads a row, checks rules on the copy, and writes;
  in between other approvers, a denial, a revocation, an expiry or a retry may have
  moved the row. Any number of retries may hold a copy of the same live approval.
* **People.** Two approvals of an access grant must be two people, around accounts that
  are revoked and made again, names that differ only in case, accounts linked to the
  human the request is for.
* **Order of effects.** Snapshot, decision row, spending of the approval and forward
  happen in that order; each may fail, the client may leave, the process may die.
* **Time.** Deadlines are judged on copies, more than once, and the cluster is measured
  again after a wait.
* **One browser, several tabs.** A cookie is shared, what a tab remembers is not, and
  answers arrive in another order than the server gave them.
* **A feed in two halves.** A page is fetched and a stream followed, of a table that
  grows meanwhile, over connections that break.
* **A cluster that moves.** An impact is put together from several reads, each of which
  may fail, be refused or come too late, of objects others change meanwhile. What could
  not be measured must never look harmless.
* **One process on both ends.** The API server asks the webhook about the very dry-run
  the proxy's request is waiting for; a slot, a listener, a session or the store may go
  in between.
* **Several processes, one directory.** Server, commands and `webhook-config` of different
  builds make the schema and the certificate authority together, and each may die
  between two system calls.
* **Duplicates.** An agent may send the same request twice at once; each may create a
  row, and everything afterwards looks only at the newest.

## Modules

| Module | Models | Extends |
|---|---|---|
| `ApprovalStore` | the tables and each transaction on them | |
| `ApprovalService` | the rules; Approve and Deny calls statement by statement; accounts; the clock; Verify's answer | `ApprovalStore` |
| `Approvals` | the service with concurrent retries (Check) | `ApprovalService` |
| `ReleaseContract` | abstract: as many different people as needed, used at most once | |
| `Gate` | Decide, the proxy around it, clients that leave, crashes | `ApprovalService` |
| `ServiceProofs` | lemmas about the tables and the deciders, for the two modules below | `ApprovalService` |
| `ApprovalsProofs` | theorems about `Approvals`: types, who mints, what is spent, its steps, the outbox and `ReleaseContract` | `Approvals`, `ServiceProofs` |
| `GateProofs` | theorems about `Gate` | `Gate`, `ServiceProofs` |
| `SignIn` | login, Require, logout, limiter, revocation sweep; cookie jars and tabs | |
| `SignInProofs` | theorems about `SignIn` | `SignIn` |
| `Stream` | the stream handler, the EventSource, the badge, the activity feed | |
| `StreamProofs` | theorems about `Stream` | `Stream` |
| `DataDir` | Open and migrate, the certificate authority and the serving pair, of any number of processes | |
| `DataDirProofs` | theorems about `DataDir` | `DataDir` |
| `Webhook` | the bypass webhook's handler, its semaphore and its table | |
| `Serve` | the server process, the proxy's handler, agent sessions, with the webhook and the API server | `Webhook` |
| `ServeProofs` | theorems about `Serve` and `Webhook` | `Serve` |
| `Policy` | Load, Evaluate, the default policy, audit labels and replay, as operators | |
| `Measure` | Assess read by read against a moving cluster, and what the gate makes of it | `Policy` |
| `MeasureProofs` | theorems about `Policy` and `Measure` | `Measure` |
| `MCApprovals`, `MCGate`, `MCSignIn`, `MCStream`, `MCDataDir`, `MCServe`, `MCMeasure` | instances for TLC | |

**ApprovalStore.** A variable per table. A transaction is one step because the
connection opens its transactions `IMMEDIATE`: two never interleave. Each
compare-and-swap is an operator `...Where` (the UPDATE's WHERE clause) and the
transaction itself; a caller whose clause does not hold gets ErrConflict and takes the
disjunct that changes nothing. Row ids are numbers since `LatestApproval` breaks ties
by id. A key stands for an agent session and a request digest; a token for the tuple its HMAC
signs (the MAC is injective over the fields and cannot be made without the key, so an
edited database row is outside the model). An outbox event carries the name of the first
approver, not the account, as in the code.

**ApprovalService.** Each Approve or Deny call is a process with a program counter: one
action for every statement it sends to the database, with the values it keeps from
earlier ones (the first approver, the deadline's verdict). `NeedsTwo` reads the impact: `Grants`
are those of class AUTHORITY and those the code cannot read or whose digest does not
match. The clock is read beside the statement it is used with. `NewApprover` is
creation, links and the printed token in one step, because nobody can sign in before the token
is printed; a failure half-way revokes the account, which is `NewApprover` then
`Revoke`. `Abandon` ends a call at any point: failed statement, closed browser, dead
process. `minted` numbers the random nonces; `decider` is a history variable.

**Approvals.** A retry is Verify (a read, then possibly a status write), Consume, and
the row its caller creates when there is nothing to use. The copy of the row Verify
returned lives in the retry between its steps. Consume is two of them: it reads the time
and judges the copy's lapse (`Consume`), and then spends in a transaction (`Spend`) that
may first wait for the database, the clock running. `released` is a history of what each
approval let through, and of the time it was judged at.

**ReleaseContract.** `PhaseOf`, `NeedOf` and `YesOf` map a row onto it: waiting is
`asked`, approved is `granted`, consumed is `used`; people are names without case.

**Gate.** A request is a record holding what `Verdict` and the locals of hold, recheck
and forward hold. Policy and engine are nondeterministic: a measurement may be any
impact and a verdict any in `Verdict[impact]`, since namespace labels are judged but
not part of the digest. Statements on the request's context fail once its client has
left; the decision row and the consume run on a detached context. The gate asks for the
client a last time before it judges the lapse; `Consume` and `Spend` are two steps here
too, and a client may leave between them, or after both. `Forward` is the reverse proxy,
which runs on the client's own context: the request is answered, or the client has left
(`unknown`), or the API server is not reached (`unreachable`), and of the last two nobody
can tell whether the write arrived, so it did or it did not. `Crash` keeps tables
and directories and loses every request in flight; the server recovers nothing at start, so a
restart is nothing more. Message texts, and with them the `changed` flag, are left out.
After a crash no Approve or Deny call is forced to end, since calls from the CLI are
processes of their own; those of the admin API end by `Abandon`.

**SignIn.** A call is a record that travels: it takes the cookie from the jar when it is
sent, makes each of its store statements as a step, and its answer reaches the jar and
the tab in a step of its own, or never (`Lose`). A session id stands for the cookie and
its CSRF value, minted together. What a handler behind Require does is in
`ApprovalService`; here it is an answer. `load` and `refused` are the two callers of
whoami, one of which sets the name a tab shows. `Find` has no branch for a cookie that
names no row, since no code deletes rows. `Copy` puts one browser's cookie in the jar of
another, which may present it long after its owner signed out or signed in again; it is
what login revokes the previous session for (`auth.go:165`). `over` (of a call),
`ended` and `attempts` are history.

**Stream.** Audit rows are their ids; the pending queue is one value, read by one
statement. A handler has a program counter: start, then session, queue and audit
statements of each poll, then idle. A connection holds its events in order; when it
breaks they are lost, the browser reconnects with its last event id and the old handler
is `Left` on the server, holding its slot until it notices. A refused stream goes
through whoami and a timer to a new EventSource, which has no last event id. The feed
is the set of rows folded into it, those held back while someone reads, and those
buffered while a page loads; whether a reader is there is a free choice. The tabs are
those of one sign-in. The cap on the list (its oldest requests drop off), Load older
and the text filters are left out.

**DataDir.** A step is one system call on a shared file, or one end of the migration's
transaction. A process stands for the keys it makes, so a certificate is whose key and whose signature.
`Begin` takes the write lock and reads the version under it; `Busy` is a BEGIN that
failed, possible whenever another process is in Open, and is tried `MigrateAttempts`
times. `Claim` links `ca.key`, `Publish` links `ca.crt`; a process that sees the one
without the other waits until `caWait` and then tells the operator to remove the key
(`told`), which the operator may do at once or much later (`RemoveKey`). The serving pair
is two renames, so another process may read one old and one new half. `Stop` is a death
or a failed system call at any point. `Age` is a serving certificate that comes due.
The commands other than `session new` only open the database, which is the first half
of a process that then stops.

**Webhook.** A review is the call about one write. Its program counter has the handler's
returns: no slot (503), a body that cannot be used, a write that is not recorded, a row
written or not written in `recordTimeout`. `logged` is what an operator is told instead.

**Serve.** `phase` is where serveCmd is; addresses are bound one by one before any is
served. Closing the store is a step before the process is gone, and handlers that
outlive the five seconds find it closed (`StoreOpen`). `Exit` is also a kill. Authenticate
is two steps, the lookup and the judgement of the copy, with revocations and the clock
between. A request may carry an identity of its own in a header, refused before the body
is read, or in a trailer, known only after. The API server is external: it takes a
dry-run or a write (`Admit`), asks the webhook if it reaches it, and goes on in any case
(`failurePolicy: Ignore`). What Decide does inside is `Gate`'s: here it sends a dry-run or
not and forwards or refuses. `over`, `seen` and `completes` are history.

**Policy.** CEL programs are the answers they give: `Eval` has those of `default.yaml` and
of three that an operator may write, one of which always fails. Unknown labels make a
condition on them an error, which `&&` absorbs when its other side is false. A rule with a
loop may notice after a hundred turns that its client has left and fail (`cut`, the rule
that did): only rules with a loop, and never in a replay, which has a context of its own.

**Measure.** The cluster is one workload with its pods, one Service, one disruption
budget and perhaps an admission webhook that refuses dry-runs; `Move` changes any one fact
of it between any two reads. Pods carry the template's label but for those it was taken
off (`stray`). Each read of
assessMutation, scaleDown and their helpers is an action with its failures; a Scale of
zero replicas has no `replicas` in its JSON, a custom resource has what its body says. A
dry-run is refused with 403 or 404 because the human may not, because the object is not
there, or by the webhook alone. Deletes
are scored by the sounding library, external, any answer it may give. Where it looks at what
depends on pods, the deadline may cut it short (`CutShort`): it returns part of the
truth as if it were all of it, and the check of the deadline at the end is what that must
not get past. A recheck releases through the row that waited or through another row of the
request that was approved for the impact measured now. `Harms` is what the
write does, read off the cluster before and after without the engine: the reference the
impact is held against. The yes of people is a choice here (`Approved`, `Verified`);
whose it is and that it is spent once is `Gate`'s and `Approvals`'.

## Runs

| Run | Instance | Checks |
|---|---|---|
| `two_people` | one grant, accounts `bob`, `Bob`, `dave`, two concurrent calls, one retry, two ticks | `MintedByTheRightPeople`, `OutboxTellsTheRow`, `HalvesAreLive`, `ImplementsContract` |
| `spend_once` | two rows of one key, two impacts, two retries, one call at a time from the CLI or by an account linked to the requester, three ticks | `TypeOK`, `MintedByTheRightPeople`, `SpentOnceAsApproved`, `LostOnlyForCause` |
| `gate_release` | two identical requests, two impacts, a policy that may refuse one | `TypeOK`, `ForwardedAsApproved`, `ApprovalsKeptUnlessUsed` |
| `gate_crash` | two identical requests, one row, one impact the policy may allow or hold, one crash, a client that leaves; under `FairSpec` | `RecordedBeforeForward`, `NoStraySnapshot`, `NoYesWasted`, `EveryRequestDecided` |
| `gate_window` | two identical requests, two rows | `ApprovedInWindowGoesThrough`: **violated** |
| `sign_in` | two browsers at two addresses, one of which may be given the other's cookies, one approver, two sessions of two ticks, two logins in a window of two ticks, a limiter with room for one address | `TypeOK`, `LimitHolds`, `NoEntryAfterEnd` |
| `sign_in_name` | two tabs, two approvers | `ActsAsShown`: **violated** |
| `stream` | one tab, two rows, two queue contents, one slot and two connections, pages of one row, batches of one | `TypeOK`, `FeedMissesNothing`, `BadgeIsWhatWasTold`, `SlotsAreHandlers` |
| `stream_live` | one tab, one row, one slot, under `FairSpec` | `StreamEndsWithSession` |
| `data_dir` | three servers or session commands of two builds and two host lists and one `webhook-config`, an empty directory, two attempts at the lock, one removal of `ca.key`; under `DirFairSpec` | `DirTypeOK`, `MigratedOnce`, `OneAuthority`, `EveryStartEnds` |
| `serve` | one agent request with its dry-run and its write, one write made directly, one slot, one session, two clock values, two listeners; under `FairSpec` | `ServeTypeOK`, `SlotsAreReviews`, `BypassIsTold`, `ForwardedAsTheHuman`, `CompletedOnce`, `HalfServerStops`, `EveryReviewEnds` |
| `measure` | thirty-one requests of every kind, workloads of up to two pods, with and without a webhook that refuses dry-runs, seven policy documents, one move of the cluster | `MeasureTypeOK`, `MeasuredTellsAll`, `NeverAllowedUnmeasured`, `AllowedIsHarmless`, `TrailReplays` |

Every property is stated in its module with the code behaviour it is about, and for
every property of a passing run `PROJECT.json` names a mutation of the code (a dropped
WHERE conjunct, a missing Discard, a missing timer...) under which it fails.

### What the violated runs show

* **An approval inside the hold window may not release its request.** Two identical
  requests arrive together; both find nothing and each creates a pending row. The older
  row is approved while its request waits. Its poll sees that, measures again and calls
  Verify, which reads the *newest* row of the request: the other one, still pending.
  The request is answered with a ticket for an approval that is already given. (A retry
  does not help until the newer row is decided or expires.) The repository's README: "Approved in that window, the
  original request goes through and the agent never notices".
* **A tab may decide as someone it does not show.** Ann's tab is open; Bob signs in from a
  second tab of the same browser. Ann's tab loses its stream, is refused a new one,
  and whoami renews its CSRF value, Bob's now, while the header and the self-approval
  guard keep Ann's name. The next decision is recorded as Bob's. (Until whoami runs the
  stale CSRF value protects: such a call is answered 403.)

Other consequences of the modelled code a reader should know, which no run asks about:

* Of the two rows above the older may be *denied*; a retry then sees the newer one and
  waits on it, though Deny's comment says that a denial "blocks retries of the same
  request for the pending lifetime".
* A tab's late 401 clears the browser's cookie even when another tab has signed in since;
  the comment on Require: "A presented cookie that fails is cleared".
* A row written after the activity page is read and before the stream reads the newest
  id is in neither half of the feed; the comment on the stream: "everything up to it the
  feed fetched itself". `FeedMissesNothing` is therefore about rows after the stream's start.
* A crash between the snapshot and the forward leaves a bundle on disk; nothing sweeps it
  at the next start. `NoStraySnapshot` exempts it.
* A client that leaves after its approval was spent, or an API server that cannot be
  reached, uses the approval up and keeps the snapshot though perhaps nothing was
  written: the proxy cannot tell (`proxy.go:109`). `NoYesWasted` and `NoStraySnapshot`
  therefore promise only that the gate itself never does so, and `RecordedBeforeForward`
  that the result row then names neither an answer nor a refusal.
* The lapse of an approval is judged before the transaction that spends it, which may wait
  for the database as long as its timeout: the comment on Consume, "never spent late", is
  true of the judgement. `SpentOnceAsApproved` and `ForwardedAsApproved` speak of that.
* A 403 or 404 that an admission webhook gives to dry-runs alone is taken at its word
  (`mutate.go:158`; the repository's README says so): the write is scored as changing
  nothing, the default policy lets it pass, and the webhook may let the real one through.
* A Pod relabelled by itself leaves its Service, and only the templates of workloads are
  compared (`mutate.go:187`): the write is measured, `REVERSIBLE`, and tells of nothing. These
  two are `Overlooked`, the exceptions of `MeasuredTellsAll` and `AllowedIsHarmless`.
* A rule with a long loop that the client interrupts by leaving holds, and the row says so;
  a replay runs the whole rule and may report the row as changed.
* The lapse check of a decision and its UPDATE are two statements, so a row may lapse in
  between and still be decided; its new deadline counts from the decision.
* A refused stream whose whoami fails is not tried again: the tab stays offline until it
  is reloaded, and `StreamEndsWithSession` counts it as stopped.
* No lock is held on the cluster: what changes between the engine's reads, or after them,
  is not in the impact. `MeasuredTellsAll` is about measurements nothing moved under; the
  recheck narrows the window for held writes.
* A write measured again for its approval that the policy would now allow keeps its
  `hold` (`gate.go:218`), with the new impact and labels in its row. Replaying the trail
  under the very policy it was written under then reports that row as changed, hold to
  allow. `TrailReplays` allows this case and the interrupted rule, and no other.

### Bounds

`MaxTime` stops the clock, and the lifetimes are 0 or 1 ticks of it. A lifetime of 0
means that a row is good until the next tick, so one tick is enough for everything to
be in time, to lapse between any two statements, or to be late. `spend_once` and
`gate_release` give an approval one tick and have three clock values so that a row approved
late outlives the deadline it was created with, which is the case the expiring writes
could get wrong (an approval's deadline counts from the time Approve read, not from its
write). Two calls
are enough for a pair of approvals, or an approval and a denial, to interleave; each call slot is used
again, so a run has any number of them one after another. Two retries hold copies of one approval
at once. `ApprovalIds` bounds the rows ever created. `Impatient` and
`MaxCrashes` bound departures and crashes. `Callers`, `Retriers` and `Requests` are
interchangeable where `SYMMETRY` is declared. Accounts at one tick of `Reauth` = 0
cover both fresh and stale sign-ins.

In `SignIn`, two session ids are a session and the one that replaces it. Two browsers at
two addresses are an owner and whoever has a copy of the cookie, and, for a limiter with
room for one address, an attempt and whoever else knocks. A budget of two in a window of two
ticks, over three clock values, is the least in which attempts straddle a window's edge:
one late in a window and two at the start of the next are three within one tick, one
short of two budgets. The run has 5.2 million states. A login begun at one tick may
still be on its way when the next begins. In `Stream`, `MaxWire` is the number of events a connection
takes before a write blocks, `Conns` the connections at one time: one more than the
slots, so that one may have ended with events still to read. Two rows with batches of
one and a catch-up of two let a poll end on its budget; pages of one row are shorter than
the table.

In `DataDir` three processes that make a CA are one that claims, one that waits for it
and one that comes after a removal; two builds let an older one find a newer schema.
Two attempts are one retry and the last. In `Serve` one slot is at its limit with one
review inside, so that the request's own dry-run and the direct write compete for it;
two clock values are a session in time and over. In `Measure` two replicas are the
least that can be scaled down without being scaled to zero; one move falls between any
two reads of either measurement. The webhook is there from the start beside one pod and a
budget for it, and appears or goes by a move beside any other; pods stray by a move or by the
request that relabels one. The run has 7.3 million states. `MaxInFlight`, `MaxStarts`, `MaxReplicas`, `MaxMoves`
and `MaxRemovals` are constants of any value (`MaxReplicas` of any but zero) in the proofs.

`CHECK_DEADLOCK FALSE` is set for the runs of systems that can stop: `stream_live` (the
session is over, every tab signed out, the table full), `data_dir` (every process has
started or failed), `serve` (the process is down and its request answered), `measure`
(the write is decided).

### Fairness

`FairSpec` assumes only `WF_vars(Progress(r))`: a request being decided keeps taking
steps. The code justifies it: every wait in Decide has an end of its own (the score and
snapshot budgets, the hold timer, `auditTimeout`, SQLite's busy timeout). Nothing is
assumed of approvers, of clients, of the API server or of the clock.

`Stream`'s `FairSpec` assumes that a handler's goroutine runs and its ticker fires, that a
browser connects, reads what arrives, sees the end of a stream and gets an answer or a
failure from whoami, and that the retry timer fires. Connections may break at any time
and nothing is assumed of the store, of approvers or of clients that read nothing.

`DirFairSpec` assumes that a process that is not dead makes its next system call and that
the deadline of its CA loop passes. A lock is not forever: its holder commits or stops.

`Serve`'s `FairSpec` assumes that the select sees an error on `errc`, that shutdown's
timer fires, that serveCmd returns after it and that a process that has returned ends;
and that a review's handler is driven by the server's read timeout and by
`recordTimeout` (`ReviewEnds`). Nothing is assumed of agents, of the API server, of the
store, or of a request in the proxy: `HalfServerStops` holds with one that never ends.

## Proofs

`ApprovalsProofs` proves, for every set of ids, keys, impacts, accounts, names and
processes, every lifetime and every clock bound:

* `TypeCorrect`: `Spec => []TypeOK`;
* `MintedByTheRightPeopleHolds`: `Spec => []MintedByTheRightPeople`;
* `SpentOnceAsApprovedHolds`: `Spec => []SpentOnceAsApproved`.

The assumptions are those the modules name: `IdsAssumption` (ids are ordered),
`NamesAssumption`, `NullAssumption` and `TokenAssumption` (an empty column is not a
value), `ServiceAssumption` (the types of the parameters).

Neither safety property is inductive, because each rests on what a call or a retry
already knows about a row it read some steps ago. The invariant `IInv` adds:

* `RowSound`: a waiting or denied row has no token, an approved one has, a token was
  signed over the row as it stands, and a first approver is not the requester;
* `CallSound`: a call past the rules has an approver they accept (not the requester,
  an account where two are needed, another person than the first approver it read), and a
  lone approval is of a row that is no grant;
* `RetrySound`: a retry about to consume has a copy whose key, impact and deadline are
  still the row's, and the row is past deciding.

These survive the other processes' steps because a row's key and impact never change,
its deadline does not once it is decided, and a consumed row never changes (`RowKept`).
The second approval is the interesting step: the first approver the caller checked is
the one in the row because the UPDATE pins it. For the spend, a row that has released something is
consumed, and the WHERE clause wants an approved one.

The module goes on from `IInv` and proves, from the same assumptions:

* `LostOnlyForCauseHolds`: `Spec => LostOnlyForCause`;
* `HalvesAreLiveHolds`: `Spec => HalvesAreLive`;
* `OutboxTellsTheRowHolds`: `Spec => []OutboxTellsTheRow`;
* `ImplementsContractHolds`: `Spec => ImplementsContract`.

All four rest on one lemma, `StepWrites`: whatever step is taken, at most one row
changes, and it is asked for, half approved, approved, denied or otherwise ended, each
with the event the outbox gets for it. The invariant `CInv` adds to `IInv` what the
writer knows when it writes: only a grant has a first approver, and a row has one
exactly while it waits for the second (`RowFits`); a retry about to expire or supersede
a row holds a copy that had lapsed, or another impact, and the row can only have moved
*onward* from the copy (`CopyFits`), which is why the WHERE clause on the old status
is enough. The refinement is one lemma per step of the contract (`AskImplements`,
`HalfImplements`, `YesImplements`, `GrantImplements`, `CloseImplements`), each for one
row, with everything else a stutter. A first approval put in the place of one whose account
was revoked is the contract's `ReplaceYes`, and adds nothing to what is needed.

`GateProofs` proves, for every set of requests and approvals, every policy, every rule
about snapshots and any number of departures and crashes:

* `GateTypeCorrect`: `Spec => []TypeOK`;
* `ForwardedAsApprovedHolds`: `Spec => []ForwardedAsApproved`;
* `RecordedBeforeForwardHolds`: `Spec => []RecordedBeforeForward`;
* `NoStraySnapshotHolds`: `Spec => []NoStraySnapshot`;
* `NoYesWastedHolds`: `Spec => []NoYesWasted`;
* `ApprovalsKeptUnlessUsedHolds`: `Spec => ApprovalsKeptUnlessUsed`.

The assumption is `GateAssumption`: the constants have their types, and no row is the
value that stands for no row. The invariant `GInv` says of a request what it has
established where it stands. `Carries`: past Verify a held request has an approval of its
own key and of the impact it measured last, the second measurement included.
`ForCause`: about to expire or supersede, it holds a copy that says why. `Written`,
`Bundled` and `OnRecord`: which audit rows and which directory it has at each place, so
that a failure at any of forward's statements leaves what the property wants.
`SpendFits` and `SpentApart`: a spend is the last thing before the forward, its row is
consumed for good, and no two spends share a row or a request. `Told` says what is known of
the write at the end: one whose outcome names an answer was sent, and one the proxy was never
handed was not, which is what makes an audit row's outcome worth believing
(`AllTold`). The two properties about waste have the
outcomes nobody can tell of in their statements (`InDoubt`); that a refusal of the gate is never
among them is their content. What a decider may do to a
row meanwhile is `ServiceProofs`', as it is for `Approvals`.

`SignInProofs` proves, for every set of approvers, session ids, tabs, browsers and hosts
and every lifetime and budget:

* `SignInTypeCorrect`: `Spec => []TypeOK`;
* `NoEntryAfterEndHolds`: `Spec => []NoEntryAfterEnd`;
* `LoginsAreLimited`: `Spec => []LimitHolds`.

Its assumptions are `PlacesAssumption`, `TimesAssumption` and `NullAssumption`. `NoEntryAfterEnd`
looks only at the step after Require let a call in, whoever's jar its cookie came from; the
invariant adds what makes that step safe. A session that no call may get in with stays so (`Shut`: revoked, past its deadline or of
a revoked approver), a session in `ended` is shut because its sign-out or the sign-in that
replaced it revoked the row before it answered, every cookie in a jar or a call names a row, a row never changes
owner or deadline, and a call that has read its row but not judged it holds a copy in which
whatever was over when the call was sent already shows: as revoked, as expired, or as
an approver revoked. The last is why `live` must look at the approver and not rely on the sweep.

`LimitHolds` is about the attempts of an address that were let through, of which the
limiter keeps only the last window. The invariant `LimitInv` says that there are
*openings* among them, the attempts that found no window open: they lie a window apart,
each covers at most a budget (`Openings`), and the window the limiter keeps, if any, is that of the
last (`Kept`). Two budgets of attempts then take two openings at least, or begin
with one and reach the next but one, and either way a window has passed. That other
hosts' windows are pruned by the same call, or that a full table turns the address away,
takes no opening back.

`DataDirProofs` proves, for every set of processes, of any builds and host lists, and any
number of removals:

* `DirTypeCorrect`: `DirSpec => []DirTypeOK`;
* `MigratedOnceHolds`: `DirSpec => []MigratedOnce`;
* `OneAuthorityHolds`: `DirSpec => []OneAuthority`.

The assumption is `DataDirAssumption`. The invariant is `DirInv`. `SchemaSound` adds that
a process in the transaction holds the lock and has read the length of the table as it
is, which is what an immediate transaction gives and a deferred one does not.
`CASound` adds that whoever holds a CA holds the one in `ca.crt`, that `ca.crt` is never
replaced, and that a pair a server is given was made under its CA for at least its
hosts, whatever the files say now.

`ServeProofs` proves, for every set of requests, writes, sessions and listeners and any
number of slots:

* `SlotsAreReviewsHolds`: `Spec => []SlotsAreReviews`;
* `ForwardedAsTheHumanHolds`: `Spec => []ForwardedAsTheHuman`;
* `CompletedOnceHolds`: `Spec => []CompletedOnce`;
* `BypassIsToldHolds`: `Spec => []BypassIsTold`;
* `ServeTypeCorrect`: `Spec => []ServeTypeOK`.

The assumptions are `WebhookAssumption`, `ServeAssumption` (a request's dry-run and write
are its own) and `NobodyAssumption`. The first follows from a step-by-step count
(`Enters`, `Leaves`, `Stays`). The next two share `HandlerInv`: what a handler has
established where it stands (`Checked`: a session that was over when the request was
sent shows it in the table, then in the copy; past the checks it was not over and brought
no identity), what it has counted (`Counted`), and whom each of its writes is from
(`Marked`). A session that is over stays over, whatever is revoked or ticks by
(`SessionSteps`), which is why a copy judged late is still judged right. `BypassIsTold`
needs `TellInv`: a write that came through the proxy names its session in its review and
one made directly names none, whatever that session is worth by then, and a plain
direct write is answered only after the row or the log line. The types come last, of the process (`ProcessTypes`) and
from the other invariants.

`MeasureProofs` proves, for any policy documents, clusters, requests and moves, and
whatever rules answer:

* `NeverAllowedUnmeasuredHolds`: `Spec => []NeverAllowedUnmeasured`;
* `TrailReplaysHolds`: `Spec => []TrailReplays`;
* `MeasureTypeCorrect`: `Spec => []MeasureTypeOK`;
* `MeasuredTellsAllHolds`: `Spec => []MeasuredTellsAll`;
* `AllowedIsHarmlessHolds`: `Spec => []AllowedIsHarmless`.

The assumption is `MeasureAssumption`. Besides types it says two things of the requests
there are: an eviction is of pods, the only resource with that subresource, and one replica is
within `MaxReplicas`, because the API server gives one to a workload whose `replicas` are
left out. `EvaluateDecides` says what Evaluate returns for a
policy that loads, `InterruptedHolds` that a rule cut short by its client holds, or comes
after the rule that had decided, `AllowedWasMeasured` that an allow is of a measured impact;
`LabelsSurvive` that null labels come back as unknown. `ReplayInv` ties the verdict the
gate holds between its two measurements to the impact and labels it was made from, and
every row to the verdict it was written of.

`MeasuredTellsAll` holds the impact against `Harms`, which is computed from the
cluster and the write alone. The invariant `EngineInv` says what each stage of a
measurement has found out if nothing has moved since it began (`FoundOut`): the object
before is the live one, the one after is what the API server would store, after the
scale-down the impact tells of lost replicas (`TellsOfReplicas`), and from the budget
on of everything; but a measurement cut short (stage `late`) has found out nothing
(`CutShortStep`), and the check of the deadline turns it into one that claims nothing. There is one lemma per read (`ClassifyStep` ... `ReadLabelsStep`), of which
`ScaleDownStep` and `RelabelStep` are the long ones: a missing `replicas`, a custom resource and
a worse second look at the same Service are their cases. A measurement that failed
claims nothing (`UnmeasuredTells`). `AllowedIsHarmless` follows from it, from
`DefaultAllows` (what `default.yaml` lets pass, rule by rule) and from the verdict being
of the impact and labels the engine returned.

`StreamProofs` proves, for every set of tabs and of queue contents, any number of
connections, rows and slots and any sizes of pages, batches and catch-ups:

* `StreamTypeCorrect`: `Spec => []TypeOK`;
* `SlotsAreHandlersHolds`: `Spec => []SlotsAreHandlers`;
* `BadgeIsWhatWasToldHolds`: `Spec => []BadgeIsWhatWasTold`;
* `FeedMissesNothingHolds`: `Spec => []FeedMissesNothing`.

The assumptions are `BoundsAssumption`, which has the connections finitely many because
slots are a count of handlers, and `NullAssumption` (the value that stands for nothing is
no id, queue, connection or set of rows). The invariant `StreamInv` has a part for each
tab and one for each connection:

* `TabTied` and `ConnTied`: a tab and its handler know of each other, so a step of one
  handler is the business of one tab; a handler whose browser left has nothing on its
  connection. `SourceFits`: a source has an id to resume from exactly when it has had its
  first hello, and none newer than the table;
* `WireFits`: what is on a connection is in the order of the ids, hello first, none past
  the handler's cursor and every row past the browser's last event id. This is what makes a
  reconnect safe: the rows past that id include all that were lost with the connection.
  Were hello sent without an id, a tab that broke off before its first row would have none
  to resume from, and the clause would not hold;
* `BadgeFits`: once a handler has told the queue, the last approvals event on the
  connection is what it told, or there is none and the badge has heard it. That the badge
  remembers having heard one is what a fetch that lands late is checked against;
* `FeedFits`: a feed that is shown misses no row past its page's newest; one that is loading
  has everything since its page was read in its buffer or still to come, so that the page
  with the buffer misses nothing when it lands; a new source that has
  started, but has not heard so yet, has every row to come that it did not skip.

The steps are proved by kind. Each statement of a poll, and each end of a handler, is
one step `Moves` (`PollMoves`): the cursor goes from one row to another and each row in
between is written, in order. `MovesKeeps` shows that such a step keeps the invariant,
`DetachKeeps` that every way to lose a connection does, `HearKeeps` that a row read off a
connection is in the feed, shown, held or buffered.

Only model-checked:

* liveness, which is out of the prover's reach: `EveryRequestDecided`,
  `StreamEndsWithSession`, `EveryStartEnds`, `HalfServerStops`, `EveryReviewEnds`;
* the two violated properties, of which TLC gives the behaviours.

## Not modelled, and why

* Configuration is environment variables read and validated once, before anything else
  starts; the upstream transport is a client library's settings; the audit, export and
  listing commands and the admin API's listings are one query and formatting.
* Of the engine: what a grant's text shows people (`rbac.go`), how a command is found to
  run SQL (`exec.go`), what sounding scores and the snapshot's own reads are a flag or a
  free choice. Request normalisation (path to action, digest) is string work; a request
  has a key in `Gate` and a kind in `Measure`.
* CEL, SQLite, the TLS library, Kubernetes and the browser are external and modelled by
  how the code uses them. An operator who edits the database by hand is outside.
* Apart from the feed, the badge and sign-in, the web console renders the API's answers;
  how rows fold into one line per request and the decision panel's own guards are planned.

## Plan

1. *(done)* the approval store, service and retries, with the contract and the proofs;
   the gate.
2. *(done)* `SignIn`, with its proofs; `Stream`, with the feed and the badge.
3. *(done)* `DataDir`, `Webhook` and `Serve`, `Policy` and `Measure`, with their proofs.
4. *(done)* proofs of every safety and action property that a passing run checks, and of
   the refinement of `ReleaseContract`.
5. Modules still worth writing: `FeedModel` (how rows fold into requests,
   `ui/src/lib/feedModel.ts`); `SignIn` and `Stream` composed over two sign-ins of one
   tab; `Panel` (`DecisionPanel.tsx`, `Waiting.tsx`, `Details.tsx`: never a decision the
   approver did not see); `Normalize`.
