------------------------------- MODULE DataDir -------------------------------
(***************************************************************************)
(* The data directory shared by every blastgate process: the database's     *)
(* schema (internal/store/store.go) and the TLS files (internal/tlsutil).   *)
(* serve, session new, the other commands and webhook-config may open it     *)
(* together, before any of it exists, and each may die at any step.  A step  *)
(* is one system call on a shared file, or one end of the migration's        *)
(* transaction.                                                              *)
(*                                                                           *)
(* A process stands for what it makes: the CA it generates, the serving key  *)
(* it generates.  Temporary files are private until they are linked or       *)
(* renamed and are left out.  The CA's own ten years are taken not to end.   *)
(***************************************************************************)
EXTENDS Integers, Sequences

CONSTANTS
  Procs,             \* runs of the program, each started at most once
  Kind,              \* serve and session new open all of it; webhook-config
                     \* reads the CA (the other commands open the database)
  Build,             \* the number of migrations its build knows
  Hosts,             \* its BLASTGATE_TLS_HOSTS
  MigrateAttempts,   \* migrateAttempts
  MaxRemovals,       \* bound on RemoveKey
  None

Certs == [key : Procs, ca : Procs]   \* a serving certificate: whose key, whose signature

ASSUME DataDirAssumption ==
  /\ Kind \in [Procs -> {"serve", "readca"}]
  /\ Build \in [Procs -> Nat]
  /\ MigrateAttempts \in Nat \ {0}
  /\ MaxRemovals \in Nat
  /\ None \notin Procs \cup Certs

VARIABLES
  schema,    \* the rows of schema_version: the migrations applied, in order
  lock,      \* who holds the database's write lock
  caKey,     \* ca.key
  caCrt,     \* ca.crt
  srvKey,    \* server.key
  srvCrt,    \* server.crt
  due,       \* serving certificates within renewBefore of their end
  told,      \* somebody was told to remove ca.key
  removals,
  proc

dirVars == <<schema, lock, caKey, caCrt, srvKey, srvCrt, due, told, removals, proc>>

Names == Procs \cup {None}
NoPair == [crt |-> None, key |-> None]

Ended == {"ready", "failed"}
Pcs == Ended \cup {"open", "tx", "caCrt", "stat", "caKey", "claim", "publish",
                   "srvCrt", "srvKey", "writeKey", "writeCrt"}

Running == [
  pc    : Pcs,
  tries : 0 .. MigrateAttempts - 1,
  v     : Nat,                                \* the version read in the transaction
  late  : BOOLEAN,                            \* past loadOrCreateCA's deadline
  crt   : Names,                              \* readCA's certPEM
  ca    : Names,                              \* the CA returned
  pair  : [crt : Certs \cup {None}, key : Names]]  \* the pair read, then returned

DirTypeOK ==
  /\ schema \in Seq(Nat)
  /\ lock \in Names
  /\ caKey \in Names /\ caCrt \in Names
  /\ srvKey \in Names /\ srvCrt \in Certs \cup {None}
  /\ due \subseteq Procs
  /\ told \in BOOLEAN
  /\ removals \in 0 .. MaxRemovals
  /\ proc \in [Procs -> Running]

\* A process with nothing in its hands.
Starts(pc) == [pc |-> pc, tries |-> 0, v |-> 0, late |-> FALSE, crt |-> None, ca |-> None, pair |-> NoPair]

\* loadOrCreateCA returns: the CA is all that is kept of it.
Returns(p, ca) == [Starts(IF Kind[p] = "readca" THEN "ready" ELSE "srvCrt") EXCEPT !.ca = ca]

DirInit ==
  /\ schema = <<>> /\ lock = None
  /\ caKey = None /\ caCrt = None /\ srvKey = None /\ srvCrt = None
  /\ due = {} /\ told = FALSE /\ removals = 0
  /\ proc = [p \in Procs |-> Starts(IF Kind[p] = "readca" THEN "caCrt" ELSE "open")]

At(p, pc) == proc[p].pc = pc
Become(p, new) == proc' = [proc EXCEPT ![p] = new]
Goto(p, pc) == Become(p, [proc[p] EXCEPT !.pc = pc])
Fail(p) == Become(p, Starts("failed"))

-----------------------------------------------------------------------------
(* Open and migrate *)

\* COALESCE(MAX(version), 0)
Version(rows) == CHOOSE v \in {0} \cup {rows[i] : i \in 1 .. Len(rows)} :
                   \A i \in 1 .. Len(rows) : rows[i] <= v

\* The transaction is immediate: BEGIN takes the write lock, and the
\* version is read under it.
BeginDeferred(p) ==                                                   \* mutant
  /\ At(p, "open")
  /\ lock' = p
  /\ Become(p, [proc[p] EXCEPT !.pc = "tx", !.v = Version(schema)])
  /\ UNCHANGED <<schema, caKey, caCrt, srvKey, srvCrt, due, told, removals>>

Begin(p) ==
  /\ At(p, "open") /\ lock = None
  /\ lock' = p
  /\ Become(p, [proc[p] EXCEPT !.pc = "tx", !.v = Version(schema)])
  /\ UNCHANGED <<schema, caKey, caCrt, srvKey, srvCrt, due, told, removals>>

BusyOffByOne(p) ==                                                    \* mutant
  /\ At(p, "open")
  /\ \E q \in Procs \ {p} : proc[q].pc \in {"open", "tx"}
  /\ LET n == proc[p].tries + 1
     IN IF n > MigrateAttempts THEN Fail(p) ELSE Become(p, [proc[p] EXCEPT !.tries = n])
  /\ UNCHANGED <<schema, lock, caKey, caCrt, srvKey, srvCrt, due, told, removals>>

\* BEGIN found the database busy past busy_timeout, or a new file being
\* switched to WAL by somebody else: migrate tries again, a bounded number
\* of times.
Busy(p) ==
  /\ At(p, "open")
  /\ \E q \in Procs \ {p} : proc[q].pc \in {"open", "tx"}
  /\ LET n == proc[p].tries + 1
     IN IF n = MigrateAttempts THEN Fail(p) ELSE Become(p, [proc[p] EXCEPT !.tries = n])
  /\ UNCHANGED <<schema, lock, caKey, caCrt, srvKey, srvCrt, due, told, removals>>

\* The migrations after the version read; none for a build older than the
\* database.
Pending(v, n) == [i \in 1 .. (n - v) |-> v + i]

Commit(p) ==
  /\ At(p, "tx")
  /\ schema' = schema \o Pending(proc[p].v, Build[p])
  /\ lock' = None
  /\ Become(p, Starts("caCrt"))
  /\ UNCHANGED <<caKey, caCrt, srvKey, srvCrt, due, told, removals>>

-----------------------------------------------------------------------------
(* LoadOrCreate and LoadCA: the certificate authority *)

\* readCA reads the certificate, then reads or stats the key.
ReadCrt(p) ==
  /\ At(p, "caCrt")
  /\ Become(p, [proc[p] EXCEPT !.crt = caCrt, !.pc = IF caCrt = None THEN "stat" ELSE "caKey"])
  /\ UNCHANGED <<schema, lock, caKey, caCrt, srvKey, srvCrt, due, told, removals>>

StatKeyForever(p) ==                                                  \* mutant
  /\ At(p, "stat")
  /\ IF Kind[p] = "readca" THEN Fail(p) ELSE Goto(p, IF caKey = None THEN "claim" ELSE "caCrt")
  /\ UNCHANGED <<schema, lock, caKey, caCrt, srvKey, srvCrt, due, told, removals>>

\* No certificate: errNoCA, or errCAInProgress, on which LoadOrCreate sleeps
\* and reads again until its deadline, and then says to remove the key.
StatKey(p) ==
  LET gaveUp == Kind[p] # "readca" /\ caKey # None /\ proc[p].late
  IN /\ At(p, "stat")
     /\ IF Kind[p] = "readca" \/ gaveUp THEN Fail(p)
                                         ELSE Goto(p, IF caKey = None THEN "claim" ELSE "caCrt")
     /\ told' = (told \/ gaveUp)
     /\ UNCHANGED <<schema, lock, caKey, caCrt, srvKey, srvCrt, due, removals>>

\* parse refuses a key that is not the certificate's; a missing key is an
\* error too, never "no CA".
ReadKey(p) ==
  /\ At(p, "caKey")
  /\ IF caKey = proc[p].crt THEN Become(p, Returns(p, proc[p].crt)) ELSE Fail(p)
  /\ UNCHANGED <<schema, lock, caKey, caCrt, srvKey, srvCrt, due, told, removals>>

\* createCA links its key into place: the claim.  It fails if ca.key exists,
\* and the loop reads the other process's CA.
Claim(p) ==
  /\ At(p, "claim")
  /\ \/ caKey = None /\ caKey' = p /\ Goto(p, "publish")
     \/ caKey # None /\ caKey' = caKey /\ Goto(p, "caCrt")
  /\ UNCHANGED <<schema, lock, caCrt, srvKey, srvCrt, due, told, removals>>

PublishOver(p) ==                                                     \* mutant
  /\ At(p, "publish")
  /\ caCrt' = p /\ Become(p, Returns(p, p))
  /\ UNCHANGED <<schema, lock, caKey, srvKey, srvCrt, due, told, removals>>

\* The publish: ca.crt is linked, never replaced.
Publish(p) ==
  /\ At(p, "publish")
  /\ \/ caCrt = None /\ caCrt' = p /\ Become(p, Returns(p, p))
     \/ caCrt # None /\ caCrt' = caCrt /\ Fail(p)
  /\ UNCHANGED <<schema, lock, caKey, srvKey, srvCrt, due, told, removals>>

-----------------------------------------------------------------------------
(* LoadOrCreate: the serving pair *)

ReadSrvCrt(p) ==
  /\ At(p, "srvCrt")
  /\ Become(p, [proc[p] EXCEPT !.pair.crt = srvCrt,
                               !.pc = IF srvCrt = None THEN "writeKey" ELSE "srvKey"])
  /\ UNCHANGED <<schema, lock, caKey, caCrt, srvKey, srvCrt, due, told, removals>>

\* usable: it verifies under this CA for every host, and is not due.
Usable(p, crt) == crt.ca = proc[p].ca /\ Hosts[p] \subseteq Hosts[crt.key] /\ crt.key \notin due

\* Another process's key beside the certificate makes no pair: reissued.
ReadSrvKey(p) ==
  /\ At(p, "srvKey")
  /\ LET good == Usable(p, proc[p].pair.crt) /\ srvKey = proc[p].pair.crt.key
     IN Become(p, [proc[p] EXCEPT !.pair = IF good THEN [crt |-> @.crt, key |-> srvKey] ELSE NoPair,
                                  !.pc = IF good THEN "ready" ELSE "writeKey"])
  /\ UNCHANGED <<schema, lock, caKey, caCrt, srvKey, srvCrt, due, told, removals>>

\* issue, then write: the key, then the certificate, each renamed into place.
WriteKey(p) ==
  /\ At(p, "writeKey")
  /\ srvKey' = p
  /\ Goto(p, "writeCrt")
  /\ UNCHANGED <<schema, lock, caKey, caCrt, srvCrt, due, told, removals>>

WriteCrt(p) ==
  /\ At(p, "writeCrt")
  /\ srvCrt' = [key |-> p, ca |-> proc[p].ca]
  /\ Become(p, [proc[p] EXCEPT !.pair = [crt |-> srvCrt', key |-> p], !.pc = "ready"])
  /\ UNCHANGED <<schema, lock, caKey, caCrt, srvKey, due, told, removals>>

-----------------------------------------------------------------------------
(* What happens around them *)

\* The process dies, or a system call of it fails; the transaction, if any,
\* is rolled back.  What was linked or renamed stays.
Stop(p) ==
  /\ proc[p].pc \notin Ended
  /\ lock' = IF lock = p THEN None ELSE lock
  /\ Fail(p)
  /\ UNCHANGED <<schema, caKey, caCrt, srvKey, srvCrt, due, told, removals>>

\* caWait passes while a process is in loadOrCreateCA's loop.
Deadline(p) ==
  /\ Kind[p] # "readca" /\ proc[p].pc \in {"caCrt", "stat", "caKey", "claim"} /\ ~proc[p].late
  /\ Become(p, [proc[p] EXCEPT !.late = TRUE])
  /\ UNCHANGED <<schema, lock, caKey, caCrt, srvKey, srvCrt, due, told, removals>>

\* The serving certificate on disk comes due for renewal.
Age ==
  /\ srvCrt # None /\ srvCrt.key \notin due
  /\ due' = due \cup {srvCrt.key}
  /\ UNCHANGED <<schema, lock, caKey, caCrt, srvKey, srvCrt, told, removals, proc>>

\* The operator does what the message says, now or much later.
RemoveKey ==
  /\ told /\ caKey # None /\ removals < MaxRemovals
  /\ caKey' = None /\ removals' = removals + 1
  /\ UNCHANGED <<schema, lock, caCrt, srvKey, srvCrt, due, told, proc>>

Step(p) ==
  \/ Begin(p) \/ Busy(p) \/ Commit(p)
  \/ ReadCrt(p) \/ StatKey(p) \/ ReadKey(p) \/ Claim(p) \/ Publish(p)
  \/ ReadSrvCrt(p) \/ ReadSrvKey(p) \/ WriteKey(p) \/ WriteCrt(p)

DirNext ==
  \/ \E p \in Procs : Step(p) \/ Stop(p) \/ Deadline(p)
  \/ Age \/ RemoveKey

DirSpec == DirInit /\ [][DirNext]_dirVars
DirFairSpec == DirSpec /\ \A p \in Procs : WF_dirVars(Step(p)) /\ WF_dirVars(Deadline(p))

-----------------------------------------------------------------------------
(* Properties *)

Ready(p) == At(p, "ready")

\* Every migration is applied once and in order, whichever builds open the
\* database together, and a process that got past Open has a schema at least
\* as new as its build (migrateOnce: "a version read before the lock let both
\* apply migration 1").
MigratedOnce ==
  /\ \A i \in 1 .. Len(schema) : schema[i] = i
  /\ \A p \in Procs : (Ready(p) /\ Kind[p] # "readca") => Build[p] <= Len(schema)

\* One authority is ever handed out, to a kubeconfig, a caBundle or a server:
\* every serving pair a server has is a pair, covers its hosts and verifies
\* under every CA certificate any process has been given, whatever processes
\* died in the middle and whatever keys the operator was told to remove.
\* (LoadOrCreate, readCA: "creating a new CA over it would silently break
\* every kubeconfig that embeds the old one".)
OneAuthority ==
  \A p, q \in Procs :
    Ready(p) /\ Ready(q) /\ Kind[p] = "serve" =>
      /\ proc[p].ca = proc[q].ca
      /\ proc[p].pair.crt # None
      /\ proc[p].pair.crt.ca = proc[q].ca
      /\ proc[p].pair.key = proc[p].pair.crt.key
      /\ Hosts[p] \subseteq Hosts[proc[p].pair.key]

\* Every start ends, served or refused, whoever died holding the lock or the
\* claim on the CA (migrateAttempts, caWait).
EveryStartEnds == \A p \in Procs : proc[p].pc \notin Ended ~> proc[p].pc \in Ended
=============================================================================
