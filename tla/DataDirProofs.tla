----------------------------- MODULE DataDirProofs -----------------------------
(***************************************************************************)
(* Theorems about DataDir, for any set of processes, builds and host lists. *)
(***************************************************************************)
EXTENDS DataDir, SequenceTheorems, TLAPS

USE DataDirAssumption

\* The version under the lock, and what a process past Open can rely on.
SchemaSound ==
  /\ \A i \in 1 .. Len(schema) : schema[i] = i
  /\ \A p \in Procs : At(p, "tx") => lock = p /\ proc[p].v = Len(schema)
  /\ \A p \in Procs : (Kind[p] # "readca" /\ proc[p].pc \notin {"open", "tx", "failed"})
                        => Build[p] <= Len(schema)

Holding == {"srvCrt", "srvKey", "writeKey", "writeCrt", "ready"}

\* Whoever has a CA has the published one; whoever has returned has a pair.
CASound ==
  /\ \A p \in Procs : proc[p].pc \in Holding => proc[p].ca = caCrt /\ caCrt # None
  /\ \A p \in Procs : At(p, "caKey") => proc[p].crt = caCrt /\ caCrt # None
  /\ \A p \in Procs : At(p, "srvKey") => proc[p].pair.crt # None
  /\ \A p \in Procs : (Ready(p) /\ Kind[p] = "serve") =>
       /\ proc[p].pair.crt # None
       /\ proc[p].pair.crt.ca = proc[p].ca
       /\ proc[p].pair.key = proc[p].pair.crt.key
       /\ Hosts[p] \subseteq Hosts[proc[p].pair.key]

-----------------------------------------------------------------------------
(* Type correctness *)

\* A process starts with every field of a running one.
LEMMA StartsType == \A pc \in Pcs : Starts(pc) \in Running
  BY DEF Starts, Running, NoPair, Names, Certs

\* A process that is given a CA goes on with every field.
LEMMA ReturnsType == \A p \in Procs : \A ca \in Names : Returns(p, ca) \in Running
<1> SUFFICES ASSUME NEW p \in Procs, NEW ca \in Names PROVE Returns(p, ca) \in Running
  OBVIOUS
<1> DEFINE x == IF Kind[p] = "readca" THEN "ready" ELSE "srvCrt"
<1>1. x \in Pcs BY DEF Pcs, Ended
<1>2. Starts(x) \in Running BY <1>1, StartsType
<1>3. Returns(p, ca) = [Starts(x) EXCEPT !.ca = ca] BY DEF Returns
<1> HIDE DEF x
<1> QED BY <1>2, <1>3 DEF Running

\* The largest number of a table without gaps is its length.
LEMMA VersionType ==
  ASSUME NEW rows \in Seq(Nat), \A i \in 1 .. Len(rows) : rows[i] = i
  PROVE  Version(rows) = Len(rows)
<1> DEFINE S == {0} \cup {rows[i] : i \in 1 .. Len(rows)}
<1>1. Len(rows) \in Nat OBVIOUS
<1>2. Len(rows) \in S
  <2>1. CASE Len(rows) = 0 BY <2>1
  <2>2. CASE Len(rows) # 0
    <3>1. Len(rows) \in 1 .. Len(rows) BY <1>1, <2>2
    <3>2. rows[Len(rows)] = Len(rows) BY <3>1
    <3> QED BY <3>1, <3>2
  <2> QED BY <2>1, <2>2
<1>3. \A i \in 1 .. Len(rows) : rows[i] <= Len(rows) BY <1>1
<1>4. ASSUME NEW v \in S, \A i \in 1 .. Len(rows) : rows[i] <= v
      PROVE  v = Len(rows)
  <2>1. v = 0 \/ \E i \in 1 .. Len(rows) : v = i BY <1>4
  <2>2. v <= Len(rows) /\ v \in Nat BY <1>1, <2>1
  <2>3. Len(rows) <= v
    <3>1. CASE Len(rows) = 0 BY <3>1, <2>2
    <3>2. CASE Len(rows) # 0
      <4>1. Len(rows) \in 1 .. Len(rows) BY <1>1, <3>2
      <4> QED BY <4>1, <1>4
    <3> QED BY <3>1, <3>2
  <2> QED BY <1>1, <2>2, <2>3
<1> QED BY <1>2, <1>3, <1>4 DEF Version

\* What the steps assign to a process keeps it one.
LEMMA FieldTypes ==
  ASSUME NEW r \in Running, NEW pc \in Pcs
  PROVE  /\ [r EXCEPT !.pc = pc] \in Running
         /\ [r EXCEPT !.late = TRUE] \in Running
         /\ \A n \in 0 .. MigrateAttempts - 1 : [r EXCEPT !.tries = n] \in Running
         /\ \A v \in Nat : [r EXCEPT !.pc = pc, !.v = v] \in Running
         /\ \A c \in Names : [r EXCEPT !.crt = c, !.pc = pc] \in Running
         /\ \A c \in Certs \cup {None} : [r EXCEPT !.pair.crt = c, !.pc = pc] \in Running
         /\ \A q \in [crt : Certs \cup {None}, key : Names] : [r EXCEPT !.pair = q, !.pc = pc] \in Running
<1> DEFINE P == [crt : Certs \cup {None}, key : Names]
<1>0. Running = [pc : Pcs, tries : 0 .. MigrateAttempts - 1, v : Nat, late : BOOLEAN, crt : Names, ca : Names, pair : P]
  BY DEF Running
<1> HIDE DEF P
<1>1. [r EXCEPT !.pc = pc] \in Running BY <1>0
<1>2. [r EXCEPT !.late = TRUE] \in Running BY <1>0
<1>3. \A n \in 0 .. MigrateAttempts - 1 : [r EXCEPT !.tries = n] \in Running BY <1>0
<1>4. \A v \in Nat : [r EXCEPT !.pc = pc, !.v = v] \in Running BY <1>0
<1>5. \A c \in Names : [r EXCEPT !.crt = c, !.pc = pc] \in Running BY <1>0
<1>6. ASSUME NEW q \in P PROVE [r EXCEPT !.pair = q, !.pc = pc] \in Running BY <1>0
<1>7. ASSUME NEW c \in Certs \cup {None} PROVE [r EXCEPT !.pair.crt = c, !.pc = pc] \in Running
  <2>1. [r.pair EXCEPT !.crt = c] \in P BY <1>0 DEF P
  <2>2. [r EXCEPT !.pair.crt = c, !.pc = pc] = [r EXCEPT !.pair = [r.pair EXCEPT !.crt = c], !.pc = pc] BY <1>0
  <2> QED BY <2>1, <2>2, <1>6
<1> QED BY <1>1, <1>2, <1>3, <1>4, <1>5, <1>6, <1>7 DEF P

\* What Become does, field by field of the two functions.
LEMMA BecomeType ==
  ASSUME NEW p \in Procs, proc \in [Procs -> Running], NEW new \in Running, Become(p, new)
  PROVE  proc' \in [Procs -> Running]
BY DEF Become

\* Every step keeps the types.
LEMMA DirTypeStep ==
  ASSUME DirTypeOK, SchemaSound, CASound, [DirNext]_dirVars
  PROVE  DirTypeOK'
<1> USE DEF DirTypeOK
<1>v. Version(schema) \in Nat BY VersionType DEF SchemaSound
<1>f. ASSUME NEW p \in Procs, Fail(p) PROVE proc' \in [Procs -> Running]
  BY <1>f, StartsType, BecomeType DEF Fail, Pcs, Ended
<1>g. ASSUME NEW p \in Procs, NEW pc \in Pcs, Goto(p, pc) PROVE proc' \in [Procs -> Running]
  BY <1>g, ZenonT(60) DEF Goto, Become, Running
<1>r. ASSUME NEW p \in Procs, NEW ca \in Names, Become(p, Returns(p, ca)) PROVE proc' \in [Procs -> Running]
  BY <1>r, ReturnsType, BecomeType
<1>1. ASSUME NEW p \in Procs, Step(p) PROVE DirTypeOK'
  <2>a. proc[p] \in Running OBVIOUS
  <2>1. CASE Begin(p)
    <3>1. [proc[p] EXCEPT !.pc = "tx", !.v = Version(schema)] \in Running BY <1>v, <2>a, FieldTypes DEF Pcs
    <3> QED BY <3>1, <2>1, BecomeType DEF Begin, Names
  <2>2. CASE Busy(p)
    <3>1. CASE Fail(p) BY <3>1, <2>2, <1>f DEF Busy
    <3>2. CASE proc[p].tries + 1 # MigrateAttempts
      <4>0. proc[p].tries \in 0 .. MigrateAttempts - 1 BY <2>a DEF Running
      <4>1. proc[p].tries + 1 \in 0 .. MigrateAttempts - 1 BY <3>2, <4>0
      <4>2. [proc[p] EXCEPT !.tries = proc[p].tries + 1] \in Running BY <4>1, <2>a, FieldTypes DEF Pcs
      <4> QED BY <4>2, <3>2, <2>2, BecomeType DEF Busy
    <3>3. CASE proc[p].tries + 1 = MigrateAttempts
      <4>1. Fail(p) BY <3>3, <2>2 DEF Busy
      <4> QED BY <4>1, <3>1
    <3> QED BY <3>2, <3>3
  <2>3. CASE Commit(p)
    <3>1. proc' \in [Procs -> Running] BY <2>3, StartsType, BecomeType DEF Commit, Pcs
    <3>2. proc[p].v \in Nat /\ Build[p] \in Nat BY DEF Running
    <3> DEFINE n == IF Build[p] >= proc[p].v THEN Build[p] - proc[p].v ELSE 0
    <3>a. n \in Nat /\ 1 .. (Build[p] - proc[p].v) = 1 .. n BY <3>2
    <3>b. Pending(proc[p].v, Build[p]) = [i \in 1 .. n |-> proc[p].v + i] BY <3>a DEF Pending
    <3>c. \A i \in 1 .. n : proc[p].v + i \in Nat BY <3>2, <3>a
    <3>3. Pending(proc[p].v, Build[p]) \in Seq(Nat) BY <3>a, <3>b, <3>c
    <3>4. schema' \in Seq(Nat) BY <2>3, <3>3 DEF Commit
    <3> QED BY <2>3, <3>1, <3>4 DEF Commit, Names
  <2>4. CASE ReadCrt(p)
    <3>1. [proc[p] EXCEPT !.crt = caCrt, !.pc = IF caCrt = None THEN "stat" ELSE "caKey"] \in Running
      BY <2>a, FieldTypes DEF Pcs
    <3> QED BY <3>1, <2>4, BecomeType DEF ReadCrt
  <2>5. CASE StatKey(p)
    <3>1. Fail(p) \/ Goto(p, "claim") \/ Goto(p, "caCrt") BY <2>5 DEF StatKey
    <3>2. proc' \in [Procs -> Running] BY <3>1, <1>f, <1>g DEF Pcs
    <3>3. told' \in BOOLEAN BY <2>5 DEF StatKey
    <3> QED BY <3>2, <3>3, <2>5 DEF StatKey
  <2>6. CASE ReadKey(p)
    <3>1. proc[p].crt \in Names BY DEF Running
    <3> QED BY <2>6, <3>1, <1>f, <1>r DEF ReadKey
  <2>7. CASE Claim(p) BY <2>7, <1>g DEF Claim, Pcs, Names
  <2>8. CASE Publish(p) BY <2>8, <1>f, <1>r DEF Publish, Names
  <2>9. CASE ReadSrvCrt(p)
    <3>1. [proc[p] EXCEPT !.pair.crt = srvCrt, !.pc = IF srvCrt = None THEN "writeKey" ELSE "srvKey"] \in Running
      BY <2>a, FieldTypes DEF Pcs
    <3> QED BY <3>1, <2>9, BecomeType DEF ReadSrvCrt
  <2>10. CASE ReadSrvKey(p)
    <3> DEFINE g == Usable(p, proc[p].pair.crt) /\ srvKey = proc[p].pair.crt.key
    <3>1. [crt |-> proc[p].pair.crt, key |-> srvKey] \in [crt : Certs \cup {None}, key : Names]
      BY <2>a DEF Running
    <3>2. NoPair \in [crt : Certs \cup {None}, key : Names] BY DEF NoPair, Names
    <3>3. CASE g
      <4>1. [proc[p] EXCEPT !.pair = [crt |-> proc[p].pair.crt, key |-> srvKey], !.pc = "ready"] \in Running
        BY <3>1, <2>a, FieldTypes DEF Pcs, Ended
      <4>2. Become(p, [proc[p] EXCEPT !.pair = [crt |-> proc[p].pair.crt, key |-> srvKey], !.pc = "ready"])
        BY <3>3, <2>10, <2>a DEF ReadSrvKey, Running
      <4> QED BY <4>1, <4>2, <2>10, BecomeType DEF ReadSrvKey
    <3>4. CASE ~g
      <4>1. [proc[p] EXCEPT !.pair = NoPair, !.pc = "writeKey"] \in Running
        BY <3>2, <2>a, FieldTypes DEF Pcs
      <4>2. Become(p, [proc[p] EXCEPT !.pair = NoPair, !.pc = "writeKey"])
        BY <3>4, <2>10, <2>a DEF ReadSrvKey, Running
      <4> QED BY <4>1, <4>2, <2>10, BecomeType DEF ReadSrvKey
    <3> QED BY <3>3, <3>4
  <2>11. CASE WriteKey(p) BY <2>11, <1>g DEF WriteKey, Pcs, Names
  <2>12. CASE WriteCrt(p)
    <3>1. proc[p].ca \in Procs BY <2>12, <2>a DEF WriteCrt, CASound, Holding, Names, At
    <3>2. [key |-> p, ca |-> proc[p].ca] \in Certs BY <3>1 DEF Certs
    <3>3. [crt |-> srvCrt', key |-> p] \in [crt : Certs \cup {None}, key : Names]
      BY <3>2, <2>12 DEF WriteCrt, Names
    <3>4. [proc[p] EXCEPT !.pair = [crt |-> srvCrt', key |-> p], !.pc = "ready"] \in Running
      BY <3>3, <2>a, FieldTypes DEF Pcs, Ended
    <3> QED BY <3>2, <3>4, <2>12, BecomeType DEF WriteCrt
  <2> QED BY <1>1, <2>1, <2>2, <2>3, <2>4, <2>5, <2>6, <2>7, <2>8, <2>9, <2>10, <2>11, <2>12 DEF Step
<1>2. ASSUME NEW p \in Procs, Stop(p) PROVE DirTypeOK'
  BY <1>2, <1>f DEF Stop, Names
<1>3. ASSUME NEW p \in Procs, Deadline(p) PROVE DirTypeOK'
  <2>1. [proc[p] EXCEPT !.late = TRUE] \in Running BY FieldTypes DEF Pcs
  <2> QED BY <2>1, <1>3, BecomeType DEF Deadline
<1>4. CASE Age BY <1>4 DEF Age, Certs
<1>5. CASE RemoveKey BY <1>5 DEF RemoveKey, Names
<1>6. CASE UNCHANGED dirVars BY <1>6 DEF dirVars
<1> QED BY <1>1, <1>2, <1>3, <1>4, <1>5, <1>6 DEF DirNext

-----------------------------------------------------------------------------
(* The schema *)

\* A step changes the record of one process, and how.
LEMMA Others ==
  ASSUME NEW p \in Procs, NEW new, proc \in [Procs -> Running], Become(p, new)
  PROVE  proc'[p] = new /\ \A q \in Procs : q # p => proc'[q] = proc[q]
BY DEF Become

\* Every step keeps the schema sound.
LEMMA SchemaStep ==
  ASSUME DirTypeOK, SchemaSound, [DirNext]_dirVars
  PROVE  SchemaSound'
<1> DEFINE Past == {"open", "tx", "failed"}
<1>t. schema \in Seq(Nat) /\ proc \in [Procs -> Running] /\ Len(schema) \in Nat BY DEF DirTypeOK
\* A step that leaves the schema and the lock alone, and does not take a
\* process into or past the transaction.
<1>k. ASSUME NEW p \in Procs, NEW new, Become(p, new), UNCHANGED <<schema, lock>>,
             new.pc # "tx", new.pc \in Past \/ proc[p].pc \notin Past \/ Kind[p] = "readca"
      PROVE  SchemaSound'
  BY <1>k, <1>t, Others DEF SchemaSound, At
<1>f. ASSUME NEW p \in Procs, Fail(p), UNCHANGED <<schema, lock>> PROVE SchemaSound'
  BY <1>f, <1>k DEF Fail, Starts
<1>g. ASSUME NEW p \in Procs, NEW pc, Goto(p, pc), UNCHANGED <<schema, lock>>, pc # "tx", proc[p].pc \notin Past
      PROVE  SchemaSound'
  BY <1>g, <1>k, <1>t DEF Goto, Running
<1>r. ASSUME NEW p \in Procs, NEW ca, Become(p, Returns(p, ca)), UNCHANGED <<schema, lock>>, proc[p].pc \notin Past
      PROVE  SchemaSound'
  <2>1. Returns(p, ca).pc # "tx" BY DEF Returns, Starts
  <2> QED BY <2>1, <1>r, <1>k
<1>1. ASSUME NEW p \in Procs, Step(p) PROVE SchemaSound'
  <2>a. proc[p] \in Running BY <1>t
  <2>1. CASE Begin(p)
    <3> DEFINE new == [proc[p] EXCEPT !.pc = "tx", !.v = Version(schema)]
    <3>a. Become(p, new) BY <2>1 DEF Begin
    <3>b. new.pc = "tx" /\ new.v = Version(schema) BY <2>a DEF Running
    <3> HIDE DEF new
    <3>1. proc'[p].pc = "tx" /\ proc'[p].v = Version(schema) /\ \A q \in Procs : q # p => proc'[q] = proc[q]
      BY <3>a, <3>b, <1>t, Others
    <3>2. \A q \in Procs : proc[q].pc # "tx" BY <2>1 DEF Begin, SchemaSound, At
    <3>3. Version(schema) = Len(schema) BY <1>t, VersionType DEF SchemaSound
    <3> QED BY <2>1, <3>1, <3>2, <3>3 DEF Begin, SchemaSound, At
  <2>2. CASE Busy(p)
    <3>1. CASE Fail(p) BY <3>1, <2>2, <1>f DEF Busy
    <3>2. CASE Become(p, [proc[p] EXCEPT !.tries = proc[p].tries + 1])
      <4>1. [proc[p] EXCEPT !.tries = proc[p].tries + 1].pc = "open" BY <2>2, <2>a DEF Busy, At, Running
      <4> QED BY <4>1, <3>2, <2>2, <1>k DEF Busy
    <3> QED BY <2>2, <3>1, <3>2 DEF Busy
  <2>3. CASE Commit(p)
    <3> DEFINE v == proc[p].v
               add == Pending(v, Build[p])
               n == IF Build[p] >= v THEN Build[p] - v ELSE 0
    <3>1. lock = p /\ v = Len(schema) /\ Build[p] \in Nat /\ v \in Nat BY <2>3, <1>t DEF Commit, SchemaSound
    <3>2. n \in Nat /\ 1 .. (Build[p] - v) = 1 .. n /\ Build[p] <= v + n BY <3>1
    <3>3. add = [i \in 1 .. n |-> v + i] BY <3>2 DEF Pending
    <3>4. add \in Seq(Nat) /\ Len(add) = n /\ \A i \in 1 .. n : add[i] = v + i BY <3>1, <3>2, <3>3, SMTT(30)
    <3> HIDE DEF add, n
    <3>5. schema' = schema \o add BY <2>3 DEF Commit, add
    <3>6. Len(schema') = v + n BY <3>1, <3>4, <3>5, <1>t
    <3>7. \A i \in 1 .. Len(schema') : schema'[i] = i
      <4> SUFFICES ASSUME NEW i \in 1 .. (v + n) PROVE (schema \o add)[i] = i BY <3>5, <3>6
      <4>1. CASE i <= v BY <4>1, <3>1, <3>4, <1>t DEF SchemaSound
      <4>2. CASE i > v
        <5>1. i - v \in 1 .. n BY <4>2, <3>1, <3>2
        <5>2. (schema \o add)[i] = add[i - v] BY <4>2, <5>1, <3>1, <3>4, <1>t
        <5> QED BY <5>1, <5>2, <3>1, <3>4
      <4>3. v \in Nat /\ i \in Nat BY <3>1, <3>2
      <4>4. i <= v \/ i > v BY <4>3
      <4> QED BY <4>1, <4>2, <4>4
    <3>8. \A q \in Procs : proc'[q].pc # "tx"
      <4>1. proc'[p].pc = "caCrt" BY <2>3, <1>t, Others DEF Commit, Starts
      <4>2. \A q \in Procs : q # p => proc'[q] = proc[q] BY <2>3, <1>t, Others DEF Commit
      <4>3. \A q \in Procs : q # p => proc[q].pc # "tx" BY <3>1 DEF SchemaSound, At
      <4> QED BY <4>1, <4>2, <4>3
    <3>9. \A q \in Procs : (Kind[q] # "readca" /\ proc'[q].pc \notin Past) => Build[q] <= Len(schema')
      <4>1. \A q \in Procs : q # p => proc'[q] = proc[q] BY <2>3, <1>t, Others DEF Commit
      <4>2. \A q \in Procs : Build[q] \in Nat OBVIOUS
      <4>3. Build[p] <= Len(schema') BY <3>2, <3>6
      <4>4. Len(schema) <= Len(schema') BY <3>1, <3>2, <3>6
      <4>5. ASSUME NEW q \in Procs, q # p, Kind[q] # "readca", proc'[q].pc \notin Past
            PROVE  Build[q] <= Len(schema')
        <5>1. Build[q] <= Len(schema) BY <4>5, <4>1 DEF SchemaSound
        <5>2. Len(schema) \in Nat /\ Len(schema') \in Nat BY <1>t, <3>1, <3>2, <3>6
        <5> QED BY <5>1, <5>2, <4>2, <4>4
      <4> QED BY <4>3, <4>5
    <3> QED BY <3>7, <3>8, <3>9 DEF SchemaSound, At
  <2>4. CASE ReadCrt(p)
    <3>1. [proc[p] EXCEPT !.crt = caCrt, !.pc = IF caCrt = None THEN "stat" ELSE "caKey"].pc \in {"stat", "caKey"}
      BY <2>a DEF Running
    <3> QED BY <3>1, <2>4, <1>k DEF ReadCrt, At
  <2>5. CASE StatKey(p)
    <3>1. Fail(p) \/ Goto(p, "claim") \/ Goto(p, "caCrt") BY <2>5 DEF StatKey
    <3> QED BY <3>1, <2>5, <1>f, <1>g DEF StatKey, At
  <2>6. CASE ReadKey(p) BY <2>6, <1>f, <1>r DEF ReadKey, At
  <2>7. CASE Claim(p) BY <2>7, <1>g DEF Claim, At
  <2>8. CASE Publish(p) BY <2>8, <1>f, <1>r DEF Publish, At
  <2>9. CASE ReadSrvCrt(p)
    <3>1. [proc[p] EXCEPT !.pair.crt = srvCrt, !.pc = IF srvCrt = None THEN "writeKey" ELSE "srvKey"].pc # "tx"
      BY <2>a DEF Running
    <3> QED BY <3>1, <2>9, <1>k DEF ReadSrvCrt, At
  <2>10. CASE ReadSrvKey(p)
    <3>1. PICK good \in BOOLEAN :
            Become(p, [proc[p] EXCEPT !.pair = IF good THEN [crt |-> @.crt, key |-> srvKey] ELSE NoPair,
                                      !.pc = IF good THEN "ready" ELSE "writeKey"])
      BY <2>10 DEF ReadSrvKey
    <3>2. [proc[p] EXCEPT !.pair = IF good THEN [crt |-> @.crt, key |-> srvKey] ELSE NoPair,
                          !.pc = IF good THEN "ready" ELSE "writeKey"].pc # "tx"
      BY <2>a DEF Running
    <3> QED BY <3>1, <3>2, <2>10, <1>k DEF ReadSrvKey, At
  <2>11. CASE WriteKey(p) BY <2>11, <1>g DEF WriteKey, At
  <2>12. CASE WriteCrt(p)
    <3>1. [proc[p] EXCEPT !.pair = [crt |-> srvCrt', key |-> p], !.pc = "ready"].pc = "ready" BY <2>a DEF Running
    <3> QED BY <3>1, <2>12, <1>k DEF WriteCrt, At
  <2> QED BY <1>1, <2>1, <2>2, <2>3, <2>4, <2>5, <2>6, <2>7, <2>8, <2>9, <2>10, <2>11, <2>12 DEF Step
<1>2. ASSUME NEW p \in Procs, Stop(p) PROVE SchemaSound'
  <2>1. proc'[p].pc = "failed" /\ \A q \in Procs : q # p => proc'[q] = proc[q]
    BY <1>2, <1>t, Others DEF Stop, Fail, Starts
  <2>2. schema' = schema /\ lock' = IF lock = p THEN None ELSE lock BY <1>2 DEF Stop
  <2> QED BY <2>1, <2>2, <1>t DEF SchemaSound, At
<1>3. ASSUME NEW p \in Procs, Deadline(p) PROVE SchemaSound'
  <2>1. [proc[p] EXCEPT !.late = TRUE].pc = proc[p].pc BY <1>t DEF Running
  <2> QED BY <2>1, <1>3, <1>k DEF Deadline
<1>4. CASE Age BY <1>4 DEF Age, SchemaSound, At
<1>5. CASE RemoveKey BY <1>5 DEF RemoveKey, SchemaSound, At
<1>6. CASE UNCHANGED dirVars BY <1>6 DEF dirVars, SchemaSound, At
<1> QED BY <1>1, <1>2, <1>3, <1>4, <1>5, <1>6 DEF DirNext

-----------------------------------------------------------------------------
(* The certificate authority *)

\* Every step keeps the certificate authority sound.
LEMMA CAStep ==
  ASSUME DirTypeOK, CASound, [DirNext]_dirVars
  PROVE  CASound'
<1> DEFINE Loop == {"open", "tx", "caCrt", "stat", "claim", "publish", "failed"}
<1>t. proc \in [Procs -> Running] BY DEF DirTypeOK
\* ca.crt, once there, stays; a process that has nothing of it yet, or that
\* keeps what it has, keeps the invariant.
<1>k. ASSUME NEW p \in Procs, NEW new, Become(p, new), caCrt' = caCrt, new.pc \in Loop
      PROVE  CASound'
  BY <1>k, <1>t, Others DEF CASound, At, Ready, Holding
<1>f. ASSUME NEW p \in Procs, Fail(p), caCrt' = caCrt PROVE CASound'
  BY <1>f, <1>k DEF Fail, Starts
<1>g. ASSUME NEW p \in Procs, NEW pc \in Loop, Goto(p, pc), caCrt' = caCrt PROVE CASound'
  BY <1>g, <1>k, <1>t DEF Goto, Running
<1>r. ASSUME NEW p \in Procs, Become(p, Returns(p, caCrt')), caCrt' # None, caCrt # None => caCrt' = caCrt
      PROVE  CASound'
  <2>1. proc'[p].ca = caCrt' /\ proc'[p].pc = IF Kind[p] = "readca" THEN "ready" ELSE "srvCrt"
    BY <1>r, <1>t, Others DEF Returns, Starts
  <2>2. \A q \in Procs : q # p => proc'[q] = proc[q] BY <1>r, <1>t, Others
  <2> QED BY <2>1, <2>2, <1>r DEF CASound, At, Ready, Holding
\* A process with the CA in its hands goes on to write or return a pair.
<1>h. ASSUME NEW p \in Procs, NEW new, Become(p, new), caCrt' = caCrt, proc[p].pc \in Holding,
             new.ca = proc[p].ca, new.pc \in Holding,
             new.pc = "srvKey" => new.pair.crt # None,
             new.pc = "ready" => /\ new.pair.crt # None
                                 /\ new.pair.crt.ca = new.ca
                                 /\ new.pair.key = new.pair.crt.key
                                 /\ Hosts[p] \subseteq Hosts[new.pair.key]
      PROVE  CASound'
  <2>1. proc'[p] = new /\ \A q \in Procs : q # p => proc'[q] = proc[q] BY <1>h, <1>t, Others
  <2> QED BY <2>1, <1>h DEF CASound, At, Ready, Holding
<1>1. ASSUME NEW p \in Procs, Step(p) PROVE CASound'
  <2>a. proc[p] \in Running BY <1>t
  <2>1. CASE Begin(p)
    <3>1. [proc[p] EXCEPT !.pc = "tx", !.v = Version(schema)].pc = "tx" BY <2>a DEF Running
    <3> QED BY <3>1, <2>1, <1>k DEF Begin
  <2>2. CASE Busy(p)
    <3>1. [proc[p] EXCEPT !.tries = proc[p].tries + 1].pc = "open" BY <2>2, <2>a DEF Busy, At, Running
    <3> QED BY <3>1, <2>2, <1>f, <1>k DEF Busy
  <2>3. CASE Commit(p) BY <2>3, <1>k DEF Commit, Starts
  <2>4. CASE ReadCrt(p)
    <3>1. CASE caCrt = None
      <4>1. [proc[p] EXCEPT !.crt = caCrt, !.pc = "stat"].pc = "stat" BY <2>a DEF Running
      <4> QED BY <4>1, <3>1, <2>4, <1>k DEF ReadCrt
    <3>2. CASE caCrt # None
      <4> DEFINE new == [proc[p] EXCEPT !.crt = caCrt, !.pc = "caKey"]
      <4>0. Become(p, new) BY <3>2, <2>4 DEF ReadCrt
      <4>2. new.pc = "caKey" /\ new.crt = caCrt BY <2>a DEF Running
      <4> HIDE DEF new
      <4>1. proc'[p].pc = "caKey" /\ proc'[p].crt = caCrt /\ \A q \in Procs : q # p => proc'[q] = proc[q]
        BY <4>0, <4>2, <1>t, Others
      <4> QED BY <4>1, <3>2, <2>4 DEF ReadCrt, CASound, At, Ready, Holding
    <3> QED BY <3>1, <3>2
  <2>5. CASE StatKey(p)
    <3>1. Fail(p) \/ Goto(p, "claim") \/ Goto(p, "caCrt") BY <2>5 DEF StatKey
    <3> QED BY <3>1, <2>5, <1>f, <1>g DEF StatKey
  <2>6. CASE ReadKey(p)
    <3>1. proc[p].crt = caCrt /\ caCrt # None BY <2>6 DEF ReadKey, CASound
    <3> QED BY <3>1, <2>6, <1>f, <1>r DEF ReadKey
  <2>7. CASE Claim(p) BY <2>7, <1>g DEF Claim
  <2>8. CASE Publish(p)
    <3>1. p # None OBVIOUS
    <3> QED BY <3>1, <2>8, <1>f, <1>r DEF Publish
  <2>9. CASE ReadSrvCrt(p)
    <3> DEFINE new == [proc[p] EXCEPT !.pair.crt = srvCrt, !.pc = IF srvCrt = None THEN "writeKey" ELSE "srvKey"]
    <3>1. /\ new.ca = proc[p].ca /\ new.pc = IF srvCrt = None THEN "writeKey" ELSE "srvKey"
          /\ new.pair.crt = srvCrt
      BY <2>a DEF Running
    <3>2. Become(p, new) /\ caCrt' = caCrt /\ proc[p].pc = "srvCrt" BY <2>9 DEF ReadSrvCrt, At
    <3> HIDE DEF new
    <3> QED BY <3>1, <3>2, <1>h DEF Holding
  <2>10. CASE ReadSrvKey(p)
    <3> DEFINE c == proc[p].pair.crt
    <3>0. c # None /\ proc[p].pc = "srvKey" /\ caCrt' = caCrt BY <2>10 DEF ReadSrvKey, CASound, At
    <3>1. CASE Usable(p, c) /\ srvKey = c.key
      <4> DEFINE new == [proc[p] EXCEPT !.pair = [crt |-> c, key |-> srvKey], !.pc = "ready"]
      <4>1. Become(p, new) BY <3>1, <2>10, <2>a DEF ReadSrvKey, Running
      <4>2. new.ca = proc[p].ca /\ new.pc = "ready" /\ new.pair = [crt |-> c, key |-> srvKey] BY <2>a DEF Running
      <4>3. c.ca = proc[p].ca /\ Hosts[p] \subseteq Hosts[c.key] BY <3>1 DEF Usable
      <4> HIDE DEF new, c
      <4> QED BY <4>1, <4>2, <4>3, <3>0, <3>1, <1>h DEF Holding
    <3>2. CASE ~(Usable(p, c) /\ srvKey = c.key)
      <4> DEFINE new == [proc[p] EXCEPT !.pair = NoPair, !.pc = "writeKey"]
      <4>1. Become(p, new) BY <3>2, <2>10, <2>a DEF ReadSrvKey, Running
      <4>2. new.ca = proc[p].ca /\ new.pc = "writeKey" BY <2>a DEF Running
      <4> HIDE DEF new, c
      <4> QED BY <4>1, <4>2, <3>0, <1>h DEF Holding
    <3> QED BY <3>1, <3>2
  <2>11. CASE WriteKey(p)
    <3>1. [proc[p] EXCEPT !.pc = "writeCrt"].ca = proc[p].ca /\ [proc[p] EXCEPT !.pc = "writeCrt"].pc = "writeCrt"
      BY <2>a DEF Running
    <3> QED BY <3>1, <2>11, <1>h DEF WriteKey, Goto, At, Holding
  <2>12. CASE WriteCrt(p)
    <3> DEFINE new == [proc[p] EXCEPT !.pair = [crt |-> srvCrt', key |-> p], !.pc = "ready"]
    <3>1. new.ca = proc[p].ca /\ new.pc = "ready" /\ new.pair = [crt |-> srvCrt', key |-> p] BY <2>a DEF Running
    <3>2. Become(p, new) /\ caCrt' = caCrt /\ proc[p].pc = "writeCrt" /\ srvCrt' = [key |-> p, ca |-> proc[p].ca]
      BY <2>12 DEF WriteCrt, At
    <3>3. srvCrt'.key = p /\ srvCrt'.ca = proc[p].ca BY <3>2
    <3>4. proc[p].ca \in Procs BY <3>2, <2>a DEF CASound, Holding, Running, Names
    <3>5. srvCrt' # None
      <4>1. [key |-> p, ca |-> proc[p].ca] \in Certs BY <3>4 DEF Certs
      <4> QED BY <4>1, <3>2
    <3> HIDE DEF new
    <3> QED BY <3>1, <3>2, <3>3, <3>5, <1>h DEF Holding
  <2> QED BY <1>1, <2>1, <2>2, <2>3, <2>4, <2>5, <2>6, <2>7, <2>8, <2>9, <2>10, <2>11, <2>12 DEF Step
<1>2. ASSUME NEW p \in Procs, Stop(p) PROVE CASound' BY <1>2, <1>f DEF Stop
<1>3. ASSUME NEW p \in Procs, Deadline(p) PROVE CASound'
  <2>0. proc[p] \in Running BY <1>t
  <2> DEFINE new == [proc[p] EXCEPT !.late = TRUE]
  <2>1. new.pc = proc[p].pc /\ new.crt = proc[p].crt BY <2>0 DEF Running
  <2>2. proc'[p] = new /\ \A q \in Procs : q # p => proc'[q] = proc[q] BY <1>3, <1>t, Others DEF Deadline
  <2>3. proc[p].pc \in {"caCrt", "stat", "caKey", "claim"} /\ caCrt' = caCrt BY <1>3 DEF Deadline
  <2> HIDE DEF new
  <2> QED BY <2>1, <2>2, <2>3 DEF CASound, At, Ready, Holding
<1>4. CASE Age BY <1>4 DEF Age, CASound, At, Ready
<1>5. CASE RemoveKey BY <1>5 DEF RemoveKey, CASound, At, Ready
<1>6. CASE UNCHANGED dirVars BY <1>6 DEF dirVars, CASound, At, Ready
<1> QED BY <1>1, <1>2, <1>3, <1>4, <1>5, <1>6 DEF DirNext

-----------------------------------------------------------------------------
(* Theorems *)

DirInv == DirTypeOK /\ SchemaSound /\ CASound

\* The invariant holds.
LEMMA DirInvHolds == DirSpec => []DirInv
<1>1. DirInit => DirInv
  <2> SUFFICES ASSUME DirInit PROVE DirInv OBVIOUS
  <2>1. \A p \in Procs : proc[p] = Starts(IF Kind[p] = "readca" THEN "caCrt" ELSE "open") BY DEF DirInit
  <2>2. proc \in [Procs -> Running]
    <3>1. \A p \in Procs : Starts(IF Kind[p] = "readca" THEN "caCrt" ELSE "open") \in Running
      BY StartsType DEF Pcs
    <3>2. proc = [p \in Procs |-> Starts(IF Kind[p] = "readca" THEN "caCrt" ELSE "open")] BY DEF DirInit
    <3> QED BY <3>1, <3>2
  <2>a. schema \in Seq(Nat) /\ removals \in 0 .. MaxRemovals BY DEF DirInit
  <2>3. DirTypeOK BY <2>2, <2>a DEF DirInit, DirTypeOK, Names
  <2>b. \A pc : Starts(pc).pc = pc BY DEF Starts
  <2>4. \A p \in Procs : proc[p].pc = IF Kind[p] = "readca" THEN "caCrt" ELSE "open" BY <2>1, <2>b
  <2>5. SchemaSound BY <2>4 DEF DirInit, SchemaSound, At
  <2>6. CASound BY <2>4 DEF DirInit, CASound, At, Ready, Holding
  <2> QED BY <2>3, <2>5, <2>6 DEF DirInv
<1>2. DirInv /\ [DirNext]_dirVars => DirInv'
  BY DirTypeStep, SchemaStep, CAStep DEF DirInv
<1> QED BY <1>1, <1>2, PTL DEF DirSpec

\* Every variable of the data directory keeps its type.
THEOREM DirTypeCorrect == DirSpec => []DirTypeOK
<1>1. DirInv => DirTypeOK BY DEF DirInv
<1> QED BY <1>1, DirInvHolds, PTL

\* migrateOnce: however many processes of however many builds open a
\* database together, and die doing so, each migration runs once, in order.
THEOREM MigratedOnceHolds == DirSpec => []MigratedOnce
<1>1. DirInv => MigratedOnce BY DEF DirInv, SchemaSound, MigratedOnce, Ready, At
<1> QED BY <1>1, DirInvHolds, PTL

\* LoadOrCreate and LoadCA: however many processes create, renew and read
\* the TLS files together, and die doing so, and whatever ca.key the operator
\* removes, no two of them ever hold different authorities and every server's
\* pair verifies under the one there is.
THEOREM OneAuthorityHolds == DirSpec => []OneAuthority
<1>1. DirInv => OneAuthority BY DEF DirInv, CASound, OneAuthority, Ready, At, Holding
<1> QED BY <1>1, DirInvHolds, PTL
=============================================================================
