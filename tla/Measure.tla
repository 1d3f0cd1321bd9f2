------------------------------- MODULE Measure -------------------------------
(***************************************************************************)
(* What a write is measured to do (internal/engine), what policy makes of    *)
(* it, and what the gate keeps of both when it measures again for an         *)
(* approval (gate.Decide, recheck, row).  One write, against a cluster that  *)
(* others change between any two of the engine's reads.                      *)
(*                                                                           *)
(* The cluster is one workload, its pods, one Service, one disruption budget *)
(* and perhaps an admission webhook that refuses dry-runs.  The pods are as  *)
(* many as the replicas and carry the template's label, but for those it was *)
(* taken off.  Approvals are Gate's: here Verify releases or does not.       *)
(***************************************************************************)
EXTENDS Policy

CONSTANTS
  Docs,          \* the policy documents an operator may start blastgate with
  Clusters,      \* the clusters a write may find
  Writes,        \* the requests
  MaxReplicas,
  MaxMoves,      \* bound on Move
  None

VARIABLES
  policy,
  cluster,
  moves,
  act,      \* the request
  pc,       \* where Decide is
  before,   \* the live object, None when there is none
  after,    \* the dry-run's answer
  i,        \* Assess' impact so far
  labels,   \* namespaceLabels' answer
  v,        \* the gate's Verdict: impact, labels, decision, rule
  again,    \* this is recheck: an approval came while it was held
  trail,    \* decision rows
  sent,     \* the write was forwarded
  steady    \* history: nothing moved since this measurement began

vars == <<policy, cluster, moves, act, pc, before, after, i, labels, v, again, trail, sent, steady>>

TemplateLabels == {"a", "b"}
Envs == {"prod", "none"}
ClusterStates == [
  exists : BOOLEAN, replicas : 0 .. MaxReplicas, tmpl : TemplateLabels, sel : TemplateLabels,
  pdb : 0 .. MaxReplicas, env : Envs,
  stray : 0 .. MaxReplicas,   \* pods the template's label was taken off
  hook : BOOLEAN,             \* an admission webhook answers dry-runs, and only them, with 403 or 404
  may : BOOLEAN]              \* the human's RBAC lets them

\* A normalised request: its op (verb and subresource), the kind it is on,
\* the replicas and the label its body sets, whether a command runs SQL,
\* whether its body can be read.
Ops == {"unparseable", "read", "selfreview", "proxy", "exec", "debug", "delete", "evict", "create", "update", "patch",
        "other"}
Requests == [
  op       : Ops,
  on       : {"workload", "scale", "custom", "service", "claim", "pods", "rbac", "token"},
  replicas : 0 .. MaxReplicas \cup {None},
  label    : TemplateLabels,
  sql      : BOOLEAN,
  clear    : BOOLEAN]

Objects == [replicas : 0 .. MaxReplicas \cup {None}, tmpl : TemplateLabels, sel : TemplateLabels]

\* effect is what Effects says of a number of pods; the digest covers it all.
Impacts == [
  class : Classes, measured : BOOLEAN, reason : {"", "not measured", "over budget"}, effect : Seq(Nat),
  data : BOOLEAN, left : 0 .. MaxReplicas \cup {None}, pdb : BOOLEAN, sql : BOOLEAN, rejected : BOOLEAN]

ASSUME MeasureAssumption ==
  /\ \A d \in Docs : d.rules \in Seq([name : STRING, when : STRING, then : STRING])
  /\ Clusters \subseteq ClusterStates /\ Writes \subseteq Requests
  /\ \A a \in Writes : a.op = "evict" => a.on = "pods"
  /\ MaxReplicas \in Nat \ {0} /\ MaxMoves \in Nat
  /\ None \notin 0 .. MaxReplicas \cup Objects
  /\ Unknown \notin Envs \cup {"null"}

Labels == Envs \cup {Unknown}
RuleNames == {"read", "unparseable", "default", "unmeasured", "error"}
             \cup UNION {{d.rules[k].name : k \in DOMAIN d.rules} : d \in Docs}
Verdicts == [imp : Impacts \cup {None}, labels : Labels, decision : Decisions, rule : RuleNames]
Rows == [op : Ops, scored : BOOLEAN, imp : Impacts \cup {None}, labels : Envs \cup {"null"}, decision : Decisions,
         how : {"once", "again", "cut"}]   \* history: measured again for its approval; a rule was interrupted
Assessing == {"assess", "before", "dryrun", "scale", "relabel", "score", "disrupt", "budget", "late", "labels",
              "evaluate"}

MeasureTypeOK ==
  /\ policy \in Docs
  /\ cluster \in ClusterStates
  /\ moves \in 0 .. MaxMoves
  /\ act \in Requests
  /\ pc \in Assessing \cup {"arrive", "held", "done"}
  /\ before \in Objects \cup {None} /\ after \in Objects \cup {None}
  /\ i \in Impacts \cup {None}
  /\ labels \in Labels
  /\ v \in Verdicts \cup {None}
  /\ again \in BOOLEAN
  /\ trail \subseteq Rows
  /\ sent \in BOOLEAN /\ steady \in BOOLEAN

\* serve starts with a policy that loads or not at all.
Init ==
  /\ policy \in {d \in Docs : Loadable(d)}
  /\ cluster \in Clusters /\ moves = 0
  /\ act \in Writes
  /\ pc = "arrive"
  /\ before = None /\ after = None /\ i = None /\ labels = Unknown
  /\ v = None /\ again = FALSE
  /\ trail = {} /\ sent = FALSE /\ steady = TRUE

-----------------------------------------------------------------------------
(* The cluster *)

Pods(c) == IF c.exists THEN c.replicas ELSE 0
Fewer(n, k) == IF n < k THEN 0 ELSE n - k
Backends(c, sel) == IF c.tmpl = sel THEN Fewer(Pods(c), c.stray) ELSE 0

\* What the API server stores for a write it accepts.  A workload whose
\* replicas are left out gets one, one whose template changes gets new pods,
\* and one Pod may be given another label.
Stored(c, a) ==
  CASE a.on \in {"scale", "custom"} /\ a.op \in {"update", "patch"} ->
         [c EXCEPT !.replicas = IF a.replicas = None THEN 0 ELSE a.replicas]
    [] a.on = "workload" /\ a.op \in {"update", "patch"} ->
         [c EXCEPT !.replicas = IF a.replicas = None THEN 1 ELSE a.replicas, !.tmpl = a.label,
                   !.stray = IF a.label = c.tmpl THEN @ ELSE 0]
    [] a.on = "service" /\ a.op \in {"update", "patch"} -> [c EXCEPT !.sel = a.label]
    [] a.on = "pods" /\ a.op \in {"update", "patch"} ->
         [c EXCEPT !.stray = IF a.label # c.tmpl /\ c.stray < Pods(c) THEN c.stray + 1 ELSE c.stray]
    [] a.op = "evict" -> [c EXCEPT !.replicas = Fewer(c.replicas, 1)]
    [] a.on \in {"workload", "pods"} /\ a.op \in {"delete", "other"} -> [c EXCEPT !.replicas = 0]
    [] OTHER -> c

\* How an object is written as JSON: a Scale of no replicas has no replicas.
Object(c, on, replicas) ==
  [replicas |-> IF on = "scale" /\ replicas = 0 THEN None ELSE replicas, tmpl |-> c.tmpl, sel |-> c.sel]

\* Someone else changes one thing.
Changes(c) ==
  {[c EXCEPT !.exists = ~@], [c EXCEPT !.hook = ~@], [c EXCEPT !.may = ~@]}
  \cup {[c EXCEPT !.tmpl = l] : l \in TemplateLabels} \cup {[c EXCEPT !.sel = l] : l \in TemplateLabels}
  \cup {[c EXCEPT !.replicas = n] : n \in 0 .. MaxReplicas} \cup {[c EXCEPT !.stray = n] : n \in 0 .. MaxReplicas}
  \cup {[c EXCEPT !.pdb = n] : n \in 0 .. MaxReplicas} \cup {[c EXCEPT !.env = e] : e \in Envs}

Move ==
  /\ moves < MaxMoves /\ pc # "done"
  /\ cluster' \in Changes(cluster) \ {cluster}
  /\ moves' = moves + 1
  /\ steady' = FALSE
  /\ UNCHANGED <<policy, act, pc, before, after, i, labels, v, again, trail, sent>>

-----------------------------------------------------------------------------
(* Engine.Assess *)

Impact(class) == [class |-> class, measured |-> TRUE, reason |-> "", effect |-> <<>>, data |-> FALSE,
                  left |-> None, pdb |-> FALSE, sql |-> FALSE, rejected |-> FALSE]
Unmeasured == [Impact("TERMINAL") EXCEPT !.measured = FALSE, !.reason = "not measured"]

Mutates(a) == a.op \in {"create", "update", "patch"}
isAuthority(a) == a.on \in {"rbac", "token"}

\* A token, a CSR approval, or an RBAC object shown whole; else not measured
\* and AUTHORITY all the same.
authorityImpact(a) ==
  IF a.on = "token" \/ (a.op \in {"create", "update"} /\ a.clear) THEN Impact("AUTHORITY")
  ELSE [Unmeasured EXCEPT !.class = "AUTHORITY"]

\* setEndpoints keeps the worse of two measurements of one Service.
setEndpoints(imp, n) == [imp EXCEPT !.left = IF @ # None /\ @ < n THEN @ ELSE n]

Assess(next) ==
  /\ pc' = next
  /\ UNCHANGED <<policy, cluster, moves, act, labels, v, again, trail, sent, steady>>

Scored(imp) == i' = imp /\ Assess("budget") /\ UNCHANGED <<before, after>>

\* The switch, and assessMutation up to its first read.  Commands come before
\* reads: kubectl opens exec as a GET.
Classify ==
  /\ pc = "assess"
  /\ \/ act.op \in {"proxy", "other"} /\ Scored(Unmeasured)
     \/ act.op \in {"exec", "debug"} /\ Scored([Unmeasured EXCEPT !.sql = act.sql])
     \/ act.op = "selfreview" /\ Scored(Impact("READ"))
     \/ act.op \in {"delete", "evict"} /\ Assess("score") /\ UNCHANGED <<before, after, i>>
     \/ Mutates(act) /\ isAuthority(act) /\ Scored(authorityImpact(act))
     \/ /\ Mutates(act) /\ ~isAuthority(act)
        /\ IF act.op # "patch" /\ ~act.clear THEN Scored(Unmeasured)
           ELSE Assess(IF act.op = "create" THEN "dryrun" ELSE "before") /\ UNCHANGED <<before, after, i>>

\* The read as the human: an error, or a status that is neither 2xx nor 404,
\* is not an empty "before".
ReadBefore ==
  /\ pc = "before"
  /\ \/ Scored(Unmeasured)
     \/ /\ cluster.may
        /\ before' = IF cluster.exists THEN Object(cluster, act.on, cluster.replicas) ELSE None
        /\ Assess("dryrun") /\ UNCHANGED <<after, i>>

\* The API server refuses with 403 or 404: the human may not, there is no
\* such object or no such namespace, or a webhook refuses the dry-run.
Refuses(c, a) == ~c.may \/ ~c.exists \/ a.op = "create" \/ c.hook
Rejected == [Impact("READ") EXCEPT !.rejected = TRUE]

\* What it would store.  A patch may be an apply, which makes the object it
\* does not find.
DryRunStores ==
  /\ cluster.may /\ ~cluster.hook /\ (cluster.exists \/ act.op # "update")
  /\ after' = Object(Stored(cluster, act), act.on,
                     IF act.on = "custom" THEN act.replicas ELSE Stored(cluster, act).replicas)
  /\ i' = Impact("REVERSIBLE")
  /\ Assess(IF before = None THEN "budget" ELSE "scale") /\ UNCHANGED before

DryRunAnyRefusal ==                                                   \* mutant
  /\ pc = "dryrun"
  /\ Scored(Rejected) \/ DryRunStores

\* The dry-run.  A 403 or a 404 is taken to say that the real request fails
\* too; an error, or any other refusal, leaves the write unmeasured.
DryRun ==
  /\ pc = "dryrun"
  /\ \/ Scored(Unmeasured)
     \/ Refuses(cluster, act) /\ Scored(Rejected)
     \/ DryRunStores

\* spec.replicas, None when it is missing; a Scale without it has zero.
Replicas(o, isScale) == IF isScale /\ o.replicas = None THEN 0 ELSE o.replicas

\* disruption.Assess: the worst case of removing k of the workload's pods
\* as they are now.
Disrupted(imp, k) ==
  LET left == Fewer(Backends(cluster, cluster.sel), k)
      told == IF Backends(cluster, cluster.sel) = 0 THEN imp ELSE setEndpoints(imp, left)
  IN [told EXCEPT !.pdb = Fewer(Pods(cluster), k) < cluster.pdb]

\* The deadline passes while sounding looks at what depends on the pods: what
\* it has by then may come back as the whole.
CutShort(imp) == i' = imp /\ Assess("late") /\ UNCHANGED <<before, after>>

\* scaleDown: a decrease is measured, or nothing is.
ScaleDown ==
  /\ pc = "scale"
  /\ LET b == Replicas(before, act.on = "scale")
         n == Replicas(after, act.on = "scale")
         unchanged == act.on = "service" \/ (n # None /\ n >= b)
     IN \/ /\ unchanged
           /\ Assess("relabel") /\ UNCHANGED <<before, after, i>>
        \/ /\ ~unchanged
           /\ \/ Scored(Unmeasured)
              \/ /\ n # None /\ act.on \in {"workload", "scale"}
                 /\ \/ /\ i' = [Disrupted(i, b - n) EXCEPT !.effect = <<b, n>>]
                       /\ Assess("relabel") /\ UNCHANGED <<before, after>>
                    \/ CutShort([i EXCEPT !.effect = <<b, n>>])

\* Services a changed template leaves, or pods a changed selector takes.
Relabel ==
  /\ pc = "relabel"
  /\ \/ /\ act.on = "workload" /\ before.tmpl # after.tmpl
        /\ \/ Scored(Unmeasured)
           \/ Scored(IF cluster.sel = before.tmpl THEN setEndpoints(i, 0) ELSE i)
     \/ /\ act.on = "service" /\ before.sel # after.sel
        /\ \/ Scored(Unmeasured)
           \/ Scored([setEndpoints(i, Backends(cluster, after.sel))
                        EXCEPT !.effect = <<Backends(cluster, before.sel), Backends(cluster, after.sel)>>])
     \/ /\ act.on = "workload" => before.tmpl = after.tmpl
        /\ act.on = "service" => before.sel = after.sel
        /\ Scored(i)

\* Sounding scores a delete, or refuses to; a class this build does not know
\* is not measured.
Score ==
  /\ pc = "score"
  /\ \/ Scored(Unmeasured)
     \/ \E class \in {"REVERSIBLE", "COMPENSABLE", "TERMINAL"} :
          /\ act.on = "claim" => class = "TERMINAL"
          /\ i' = [Impact(class) EXCEPT !.data = act.on = "claim"]
          /\ Assess("disrupt") /\ UNCHANGED <<before, after>>

\* Then the disruption of the pods it destroys.
Disrupt ==
  /\ pc = "disrupt"
  /\ \/ Scored(Unmeasured)
     \/ Scored(IF act.on = "claim" THEN i ELSE
               Disrupted(i, IF act.op = "evict" THEN 1 ELSE Pods(cluster)))
     \/ CutShort(i)

FinishTrusting ==                                                     \* mutant
  /\ pc \in {"budget", "late"}
  /\ \E over \in {TRUE, pc = "late"} :
       /\ i' = IF over /\ ~i.measured THEN [i EXCEPT !.reason = "over budget"] ELSE i
       /\ pc' = IF i'.class = "READ" THEN "evaluate" ELSE "labels"
  /\ labels' = Unknown
  /\ UNCHANGED <<policy, cluster, moves, act, before, after, v, again, trail, sent, steady>>

\* What finished after the budget, whole or cut short, is not trusted.  Of
\* reads no labels are read.
Finish ==
  /\ pc \in {"budget", "late"}
  /\ \E over \in {TRUE, pc = "late"} :
       /\ i' = IF ~over THEN i ELSE
               IF i.measured THEN [Unmeasured EXCEPT !.reason = "over budget"]
               ELSE [i EXCEPT !.reason = "over budget"]
       /\ pc' = IF i'.class = "READ" THEN "evaluate" ELSE "labels"
  /\ labels' = Unknown
  /\ UNCHANGED <<policy, cluster, moves, act, before, after, v, again, trail, sent, steady>>

\* There is a namespace and it is read in time; else they stay unknown.
ReadLabels ==
  /\ pc = "labels"
  /\ pc' = "evaluate"
  /\ labels' \in {cluster.env, Unknown}
  /\ UNCHANGED <<policy, cluster, moves, act, before, after, i, v, again, trail, sent, steady>>

-----------------------------------------------------------------------------
(* Gate.Decide around it *)

\* ImpactJSON and LabelsJSON are there for what was scored.
Row(w, how) == [op |-> act.op, scored |-> w.imp # None, imp |-> w.imp, labels |-> Encode(w.labels),
                decision |-> w.decision, how |-> how]

Forget == before' = None /\ after' = None /\ i' = None /\ labels' = Unknown

\* The decision row, then the answer: what may be forwarded is refused when
\* its snapshot or its approval fails, and when its row cannot be written.
Decide(w, may, how) ==
  /\ v' = w
  /\ \/ trail' = trail \cup {Row(w, how)} /\ sent' \in {FALSE, may}
     \/ trail' = trail /\ sent' = FALSE
  /\ pc' = "done"
  /\ UNCHANGED again

\* What cannot be parsed is refused and a read is forwarded, neither scored.
Arrive ==
  /\ pc = "arrive"
  /\ steady' = TRUE
  /\ \/ /\ act.op = "unparseable"
        /\ Decide([imp |-> None, labels |-> Unknown, decision |-> "deny", rule |-> "unparseable"], FALSE, "once")
     \/ /\ act.op = "read"
        /\ v' = [imp |-> Impact("READ"), labels |-> Unknown, decision |-> "allow", rule |-> "read"]
        /\ sent' = TRUE /\ pc' = "done" /\ UNCHANGED <<again, trail>>
     \/ /\ act.op \notin {"unparseable", "read"}
        /\ pc' = "assess" /\ UNCHANGED <<v, again, trail, sent>>
  /\ UNCHANGED <<policy, cluster, moves, act, before, after, i, labels>>

\* Decide's own evaluation.  A rule the client interrupted by leaving holds,
\* and hold then has nobody to wait for.
EvaluatedUnder(cut) ==
  LET pv == Evaluate(policy, act.op, i, labels, cut)
      w  == [imp |-> i, labels |-> labels, decision |-> pv.decision, rule |-> pv.rule]
  IN IF pv.decision = "hold" /\ cut = Nowhere
     THEN v' = w /\ pc' = "held" /\ UNCHANGED <<again, trail, sent>>
     ELSE Decide(w, pv.decision = "allow" /\ cut = Nowhere, IF cut = Nowhere THEN "once" ELSE "cut")

Evaluated ==
  /\ pc = "evaluate" /\ ~again
  /\ \E cut \in {Nowhere} \cup Interruptible(policy) : EvaluatedUnder(cut)
  /\ Forget /\ UNCHANGED <<policy, cluster, moves, act, steady>>

\* hold: a retry, for which people have already approved this impact.
Verified ==
  /\ pc = "held"
  /\ Decide(v, TRUE, "once")
  /\ Forget /\ UNCHANGED <<policy, cluster, moves, act, steady>>

\* Nobody decided in the window, somebody denied, or the client left.
NotApproved ==
  /\ pc = "held"
  /\ Decide(v, FALSE, "once")
  /\ Forget /\ UNCHANGED <<policy, cluster, moves, act, steady>>

\* recheck: it is measured again.
Approved ==
  /\ pc = "held"
  /\ pc' = "assess" /\ again' = TRUE /\ steady' = TRUE
  /\ UNCHANGED <<policy, cluster, moves, act, before, after, i, labels, v, trail, sent>>

\* The client leaves while it is: a ticket, with what was measured before.
LeavesInRecheck ==
  /\ pc \in Assessing /\ again
  /\ Decide(v, FALSE, "once")
  /\ Forget /\ UNCHANGED <<policy, cluster, moves, act, steady>>

\* The approval covers a hold and an allow, never a deny.  Verify finds a row
\* of this request approved for what was measured now, the one that waited or
\* another, or answers otherwise.
RecheckedUnder(cut) ==
  LET pv  == Evaluate(policy, act.op, i, labels, cut)
      w   == [v EXCEPT !.imp = i, !.labels = labels, !.rule = IF pv.decision = "allow" THEN @ ELSE pv.rule]
      how == IF cut = Nowhere THEN "again" ELSE "cut"
  IN IF pv.decision = "deny" THEN Decide([w EXCEPT !.decision = "deny"], FALSE, how)
     ELSE Decide(w, cut = Nowhere, how)

Rechecked ==
  /\ pc = "evaluate" /\ again
  /\ \E cut \in {Nowhere} \cup Interruptible(policy) : RecheckedUnder(cut)
  /\ Forget /\ UNCHANGED <<policy, cluster, moves, act, steady>>

-----------------------------------------------------------------------------

Next ==
  \/ Move
  \/ Arrive \/ Classify \/ ReadBefore \/ DryRun \/ ScaleDown \/ Relabel \/ Score \/ Disrupt \/ Finish \/ ReadLabels
  \/ Evaluated \/ Verified \/ NotApproved \/ Approved \/ LeavesInRecheck \/ Rechecked

Spec == Init /\ [][Next]_vars

-----------------------------------------------------------------------------
(* Properties *)

\* What a write really does to this cluster, read off its state before and
\* after, without the engine.
Harms ==
  LET c == IF cluster.may THEN Stored(cluster, act) ELSE cluster
  IN {h \in {"empties", "budget", "data", "authority", "command"} :
        \/ h = "empties" /\ Backends(cluster, cluster.sel) > 0 /\ Backends(c, c.sel) = 0
        \/ h = "budget" /\ Pods(c) < Pods(cluster) /\ Pods(c) < c.pdb
        \/ h = "data" /\ act.op = "delete" /\ act.on = "claim"
        \/ h = "authority" /\ Mutates(act) /\ act.on \in {"rbac", "token"}
        \/ h = "command" /\ act.op \in {"proxy", "exec", "debug"}}

Told(imp) ==
  {h \in {"empties", "budget", "data", "authority"} :
     \/ h = "empties" /\ imp.left = 0
     \/ h = "budget" /\ imp.pdb
     \/ h = "data" /\ imp.data
     \/ h = "authority" /\ imp.class = "AUTHORITY"}

\* What the engine is known not to see: anything of a write whose dry-run a
\* webhook alone refused, taken at its word, and the Service a Pod leaves by
\* its own label, for only templates are compared.
Overlooked(imp) ==
  {h \in {"empties", "budget", "data", "authority", "command"} :
     \/ imp.rejected /\ cluster.hook
     \/ h = "empties" /\ act.on = "pods" /\ act.op \in {"update", "patch"}}

\* But for that, an impact that claims to be measured tells of every service
\* the forwarded write leaves empty, every budget it breaks, all data and every
\* grant: of a scale to zero, of a relabel together with a scale-down, of a
\* look at the pods cut short.  Nothing having moved since the measurement began.
MeasuredTellsAll ==
  sent /\ steady /\ v.imp.measured => Harms \subseteq Told(v.imp) \cup Overlooked(v.imp)

\* Whatever the policy says, what goes out was allowed or held, never denied by
\* the measurement it goes out on, and without a person's yes only if that
\* measured it.
NeverAllowedUnmeasured ==
  sent => /\ v.decision # "deny"
          /\ v.decision = "allow" => v.imp.measured

\* Under the default policy what goes out without a person's yes destroys no
\* data, breaks no budget, grants and runs nothing, and empties a Service only
\* outside prod, the labels it was judged by being known; but for what the
\* engine is known not to see.
AllowedIsHarmless ==
  sent /\ steady /\ v.decision = "allow" /\ policy = Default =>
    LET harms == Harms \ Overlooked(v.imp)
    IN harms \subseteq {"empties"} /\ (harms # {} => cluster.env # "prod")

\* Replaying the trail under the policy in force reports no change, labels that
\* were unknown included; but of a write measured again it may report that the
\* hold was not needed, and of a rule the client's leaving interrupted what the
\* whole rule says.
TrailReplays ==
  \A row \in Changed(policy, trail) :
    row.decision = "hold" /\ (row.how = "cut" \/ (row.how = "again" /\ Replayed(policy, row) = "allow"))
=============================================================================
