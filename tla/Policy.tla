------------------------------- MODULE Policy --------------------------------
(***************************************************************************)
(* Policy (internal/policy) and replay (internal/replay), without state.     *)
(*                                                                           *)
(* A rule's `when` is a CEL program; Eval gives the answers of those of      *)
(* default.yaml and of three an operator may write.  An impact is what       *)
(* impactVars shows to a rule; labels are the namespace's env label, or      *)
(* Unknown when the lookup failed and ns has no labels at all.               *)
(***************************************************************************)
EXTENDS Integers, Sequences, FiniteSets

CONSTANT Unknown

Decisions == {"allow", "hold", "deny"}
Classes == {"READ", "REVERSIBLE", "COMPENSABLE", "TERMINAL", "AUTHORITY"}

Answer(b) == IF b THEN "true" ELSE "false"

\* A condition on labels that are missing is an error.
Labelled(labels, b) == IF labels = Unknown THEN "error" ELSE Answer(b)

\* leaves-a-service-empty-in-prod: && absorbs the error of its right side
\* when its left side is false.
EmptyInProd(i, labels) == IF i.left # 0 THEN "false" ELSE Labelled(labels, labels = "prod")

Eval(when, op, i, labels) ==
  CASE when = "data-destruction"               -> Answer(i.data)
    [] when = "leaves-a-service-empty-in-prod" -> EmptyInProd(i, labels)
    [] when = "breaks-a-disruption-budget"     -> Answer(i.pdb)
    [] when = "exec-with-sql"                  -> Answer(op = "exec" /\ i.sql)
    [] when = "grants-authority"               -> Answer(i.class = "AUTHORITY")
    [] when = "safe"                           -> Answer(i.measured /\ i.class \in {"READ", "REVERSIBLE"})
    [] when = "always"                         -> "true"
    [] when = "outside-prod"                   -> Labelled(labels, labels # "prod")
    [] when = "too-costly"                     -> "error"

\* The rules with a loop: one of a hundred turns or more notices that the
\* client has left, and fails.
Loops == {"leaves-a-service-empty-in-prod", "too-costly"}
Interruptible(p) == {k \in DOMAIN p.rules : p.rules[k].when \in Loops}
Nowhere == 0        \* no rule is interrupted

Rule(when, then) == [name |-> when, when |-> when, then |-> then]

Default == [
  rules      |-> << Rule("data-destruction", "hold"), Rule("leaves-a-service-empty-in-prod", "hold"),
                    Rule("breaks-a-disruption-budget", "hold"), Rule("exec-with-sql", "hold"),
                    Rule("grants-authority", "hold"), Rule("safe", "allow") >>,
  default    |-> "hold",
  unmeasured |-> "hold"]

LoadableAnyDecision(doc) ==                                           \* mutant
  /\ doc.unmeasured # "allow"
  /\ \A k, l \in DOMAIN doc.rules : doc.rules[l].name = doc.rules[k].name => l = k

\* Load, for a document that parses: every decision is one, unmeasured is
\* not allow, rules have distinct names of their own.
Loadable(doc) ==
  /\ doc.default \in Decisions
  /\ doc.unmeasured \in Decisions \ {"allow"}
  /\ \A k \in DOMAIN doc.rules :
       /\ doc.rules[k].then \in Decisions
       /\ doc.rules[k].name \notin {"default", "unmeasured"}
       /\ \A l \in DOMAIN doc.rules : doc.rules[l].name = doc.rules[k].name => l = k

Verdict(decision, rule) == [decision |-> decision, rule |-> rule]

RuleVerdictAsWritten(r, answer, i) ==                                 \* mutant
  IF answer = "error" THEN Verdict("hold", "error") ELSE Verdict(r.then, r.name)

\* What the rule that stops the loop decides: an error holds, and an allow
\* is not for an impact that was not measured.
RuleVerdict(r, answer, i) ==
  IF answer = "error" THEN Verdict("hold", "error") ELSE
  IF r.then = "allow" /\ ~i.measured THEN Verdict("hold", "unmeasured") ELSE
  Verdict(r.then, r.name)

\* No rule stopped it.
RestVerdict(p, i) == IF i.measured THEN Verdict(p.default, "default") ELSE Verdict(p.unmeasured, "unmeasured")

\* What ContextEval answers of the k-th rule, under a context cancelled while
\* the rule cut runs.
AnswerOf(p, k, op, i, labels, cut) == IF k = cut THEN "error" ELSE Eval(p.rules[k].when, op, i, labels)

\* The rules that do not answer false; the loop stops at the first.
Stops(p, op, i, labels, cut) == {k \in DOMAIN p.rules : AnswerOf(p, k, op, i, labels, cut) # "false"}
FirstOf(S) == CHOOSE k \in S : \A l \in S : k <= l

Evaluate(p, op, i, labels, cut) ==
  LET stops == Stops(p, op, i, labels, cut)
      k     == FirstOf(stops)
  IN IF stops = {} THEN RestVerdict(p, i)
     ELSE RuleVerdict(p.rules[k], AnswerOf(p, k, op, i, labels, cut), i)

-----------------------------------------------------------------------------
(* Audit rows and their replay *)

EncodeAsEmpty(labels) == IF labels = Unknown THEN "none" ELSE labels  \* mutant

\* LabelsJSON: nil is written as null, which is not {}.
Encode(labels) == IF labels = Unknown THEN "null" ELSE labels
Decode(json) == IF json = "null" THEN Unknown ELSE json

\* What Run makes of a row under p: its decision now, under a context of its
\* own; rows of requests that were never scored are skipped.
Replayed(p, row) == Evaluate(p, row.op, row.imp, Decode(row.labels), Nowhere).decision
Changed(p, rows) == {row \in rows : row.scored /\ Replayed(p, row) # row.decision}
=============================================================================
