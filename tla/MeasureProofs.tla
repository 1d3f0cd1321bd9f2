---------------------------- MODULE MeasureProofs ----------------------------
(***************************************************************************)
(* What TLAPS proves of Policy and Measure, for every policy that loads,    *)
(* every cluster and every request: type correctness, what an impact that   *)
(* claims to be measured tells, what goes out without a person's yes, and   *)
(* that the trail replays.                                                  *)
(***************************************************************************)
EXTENDS Measure, WellFoundedInduction, TLAPS

-----------------------------------------------------------------------------
(* Policy *)

\* Whatever a rule says, an impact that was not measured is not allowed.
LEMMA AllowedWasMeasured ==
  ASSUME NEW p, NEW op, NEW imp, NEW l, NEW cut, Loadable(p),
         Evaluate(p, op, imp, l, cut).decision = "allow"
  PROVE  imp.measured
<1> DEFINE stops == Stops(p, op, imp, l, cut)
           k     == FirstOf(stops)
<1>1. CASE stops = {}
  <2>1. RestVerdict(p, imp).decision = "allow"
    BY <1>1 DEF Evaluate
  <2>2. p.unmeasured # "allow"
    BY DEF Loadable
  <2>3. QED
    BY <2>1, <2>2 DEF RestVerdict, Verdict
<1>2. CASE stops # {}
  <2>1. RuleVerdict(p.rules[k], AnswerOf(p, k, op, imp, l, cut), imp).decision = "allow"
    BY <1>2 DEF Evaluate
  <2>2. QED
    BY <2>1 DEF RuleVerdict, Verdict
<1>3. QED
  BY <1>1, <1>2

\* The loop has a first rule to stop at whenever some rule stops it, and no
\* rule that stops it comes before.
LEMMA FirstOfIsIn ==
  ASSUME NEW S, S \subseteq Nat, S # {}
  PROVE  FirstOf(S) \in S /\ \A l \in S : FirstOf(S) <= l
<1> DEFINE R == {ss \in Nat \X Nat : ss[1] < ss[2]}
<1>1. IsWellFoundedOn(R, Nat)
  BY NatLessThanWellFounded, Zenon DEF OpToRel
<1>2. \E k \in S : \A l \in S : ~(<<l, k>> \in R)
  <2> HIDE DEF R
  <2> QED
    BY <1>1, WFMin, Zenon
<1>3. PICK k \in S : \A l \in S : ~(<<l, k>> \in R)
  BY <1>2
<1>4. ASSUME NEW l \in S
      PROVE  k <= l
  <2>1. k \in Nat /\ l \in Nat
    BY <1>3
  <2>2. l < k => <<l, k>> \in R
    BY <2>1
  <2>3. QED
    BY <1>3, <2>1, <2>2
<1>5. QED
  BY <1>3, <1>4 DEF FirstOf

\* Evaluate decides: its answer is one of the three.
LEMMA EvaluateDecides ==
  ASSUME NEW p, NEW op, NEW imp, NEW l, NEW cut, Loadable(p), DOMAIN p.rules \subseteq Nat \ {0}
  PROVE  Evaluate(p, op, imp, l, cut).decision \in Decisions
<1> DEFINE stops == Stops(p, op, imp, l, cut)
           k     == FirstOf(stops)
<1>1. CASE stops = {}
  BY <1>1 DEF Evaluate, RestVerdict, Verdict, Loadable, Decisions
<1>2. CASE stops # {}
  <2>1. stops \subseteq DOMAIN p.rules
    BY DEF Stops
  <2>2. k \in DOMAIN p.rules
    BY <1>2, <2>1, FirstOfIsIn
  <2>3. p.rules[k].then \in Decisions
    BY <2>2 DEF Loadable
  <2>4. RuleVerdict(p.rules[k], AnswerOf(p, k, op, imp, l, cut), imp).decision \in Decisions
    BY <2>3 DEF RuleVerdict, Verdict, Decisions
  <2>5. QED
    BY <1>2, <2>4 DEF Evaluate
<1>3. QED
  BY <1>1, <1>2

\* FirstOf is the one first rule.
LEMMA FirstOfIsFirst ==
  ASSUME NEW S, S \subseteq Nat, NEW k \in S, \A l \in S : k <= l
  PROVE  FirstOf(S) = k
<1>1. \A x \in S : (\A l \in S : x <= l) => x = k
  OBVIOUS
<1>2. QED
  BY <1>1 DEF FirstOf

\* An interruption holds, or comes after the rule that has decided.
LEMMA InterruptedHolds ==
  ASSUME NEW p, NEW op, NEW imp, NEW l, NEW cut, DOMAIN p.rules \subseteq Nat \ {0}
  PROVE  \/ Evaluate(p, op, imp, l, cut).decision = "hold"
         \/ Evaluate(p, op, imp, l, cut) = Evaluate(p, op, imp, l, Nowhere)
<1> DEFINE S == Stops(p, op, imp, l, cut)
           T == Stops(p, op, imp, l, Nowhere)
           k == FirstOf(S)
<1>1. \A n \in DOMAIN p.rules : n # cut => AnswerOf(p, n, op, imp, l, cut) = AnswerOf(p, n, op, imp, l, Nowhere)
  BY DEF AnswerOf, Nowhere
<1>2. T \ {cut} = S \ {cut}
  BY <1>1 DEF Stops
<1>3. S \subseteq DOMAIN p.rules /\ T \subseteq DOMAIN p.rules /\ S \subseteq Nat /\ T \subseteq Nat
  BY DEF Stops
<1>4. cut \in DOMAIN p.rules => cut \in S
  BY DEF Stops, AnswerOf
<1>5. T \subseteq S
  BY <1>2, <1>3, <1>4
<1>6. CASE S = {}
  <2>1. T = {}
    BY <1>5, <1>6
  <2>2. QED
    BY <1>6, <2>1 DEF Evaluate
<1>7. CASE S # {} /\ k = cut
  <2>1. AnswerOf(p, k, op, imp, l, cut) = "error"
    BY <1>7 DEF AnswerOf
  <2>2. Evaluate(p, op, imp, l, cut) = RuleVerdict(p.rules[k], "error", imp)
    BY <1>7, <2>1 DEF Evaluate
  <2>3. QED
    BY <2>2 DEF RuleVerdict, Verdict
<1>8. CASE S # {} /\ k # cut
  <2>1. k \in S /\ \A n \in S : k <= n
    BY <1>3, <1>8, FirstOfIsIn
  <2>2. k \in T
    BY <1>2, <1>8, <2>1
  <2>3. FirstOf(T) = k
    <3>1. \A n \in T : k <= n
      BY <1>5, <2>1
    <3>2. QED
      BY <1>3, <2>2, <3>1, FirstOfIsFirst
  <2>4. AnswerOf(p, k, op, imp, l, cut) = AnswerOf(p, k, op, imp, l, Nowhere)
    BY <1>1, <1>3, <1>8, <2>1
  <2>5. Evaluate(p, op, imp, l, cut) = RuleVerdict(p.rules[k], AnswerOf(p, k, op, imp, l, cut), imp)
    BY <1>8 DEF Evaluate
  <2>6. Evaluate(p, op, imp, l, Nowhere) = RuleVerdict(p.rules[k], AnswerOf(p, k, op, imp, l, Nowhere), imp)
    BY <2>2, <2>3 DEF Evaluate
  <2>7. QED
    BY <2>4, <2>5, <2>6
<1>9. QED
  BY <1>6, <1>7, <1>8

\* LabelsJSON tells unknown labels from all others.
LEMMA LabelsSurvive == \A l \in Labels : Decode(Encode(l)) = l
BY MeasureAssumption DEF Labels, Envs, Encode, Decode

-----------------------------------------------------------------------------
(* Measure *)

\* The types the properties need.
Typed ==
  /\ Loadable(policy) /\ DOMAIN policy.rules \subseteq Nat \ {0}
  /\ cluster \in ClusterStates
  /\ labels \in Labels

\* What starts is typed.
LEMMA TypedInitially == Init => Typed
<1> SUFFICES ASSUME Init PROVE Typed
  OBVIOUS
<1>1. policy.rules \in Seq([name : STRING, when : STRING, then : STRING])
  BY MeasureAssumption DEF Init
<1>2. DOMAIN policy.rules \subseteq Nat \ {0}
  BY <1>1
<1>3. QED
  BY <1>2, MeasureAssumption DEF Init, Typed, Labels

\* A step of the engine reads, computes, and leaves alone what the gate keeps.
Engine == \/ Classify \/ ReadBefore \/ DryRun \/ ScaleDown \/ Relabel \/ Score \/ Disrupt
          \/ Finish \/ ReadLabels

\* A step of the engine leaves the gate's state alone.
LEMMA EngineStep ==
  ASSUME Typed, Engine
  PROVE  /\ UNCHANGED <<policy, cluster, act, v, again, trail, sent>>
         /\ labels' \in Labels
         /\ pc \in Assessing /\ pc' \in Assessing
<1> USE DEF Assessing
<1>0. labels \in Labels /\ Unknown \in Labels /\ cluster.env \in Labels
  BY DEF Typed, Labels, ClusterStates
<1>1. CASE Classify
  BY <1>0, <1>1 DEF Classify, Scored, Assess
<1>2. CASE ReadBefore
  BY <1>0, <1>2 DEF ReadBefore, Scored, Assess
<1>3. CASE DryRun
  BY <1>0, <1>3 DEF DryRun, DryRunStores, Scored, Assess
<1>4. CASE ScaleDown
  BY <1>0, <1>4 DEF ScaleDown, Scored, CutShort, Assess
<1>5. CASE Relabel
  BY <1>0, <1>5 DEF Relabel, Scored, Assess
<1>6. CASE Score
  BY <1>0, <1>6 DEF Score, Scored, Assess
<1>7. CASE Disrupt
  BY <1>0, <1>7 DEF Disrupt, Scored, CutShort, Assess
<1>8. CASE Finish
  BY <1>0, <1>8 DEF Finish
<1>9. CASE ReadLabels
  BY <1>0, <1>9 DEF ReadLabels
<1>10. QED
  BY <1>1, <1>2, <1>3, <1>4, <1>5, <1>6, <1>7, <1>8, <1>9 DEF Engine

\* What others change is a cluster.
LEMMA ChangesTyped ==
  ASSUME NEW c \in ClusterStates, NEW d \in Changes(c)
  PROVE  d \in ClusterStates
<1>1. /\ [c EXCEPT !.exists = ~c.exists] \in ClusterStates
      /\ [c EXCEPT !.hook = ~c.hook] \in ClusterStates
      /\ [c EXCEPT !.may = ~c.may] \in ClusterStates
  BY DEF ClusterStates
<1>2. \A l \in TemplateLabels : [c EXCEPT !.tmpl = l] \in ClusterStates /\ [c EXCEPT !.sel = l] \in ClusterStates
  BY DEF ClusterStates
<1>3. \A n \in 0 .. MaxReplicas : [c EXCEPT !.replicas = n] \in ClusterStates
                                 /\ [c EXCEPT !.stray = n] \in ClusterStates
                                 /\ [c EXCEPT !.pdb = n] \in ClusterStates
  BY DEF ClusterStates
<1>4. \A e \in Envs : [c EXCEPT !.env = e] \in ClusterStates
  BY DEF ClusterStates
<1> QED
  BY <1>1, <1>2, <1>3, <1>4 DEF Changes

\* Every step keeps the types the properties need.
LEMMA TypedStep == Typed /\ [Next]_vars => Typed'
<1> SUFFICES ASSUME Typed, [Next]_vars PROVE Typed'
  OBVIOUS
<1>0. Unknown \in Labels
  BY DEF Labels
<1>1. CASE Engine
  BY <1>1, EngineStep DEF Typed
<1>2. CASE Move
  BY <1>2, ChangesTyped DEF Move, Typed
<1>3. CASE Arrive
  BY <1>3 DEF Arrive, Typed
<1>4. CASE Evaluated
  BY <1>0, <1>4 DEF Evaluated, Typed, Forget
<1>5. CASE Verified \/ NotApproved
  BY <1>0, <1>5 DEF Verified, NotApproved, Typed, Forget
<1>6. CASE Approved
  BY <1>6 DEF Approved, Typed
<1>7. CASE LeavesInRecheck
  BY <1>0, <1>7 DEF LeavesInRecheck, Typed, Forget
<1>8. CASE Rechecked
  BY <1>0, <1>8 DEF Rechecked, Typed, Forget
<1>9. CASE UNCHANGED vars
  BY <1>9 DEF vars, Typed
<1>10. QED
  BY <1>1, <1>2, <1>3, <1>4, <1>5, <1>6, <1>7, <1>8, <1>9 DEF Next, Engine

-----------------------------------------------------------------------------
(* The trail replays *)

\* A row the replay agrees with, or one of a write measured again.
Replays(row) ==
  row.scored => \/ Replayed(policy, row) = row.decision
                \/ row.how = "again" /\ row.decision = "hold" /\ Replayed(policy, row) = "allow"
                \/ row.how = "cut" /\ row.decision = "hold"

\* What waits, or is being measured again, was held on what it was measured.
ReplayInv ==
  /\ \A row \in trail : Replays(row)
  /\ pc = "held" \/ (again /\ pc # "done") =>
       /\ v.labels \in Labels
       /\ v.decision = "hold"
       /\ Evaluate(policy, act.op, v.imp, v.labels, Nowhere).decision = "hold"
       /\ v = [imp |-> v.imp, labels |-> v.labels, decision |-> v.decision, rule |-> v.rule]

\* The row of a verdict says what the verdict was.
LEMMA RowReplays ==
  ASSUME NEW w, NEW how, w.labels \in Labels
  PROVE  /\ Replayed(policy, Row(w, how)) = Evaluate(policy, act.op, w.imp, w.labels, Nowhere).decision
         /\ Row(w, how).decision = w.decision /\ Row(w, how).how = how
<1>1. Decode(Encode(w.labels)) = w.labels
  BY LabelsSurvive
<1>2. QED
  BY <1>1 DEF Row, Replayed

\* Every step keeps rows that replay.
LEMMA ReplayStep == Typed /\ ReplayInv /\ [Next]_vars => ReplayInv'
<1> SUFFICES ASSUME Typed, ReplayInv, [Next]_vars PROVE ReplayInv'
  OBVIOUS
<1> USE DEF ReplayInv
<1>0. ASSUME policy' = policy, act' = act, NEW w, NEW how, w.labels \in Labels,
             trail' \subseteq trail \cup {Row(w, how)}, pc' = "done",
             \/ Evaluate(policy, act.op, w.imp, w.labels, Nowhere).decision = w.decision
             \/ /\ how = "again" /\ w.decision = "hold"
                /\ Evaluate(policy, act.op, w.imp, w.labels, Nowhere).decision = "allow"
             \/ how = "cut" /\ w.decision = "hold"
      PROVE  ReplayInv'
  <2>1. Replays(Row(w, how))
    BY <1>0, RowReplays DEF Replays
  <2>2. \A row \in trail' : Replays(row)'
    BY <1>0, <2>1 DEF Replays, Replayed
  <2>3. QED
    BY <1>0, <2>2
<1>1. CASE Engine
  <2>1. UNCHANGED <<policy, cluster, act, v, again, trail, sent>> /\ pc # "done" /\ pc' # "held"
    BY <1>1, EngineStep DEF Assessing
  <2>2. QED
    BY <2>1 DEF Replays, Replayed
<1>2. CASE Move
  BY <1>2 DEF Move, Replays, Replayed
<1>3. CASE Arrive
  <2>1. CASE act.op = "unparseable"
    <3> DEFINE w == [imp |-> None, labels |-> Unknown, decision |-> "deny", rule |-> "unparseable"]
    <3>1. trail' \subseteq trail \cup {Row(w, "once")} /\ pc' = "done" /\ policy' = policy
      BY <1>3, <2>1 DEF Arrive, Decide
    <3>2. Row(w, "once").scored = FALSE
      BY DEF Row
    <3>3. QED
      BY <3>1, <3>2 DEF Replays, Replayed
  <2>2. CASE act.op # "unparseable"
    <3>1. UNCHANGED <<policy, act, trail>> /\ pc = "arrive"
      BY <1>3, <2>2 DEF Arrive
    <3>2. pc' = "done" \/ (pc' = "assess" /\ UNCHANGED <<v, again>>)
      BY <1>3, <2>2 DEF Arrive
    <3>3. QED
      BY <3>1, <3>2 DEF Replays, Replayed
  <2>3. QED
    BY <2>1, <2>2
<1>4. CASE Evaluated
  <2>0. labels \in Labels /\ policy' = policy /\ act' = act
    BY <1>4 DEF Evaluated, Typed
  <2>1. PICK cut : EvaluatedUnder(cut)
    BY <1>4 DEF Evaluated
  <2> DEFINE pv  == Evaluate(policy, act.op, i, labels, cut)
             w   == [imp |-> i, labels |-> labels, decision |-> pv.decision, rule |-> pv.rule]
             how == IF cut = Nowhere THEN "once" ELSE "cut"
  <2>2. CASE pv.decision = "hold" /\ cut = Nowhere
    <3>1. v' = w /\ UNCHANGED trail /\ pc' = "held"
      BY <2>1, <2>2 DEF EvaluatedUnder
    <3>2. QED
      BY <2>0, <2>2, <3>1 DEF Replays, Replayed
  <2>3. CASE ~(pv.decision = "hold" /\ cut = Nowhere)
    <3>1. trail' \subseteq trail \cup {Row(w, how)} /\ pc' = "done"
      BY <2>1, <2>3 DEF EvaluatedUnder, Decide
    <3>2. w.labels = labels /\ w.imp = i /\ w.decision = pv.decision
      OBVIOUS
    <3>3. \/ pv.decision = "hold"
          \/ pv = Evaluate(policy, act.op, i, labels, Nowhere)
      BY InterruptedHolds DEF Typed
    <3>4. pv.decision = "hold" => how = "cut"
      BY <2>3
    <3> HIDE DEF w, pv, how
    <3>5. QED
      BY <1>0, <2>0, <3>1, <3>2, <3>3, <3>4
  <2>4. QED
    BY <2>2, <2>3
<1>5. CASE Verified \/ NotApproved
  <2>1. /\ policy' = policy /\ act' = act /\ pc = "held"
        /\ trail' \subseteq trail \cup {Row(v, "once")} /\ pc' = "done"
    BY <1>5 DEF Verified, NotApproved, Decide
  <2>2. QED
    BY <1>0, <2>1
<1>6. CASE Approved
  BY <1>6 DEF Approved, Replays, Replayed
<1>7. CASE LeavesInRecheck
  <2>1. /\ policy' = policy /\ act' = act /\ again /\ pc # "done"
        /\ trail' \subseteq trail \cup {Row(v, "once")} /\ pc' = "done"
    BY <1>7 DEF LeavesInRecheck, Decide, Assessing
  <2>2. QED
    BY <1>0, <2>1
<1>8. CASE Rechecked
  <2>0. /\ labels \in Labels /\ policy' = policy /\ act' = act
        /\ pc = "evaluate" /\ again
    BY <1>8 DEF Rechecked, Typed
  <2>1. PICK cut : RecheckedUnder(cut)
    BY <1>8 DEF Rechecked
  <2> DEFINE pv  == Evaluate(policy, act.op, i, labels, cut)
             w   == [v EXCEPT !.imp = i, !.labels = labels, !.rule = IF pv.decision = "allow" THEN @ ELSE pv.rule]
             d   == [w EXCEPT !.decision = "deny"]
             how == IF cut = Nowhere THEN "again" ELSE "cut"
  <2>2. /\ w.imp = i /\ w.labels = labels /\ w.decision = "hold"
        /\ d.imp = i /\ d.labels = labels /\ d.decision = "deny"
    BY <2>0
  <2>3. pv.decision \in {"allow", "hold", "deny"}
    BY EvaluateDecides DEF Typed, Decisions
  <2>4. \/ pv.decision = "hold"
        \/ pv = Evaluate(policy, act.op, i, labels, Nowhere)
    BY InterruptedHolds DEF Typed
  <2>5. how \in {"again", "cut"} /\ (how = "again" => cut = Nowhere)
    OBVIOUS
  <2>6. CASE pv.decision = "deny"
    <3>1. trail' \subseteq trail \cup {Row(d, how)} /\ pc' = "done"
      BY <2>1, <2>6 DEF RecheckedUnder, Decide
    <3> HIDE DEF w, d, pv, how
    <3>2. QED
      BY <1>0, <2>0, <2>2, <2>4, <2>6, <3>1
  <2>7. CASE pv.decision # "deny"
    <3>1. trail' \subseteq trail \cup {Row(w, how)} /\ pc' = "done"
      BY <2>1, <2>7 DEF RecheckedUnder, Decide
    <3>2. how = "again" => Evaluate(policy, act.op, i, labels, Nowhere) = pv
      BY <2>5
    <3> HIDE DEF w, d, pv, how
    <3>3. QED
      BY <1>0, <2>0, <2>2, <2>3, <2>5, <2>7, <3>1, <3>2
  <2>8. QED
    BY <2>6, <2>7
<1>9. CASE UNCHANGED vars
  BY <1>9 DEF vars, Replays, Replayed
<1>10. QED
  BY <1>1, <1>2, <1>3, <1>4, <1>5, <1>6, <1>7, <1>8, <1>9 DEF Next, Engine

\* For every policy, replaying the audit trail under the policy it was written
\* under reports no change, except of a write measured again for its approval,
\* and there only that the hold was not needed.
THEOREM TrailReplaysHolds == Spec => []TrailReplays
<1>1. Init => Typed /\ ReplayInv
  BY TypedInitially DEF Init, ReplayInv
<1>2. Typed /\ ReplayInv /\ [Next]_vars => Typed' /\ ReplayInv'
  BY TypedStep, ReplayStep
<1>3. Typed /\ ReplayInv => TrailReplays
  BY DEF ReplayInv, TrailReplays, Replays, Changed
<1>4. QED
  BY <1>1, <1>2, <1>3, PTL DEF Spec

-----------------------------------------------------------------------------
(* Nothing goes out unmeasured *)

\* NeverAllowedUnmeasured, and that nothing is sent before Decide has ended.
UnmeasuredInv == NeverAllowedUnmeasured /\ (pc # "done" => ~sent)

\* Every step keeps what is sent measured.
LEMMA UnmeasuredStep == Typed /\ ReplayInv /\ UnmeasuredInv /\ [Next]_vars => UnmeasuredInv'
<1> SUFFICES ASSUME Typed, ReplayInv, UnmeasuredInv, [Next]_vars PROVE UnmeasuredInv'
  OBVIOUS
<1> USE DEF UnmeasuredInv, NeverAllowedUnmeasured
<1>1. CASE Engine
  BY <1>1, EngineStep DEF Assessing
<1>2. CASE Move
  BY <1>2 DEF Move
<1>3. CASE Arrive
  <2>1. CASE act.op = "read"
    <3>1. v'.imp = Impact("READ") /\ v'.decision = "allow" /\ pc' = "done"
      BY <1>3, <2>1 DEF Arrive
    <3>2. Impact("READ").measured = TRUE
      BY DEF Impact
    <3>3. v'.imp.measured
      BY <3>1, <3>2
    <3>4. QED
      BY <3>1, <3>3
  <2>2. CASE act.op = "unparseable"
    <3>1. sent' = FALSE
      BY <1>3, <2>2 DEF Arrive, Decide
    <3>2. QED
      BY <3>1
  <2>3. CASE act.op \notin {"read", "unparseable"}
    <3>1. pc' = "assess" /\ UNCHANGED <<v, sent, again>> /\ pc = "arrive"
      BY <1>3, <2>3 DEF Arrive
    <3>2. QED
      BY <3>1
  <2>4. QED
    BY <2>1, <2>2, <2>3
<1>4. CASE Evaluated
  <2>1. PICK cut : EvaluatedUnder(cut)
    BY <1>4 DEF Evaluated
  <2> DEFINE pv  == Evaluate(policy, act.op, i, labels, cut)
             w   == [imp |-> i, labels |-> labels, decision |-> pv.decision, rule |-> pv.rule]
             may == pv.decision = "allow" /\ cut = Nowhere
  <2>2. CASE pv.decision = "hold" /\ cut = Nowhere
    <3>1. UNCHANGED sent /\ pc # "done" /\ pc' = "held"
      BY <1>4, <2>1, <2>2 DEF Evaluated, EvaluatedUnder
    <3>2. QED
      BY <3>1
  <2>3. CASE ~(pv.decision = "hold" /\ cut = Nowhere)
    <3>1. v' = w /\ sent' \in {FALSE, may} /\ pc' = "done"
      BY <2>1, <2>3 DEF EvaluatedUnder, Decide
    <3>2. pv.decision = "allow" => i.measured
      BY AllowedWasMeasured DEF Typed
    <3>3. w.decision = pv.decision /\ w.imp = i
      OBVIOUS
    <3>4. may \in BOOLEAN /\ (may => pv.decision = "allow")
      OBVIOUS
    <3> HIDE DEF w, pv, may
    <3>5. v'.decision = pv.decision /\ v'.imp.measured = i.measured
      BY <3>1, <3>3
    <3>6. sent' => pv.decision = "allow"
      BY <3>1, <3>4
    <3>7. sent' => v'.decision # "deny"
      BY <3>5, <3>6
    <3>8. v'.decision = "allow" => v'.imp.measured
      BY <3>2, <3>5, Zenon
    <3>9. QED
      BY <3>1, <3>7, <3>8, Zenon
  <2>4. QED
    BY <2>2, <2>3
<1>5. CASE Verified \/ NotApproved
  <2>1. again' = again /\ v' = v /\ pc = "held" /\ pc' = "done"
    BY <1>5 DEF Verified, NotApproved, Decide
  <2>2. v.decision = "hold"
    BY <2>1 DEF ReplayInv
  <2>3. QED
    BY <2>1, <2>2
<1>6. CASE Approved
  BY <1>6 DEF Approved
<1>7. CASE LeavesInRecheck
  BY <1>7 DEF LeavesInRecheck, Decide
<1>8. CASE Rechecked
  <2>1. PICK cut : RecheckedUnder(cut)
    BY <1>8 DEF Rechecked
  <2> DEFINE pv  == Evaluate(policy, act.op, i, labels, cut)
             w   == [v EXCEPT !.imp = i, !.labels = labels, !.rule = IF pv.decision = "allow" THEN @ ELSE pv.rule]
             d   == [w EXCEPT !.decision = "deny"]
             how == IF cut = Nowhere THEN "again" ELSE "cut"
  <2>2. CASE pv.decision = "deny"
    <3>1. sent' = FALSE /\ pc' = "done"
      BY <2>1, <2>2 DEF RecheckedUnder, Decide
    <3>2. QED
      BY <3>1
  <2>3. CASE pv.decision # "deny"
    <3>1. v' = w /\ pc' = "done"
      BY <2>1, <2>3 DEF RecheckedUnder, Decide
    <3>2. pc = "evaluate" /\ again
      BY <1>8 DEF Rechecked
    <3>3. w.decision = "hold"
      BY <3>2 DEF ReplayInv
    <3> HIDE DEF w
    <3>4. QED
      BY <3>1, <3>3
  <2>4. QED
    BY <2>2, <2>3
<1>9. CASE UNCHANGED vars
  BY <1>9 DEF vars
<1>10. QED
  BY <1>1, <1>2, <1>3, <1>4, <1>5, <1>6, <1>7, <1>8, <1>9 DEF Next, Engine

\* Under any policy that loads, whatever its rules answer, a write is forwarded
\* without a person's yes only if it was measured, and never on a measurement
\* policy denies: Load's refusal of unmeasured: allow and Evaluate's downgrade
\* leave no third way, and an approval does not override recheck's deny.
THEOREM NeverAllowedUnmeasuredHolds == Spec => []NeverAllowedUnmeasured
<1>1. Init => Typed /\ ReplayInv /\ UnmeasuredInv
  BY TypedInitially DEF Init, ReplayInv, UnmeasuredInv, NeverAllowedUnmeasured
<1>2. Typed /\ ReplayInv /\ UnmeasuredInv /\ [Next]_vars => Typed' /\ ReplayInv' /\ UnmeasuredInv'
  BY TypedStep, ReplayStep, UnmeasuredStep
<1>3. Typed /\ ReplayInv /\ UnmeasuredInv => NeverAllowedUnmeasured
  BY DEF UnmeasuredInv
<1>4. QED
  BY <1>1, <1>2, <1>3, PTL DEF Spec
-----------------------------------------------------------------------------
(* What is measured is what the write does *)

\* The live object, and the dry-run's answer, of a cluster that keeps still.
Before == IF cluster.exists /\ act.op # "create" THEN Object(cluster, act.on, cluster.replicas) ELSE None
After == Object(Stored(cluster, act), act.on,
                IF act.on = "custom" THEN act.replicas ELSE Stored(cluster, act).replicas)

\* An impact that is honest about the write, and one that is so about the
\* replicas the write takes away.
Tells(imp) == imp.measured => Harms \subseteq Told(imp) \cup Overlooked(imp)
TellsOfReplicas(imp) ==
  LET c == Stored(cluster, act) IN
    /\ Backends(cluster, cluster.sel) > 0 /\ Fewer(c.replicas, cluster.stray) = 0 => imp.left = 0
    /\ Pods(c) < Pods(cluster) /\ Pods(c) < c.pdb => imp.pdb

\* An object that is no Scale shows its replicas.
Shown == act.on # "scale" => before.replicas # None

\* The engine's local variables have their types where it reads them.
LocalsTyped ==
  /\ pc \in {"before", "dryrun", "scale", "relabel"} => Mutates(act) /\ ~isAuthority(act)
  /\ pc \in {"score", "disrupt"} => act.op \in {"delete", "evict"}
  /\ pc \in {"scale", "relabel"} => before \in Objects /\ after \in Objects
  /\ pc \in {"dryrun", "scale", "relabel"} => before = None \/ Shown
  /\ pc = "before" => act.op # "create"
  /\ pc \in {"scale", "relabel", "disrupt", "budget", "late", "labels", "evaluate"} => i \in Impacts
  /\ pc = "held" \/ again => v \in Verdicts
  /\ pc = "arrive" => ~again
  /\ pc \in {"arrive", "assess", "held"} => before = None

\* What each stage of a measurement during which nothing moved has found out.
FoundOut ==
  /\ pc = "dryrun" => before = Before
  /\ pc \in {"scale", "relabel"} =>
       /\ cluster.exists /\ cluster.may /\ act.op # "create"
       /\ before = Before /\ after = After
  /\ pc = "scale" => i = Impact("REVERSIBLE")
  /\ pc = "relabel" => TellsOfReplicas(i)
  /\ pc = "disrupt" => i.data = (act.on = "claim")
  /\ pc \in {"budget", "labels", "evaluate"} => Tells(i)
  /\ pc = "evaluate" => labels \in {cluster.env, Unknown}
  /\ pc = "held" => Tells(v.imp)
  /\ sent => Tells(v.imp)

EngineInv ==
  /\ MeasureTypeOK
  /\ act.op = "evict" => act.on = "pods"
  /\ LocalsTyped
  /\ pc # "done" => ~sent
  /\ steady => FoundOut

\* The API server stores clusters.
LEMMA StoredTyped ==
  ASSUME NEW c \in ClusterStates, NEW a \in Requests
  PROVE  Stored(c, a) \in ClusterStates
<1>1. /\ MaxReplicas \in Nat \ {0} /\ c.replicas \in 0 .. MaxReplicas /\ c.stray \in 0 .. MaxReplicas
      /\ c.exists \in BOOLEAN /\ a.replicas \in 0 .. MaxReplicas \cup {None} /\ a.label \in TemplateLabels
  BY MeasureAssumption DEF ClusterStates, Requests
<1>2. Fewer(c.replicas, 1) \in 0 .. MaxReplicas
  BY <1>1 DEF Fewer
<1>3. \A n \in 0 .. MaxReplicas : [c EXCEPT !.replicas = n] \in ClusterStates
  BY DEF ClusterStates
<1>4. \A n \in 0 .. MaxReplicas, l \in TemplateLabels, m \in 0 .. MaxReplicas :
        [c EXCEPT !.replicas = n, !.tmpl = l, !.stray = m] \in ClusterStates
  BY DEF ClusterStates
<1>5. \A l \in TemplateLabels : [c EXCEPT !.sel = l] \in ClusterStates
  BY DEF ClusterStates
<1>6. \A m \in 0 .. MaxReplicas : [c EXCEPT !.stray = m] \in ClusterStates
  BY DEF ClusterStates
<1>7. CASE a.on \in {"scale", "custom"} /\ a.op \in {"update", "patch"}
  <2>1. (IF a.replicas = None THEN 0 ELSE a.replicas) \in 0 .. MaxReplicas
    BY <1>1
  <2>2. Stored(c, a) = [c EXCEPT !.replicas = IF a.replicas = None THEN 0 ELSE a.replicas]
    BY <1>7 DEF Stored
  <2> QED
    BY <1>3, <2>1, <2>2
<1>8. CASE a.on = "workload" /\ a.op \in {"update", "patch"}
  <2> DEFINE n == IF a.replicas = None THEN 1 ELSE a.replicas
             m == IF a.label = c.tmpl THEN c.stray ELSE 0
  <2>1. n \in 0 .. MaxReplicas /\ m \in 0 .. MaxReplicas
    BY <1>1
  <2>2. Stored(c, a) = [c EXCEPT !.replicas = n, !.tmpl = a.label, !.stray = m]
    BY <1>8 DEF Stored, ClusterStates
  <2> HIDE DEF n, m
  <2>3. [c EXCEPT !.replicas = n, !.tmpl = a.label, !.stray = m] \in ClusterStates
    BY <1>1, <1>4, <2>1
  <2> QED
    BY <2>2, <2>3
<1>9. CASE a.on = "service" /\ a.op \in {"update", "patch"}
  BY <1>1, <1>5, <1>9 DEF Stored
<1>10. CASE a.on = "pods" /\ a.op \in {"update", "patch"}
  <2> DEFINE m == IF a.label # c.tmpl /\ c.stray < Pods(c) THEN c.stray + 1 ELSE c.stray
  <2>1. Pods(c) \in 0 .. MaxReplicas
    BY <1>1 DEF Pods
  <2>2. m \in 0 .. MaxReplicas
    BY <1>1, <2>1
  <2>3. Stored(c, a) = [c EXCEPT !.stray = m]
    BY <1>10 DEF Stored
  <2> HIDE DEF m
  <2> QED
    BY <1>6, <2>2, <2>3
<1>11. CASE ~(a.op \in {"update", "patch"})
  BY <1>1, <1>2, <1>3, <1>11 DEF Stored
<1>12. CASE a.op \in {"update", "patch"} /\ ~(a.on \in {"scale", "custom", "workload", "service", "pods"})
  BY <1>12 DEF Stored
<1> QED
  BY <1>7, <1>8, <1>9, <1>10, <1>11, <1>12

\* An object is one, and shows its replicas unless it is a Scale of none.
LEMMA ObjectTyped ==
  ASSUME NEW c \in ClusterStates, NEW on, NEW n \in 0 .. MaxReplicas \cup {None}
  PROVE  /\ Object(c, on, n) \in Objects
         /\ on # "scale" => Object(c, on, n).replicas = n
         /\ Object(c, on, n).tmpl = c.tmpl /\ Object(c, on, n).sel = c.sel
         /\ on = "scale" => Object(c, on, n).replicas = IF n = 0 THEN None ELSE n
BY DEF Object, Objects, ClusterStates

\* The impacts the engine starts from.
LEMMA ImpactTyped ==
  /\ \A class \in Classes : Impact(class) \in Impacts /\ Impact(class).measured
  /\ Unmeasured \in Impacts /\ ~Unmeasured.measured
<1>1. << >> \in Seq(Nat)
  OBVIOUS
<1>2. \A class \in Classes : Impact(class) \in Impacts /\ Impact(class).measured
  BY <1>1 DEF Impact, Impacts
<1>3. "TERMINAL" \in Classes
  BY DEF Classes
<1> QED
  BY <1>1, <1>2, <1>3 DEF Unmeasured, Impact, Impacts

\* A service left with n pods is told of as that, or as worse.
LEMMA EndpointsTyped ==
  ASSUME NEW imp \in Impacts, NEW n \in 0 .. MaxReplicas
  PROVE  /\ setEndpoints(imp, n) \in Impacts
         /\ n = 0 \/ imp.left = 0 => setEndpoints(imp, n).left = 0
         /\ \A f \in {"class", "measured", "data", "pdb"} : setEndpoints(imp, n)[f] = imp[f]
<1>1. imp.left \in 0 .. MaxReplicas \cup {None} /\ None \notin 0 .. MaxReplicas /\ MaxReplicas \in Nat
  BY MeasureAssumption DEF Impacts
<1>2. (IF imp.left # None /\ imp.left < n THEN imp.left ELSE n) \in 0 .. MaxReplicas
  BY <1>1
<1>3. setEndpoints(imp, n).left = IF imp.left # None /\ imp.left < n THEN imp.left ELSE n
  BY DEF setEndpoints, Impacts
<1>4. n = 0 \/ imp.left = 0 => setEndpoints(imp, n).left = 0
  BY <1>1, <1>3
<1>5. setEndpoints(imp, n) \in Impacts
  BY <1>2 DEF setEndpoints, Impacts
<1>6. \A f \in {"class", "measured", "data", "pdb"} : setEndpoints(imp, n)[f] = imp[f]
  BY DEF setEndpoints, Impacts
<1> QED
  BY <1>4, <1>5, <1>6

\* A Service has as many backends as there may be pods.
LEMMA BackendsTyped ==
  ASSUME NEW c \in ClusterStates, NEW sel
  PROVE  Backends(c, sel) \in 0 .. MaxReplicas
<1>1. Pods(c) \in 0 .. MaxReplicas /\ MaxReplicas \in Nat /\ c.stray \in Nat
  BY MeasureAssumption DEF ClusterStates, Pods
<1> QED
  BY <1>1 DEF Backends, Fewer

\* Removing k pods tells of the service that leaves empty and of the budget.
LEMMA DisruptedTells ==
  ASSUME NEW imp \in Impacts, NEW k \in Nat, cluster \in ClusterStates
  PROVE  /\ Disrupted(imp, k) \in Impacts
         /\ \A f \in {"class", "measured", "data"} : Disrupted(imp, k)[f] = imp[f]
         /\ Disrupted(imp, k).pdb = (Fewer(Pods(cluster), k) < cluster.pdb)
         /\ Backends(cluster, cluster.sel) > 0 /\ Fewer(Backends(cluster, cluster.sel), k) = 0
              => Disrupted(imp, k).left = 0
<1> DEFINE bs   == Backends(cluster, cluster.sel)
           left == Fewer(bs, k)
           told == IF bs = 0 THEN imp ELSE setEndpoints(imp, left)
           bad  == Fewer(Pods(cluster), k) < cluster.pdb
<1>1. bs \in 0 .. MaxReplicas /\ MaxReplicas \in Nat
  BY BackendsTyped, MeasureAssumption
<1>2. left \in 0 .. MaxReplicas
  BY <1>1 DEF Fewer
<1>3. told \in Impacts /\ \A f \in {"class", "measured", "data"} : told[f] = imp[f]
  BY <1>2, EndpointsTyped
<1>4. bs > 0 /\ left = 0 => told.left = 0
  BY <1>1, <1>2, EndpointsTyped
<1>5. Disrupted(imp, k) = [told EXCEPT !.pdb = bad]
  BY DEF Disrupted
<1>6. bad \in BOOLEAN
  BY DEF Fewer, Pods
<1> HIDE DEF told, bad, left, bs
<1>7. [told EXCEPT !.pdb = bad] \in Impacts
  BY <1>3, <1>6 DEF Impacts
<1>8. /\ [told EXCEPT !.pdb = bad].pdb = bad
      /\ \A f \in {"class", "measured", "data", "left"} : [told EXCEPT !.pdb = bad][f] = told[f]
  BY <1>3 DEF Impacts
<1> QED
  BY <1>3, <1>4, <1>5, <1>7, <1>8 DEF bad, left, bs

\* A write's harm is that of a request and a cluster.
LEMMA HarmsStay == UNCHANGED <<cluster, act>> => Harms' = Harms
BY DEF Harms

\* A stage of Assess leaves the gate's state alone.
LEMMA Stage ==
  ASSUME EngineInv, NEW next \in Assessing \ {"assess"}, pc \in Assessing, Assess(next),
         before' \in Objects \cup {None}, after' \in Objects \cup {None}, i' \in Impacts \cup {None},
         next \in {"before", "dryrun", "scale", "relabel"} => Mutates(act) /\ ~isAuthority(act),
         next \in {"score", "disrupt"} => act.op \in {"delete", "evict"},
         next \in {"scale", "relabel"} => before' \in Objects /\ after' \in Objects,
         next \in {"dryrun", "scale", "relabel"} => before' = None \/ Shown',
         next = "before" => act.op # "create",
         next \in {"scale", "relabel", "disrupt", "budget", "late", "labels", "evaluate"} => i' \in Impacts,
         steady => FoundOut'
  PROVE  EngineInv'
<1>1. next \notin {"arrive", "held", "done"} /\ pc \notin {"arrive", "held", "done"} /\ pc' = next
  BY DEF Assessing, Assess
<1>2. MeasureTypeOK'
  BY <1>1 DEF EngineInv, MeasureTypeOK, Assess
<1>3. LocalsTyped'
  BY <1>1 DEF EngineInv, LocalsTyped, Assess, Mutates, isAuthority
<1> QED
  BY <1>1, <1>2, <1>3 DEF EngineInv, Assess

\* Scoring an honest impact.
LEMMA ScoredStep ==
  ASSUME EngineInv, pc \in Assessing, NEW imp \in Impacts, Scored(imp), steady => Tells(imp)
  PROVE  EngineInv'
<1>1. "budget" \in Assessing /\ i' = imp /\ Assess("budget") /\ UNCHANGED <<before, after, cluster, act, sent, v, again>>
      /\ pc' = "budget"
  BY DEF Scored, Assess, Assessing
<1>2. before' \in Objects \cup {None} /\ after' \in Objects \cup {None}
  BY <1>1 DEF EngineInv, MeasureTypeOK
<1>3. ~sent
  BY DEF EngineInv, Assessing
<1>4. steady => FoundOut'
  BY <1>1, <1>3, HarmsStay DEF FoundOut, Tells, Overlooked
<1> QED
  BY <1>1, <1>2, <1>4, Stage

\* A measurement cut short promises nothing.
LEMMA CutShortStep ==
  ASSUME EngineInv, pc \in Assessing, NEW imp \in Impacts, CutShort(imp)
  PROVE  EngineInv'
<1>1. "late" \in Assessing /\ i' = imp /\ Assess("late") /\ UNCHANGED <<before, after, sent>> /\ pc' = "late"
  BY DEF CutShort, Assess, Assessing
<1>2. before' \in Objects \cup {None} /\ after' \in Objects \cup {None} /\ ~sent
  BY <1>1 DEF EngineInv, MeasureTypeOK, Assessing
<1>3. FoundOut'
  BY <1>1, <1>2 DEF FoundOut
<1> QED
  BY <1>1, <1>2, <1>3, Stage

\* What is not measured tells nothing false.
LEMMA UnmeasuredTells ==
  ASSUME NEW imp, ~imp.measured
  PROVE  Tells(imp)
BY DEF Tells

\* Classify: what is measured without a read harms nothing or is a grant.
LEMMA ClassifyStep ==
  ASSUME EngineInv, Classify
  PROVE  EngineInv'
<1>0. pc = "assess" /\ pc \in Assessing
  BY DEF Classify, Assessing
<1>1. CASE act.op \in {"proxy", "other"} /\ Scored(Unmeasured)
  BY <1>0, <1>1, ScoredStep, ImpactTyped, UnmeasuredTells
<1>2. CASE act.op \in {"exec", "debug"} /\ Scored([Unmeasured EXCEPT !.sql = act.sql])
  <2>1. act.sql \in BOOLEAN
    BY DEF EngineInv, MeasureTypeOK, Requests
  <2> DEFINE imp == [Unmeasured EXCEPT !.sql = act.sql]
  <2>2. imp \in Impacts /\ ~imp.measured
    BY <2>1, ImpactTyped DEF Impacts
  <2> HIDE DEF imp
  <2>3. Scored(imp)
    BY <1>2 DEF imp
  <2> QED
    BY <1>0, <2>2, <2>3, ScoredStep, UnmeasuredTells
<1>3. CASE act.op = "selfreview" /\ Scored(Impact("READ"))
  <2>1. Impact("READ") \in Impacts
    BY ImpactTyped DEF Classes
  <2>2. Stored(cluster, act) = cluster
    <3>1. act.op = "selfreview"
      BY <1>3
    <3> QED
      BY <3>1 DEF Stored
  <2>3. Harms = {}
    <3>1. cluster.replicas \in Nat
      BY DEF EngineInv, MeasureTypeOK, ClusterStates
    <3> QED
      BY <1>3, <2>2, <3>1 DEF Harms, Mutates, Backends, Pods
  <2> QED
    BY <1>0, <1>3, <2>1, <2>3, ScoredStep DEF Tells
<1>4. CASE act.op \in {"delete", "evict"} /\ Assess("score") /\ UNCHANGED <<before, after, i>>
  <2>1. "score" \in Assessing /\ pc' = "score" /\ sent' = FALSE
    BY <1>0, <1>4 DEF Assess, Assessing, EngineInv
  <2>2. steady => FoundOut'
    BY <2>1 DEF FoundOut
  <2>3. before' \in Objects \cup {None} /\ after' \in Objects \cup {None} /\ i' \in Impacts \cup {None}
    BY <1>4 DEF EngineInv, MeasureTypeOK
  <2> QED
    BY <1>0, <1>4, <2>1, <2>2, <2>3, Stage
<1>5. CASE Mutates(act) /\ isAuthority(act) /\ Scored(authorityImpact(act))
  <2> DEFINE imp == authorityImpact(act)
  <2>1. imp \in Impacts /\ imp.class = "AUTHORITY"
    <3>1. "AUTHORITY" \in Classes
      BY DEF Classes
    <3>2. [Unmeasured EXCEPT !.class = "AUTHORITY"] \in Impacts
          /\ [Unmeasured EXCEPT !.class = "AUTHORITY"].class = "AUTHORITY"
      BY <3>1, ImpactTyped DEF Impacts
    <3>3. Impact("AUTHORITY") \in Impacts /\ Impact("AUTHORITY").class = "AUTHORITY"
      BY <3>1, ImpactTyped DEF Impact
    <3> QED
      BY <3>2, <3>3 DEF authorityImpact
  <2> HIDE DEF imp
  <2>2. Stored(cluster, act) = cluster
    <3>1. act.op \in {"create", "update", "patch"} /\ act.on \in {"rbac", "token"}
      BY <1>5 DEF Mutates, isAuthority
    <3> QED
      BY <3>1 DEF Stored
  <2>3. Harms \subseteq {"authority"}
    <3>1. cluster.replicas \in Nat
      BY DEF EngineInv, MeasureTypeOK, ClusterStates
    <3> QED
      BY <1>5, <2>2, <3>1 DEF Harms, Mutates, Backends, Pods
  <2>4. Tells(imp)
    BY <2>1, <2>3 DEF Tells, Told
  <2>5. Scored(imp)
    BY <1>5 DEF imp
  <2> QED
    BY <1>0, <2>1, <2>4, <2>5, ScoredStep
<1>6. CASE Mutates(act) /\ ~isAuthority(act) /\ Scored(Unmeasured)
  BY <1>0, <1>6, ScoredStep, ImpactTyped, UnmeasuredTells
<1>7. ASSUME NEW next \in {"dryrun", "before"}, Mutates(act), ~isAuthority(act),
             next = IF act.op = "create" THEN "dryrun" ELSE "before",
             Assess(next), UNCHANGED <<before, after, i>>
      PROVE  EngineInv'
  <2>1. next \in Assessing /\ pc' = next /\ sent' = FALSE /\ UNCHANGED <<cluster, act>>
    BY <1>0, <1>7 DEF Assess, Assessing, EngineInv
  <2>2. next = "dryrun" => before = None
    <3>0. steady /\ next = "dryrun" => act.op = "create"
      BY <1>7
    <3> QED
      BY <1>0 DEF EngineInv, LocalsTyped
  <2>3. steady => FoundOut'
    BY <1>7, <2>1, <2>2 DEF FoundOut, Before
  <2>4. before' \in Objects \cup {None} /\ after' \in Objects \cup {None} /\ i' \in Impacts \cup {None}
    BY <1>7 DEF EngineInv, MeasureTypeOK
  <2>5. before' = None
    BY <1>0, <1>7 DEF EngineInv, LocalsTyped
  <2> QED
    BY <1>0, <1>7, <2>1, <2>3, <2>4, <2>5, Stage
<1>8. \/ act.op \in {"proxy", "other"} /\ Scored(Unmeasured)
      \/ act.op \in {"exec", "debug"} /\ Scored([Unmeasured EXCEPT !.sql = act.sql])
      \/ act.op = "selfreview" /\ Scored(Impact("READ"))
      \/ act.op \in {"delete", "evict"} /\ Assess("score") /\ UNCHANGED <<before, after, i>>
      \/ Mutates(act) /\ isAuthority(act) /\ Scored(authorityImpact(act))
      \/ Mutates(act) /\ ~isAuthority(act) /\ Scored(Unmeasured)
      \/ Mutates(act) /\ ~isAuthority(act) /\ UNCHANGED <<before, after, i>>
         /\ Assess(IF act.op = "create" THEN "dryrun" ELSE "before")
  BY DEF Classify
<1> QED
  BY <1>1, <1>2, <1>3, <1>4, <1>5, <1>6, <1>7, <1>8

\* The live object is read, and taken for a missing one only when it is.
LEMMA ReadBeforeStep ==
  ASSUME EngineInv, ReadBefore
  PROVE  EngineInv'
<1>0. pc = "before" /\ pc \in Assessing /\ Mutates(act) /\ ~isAuthority(act)
  BY DEF ReadBefore, Assessing, EngineInv, LocalsTyped
<1>1. CASE Scored(Unmeasured)
  BY <1>0, <1>1, ScoredStep, ImpactTyped, UnmeasuredTells
<1>2. CASE /\ before' = IF cluster.exists THEN Object(cluster, act.on, cluster.replicas) ELSE None
           /\ Assess("dryrun") /\ UNCHANGED <<after, i>>
  <2>1. cluster \in ClusterStates /\ cluster.replicas \in 0 .. MaxReplicas
    BY DEF EngineInv, MeasureTypeOK, ClusterStates
  <2>2. before' \in Objects \cup {None} /\ after' \in Objects \cup {None} /\ i' \in Impacts \cup {None}
    BY <1>2, <2>1, ObjectTyped DEF EngineInv, MeasureTypeOK
  <2>3. UNCHANGED <<cluster, act, sent>> /\ ~sent /\ pc' = "dryrun"
    BY <1>0, <1>2 DEF Assess, EngineInv
  <2>4. steady /\ act.op # "create" => FoundOut'
    BY <1>2, <2>3 DEF FoundOut, Before
  <2>5. act.op # "create"
    BY <1>0 DEF EngineInv, LocalsTyped
  <2>6. before' = None \/ Shown'
    <3>1. cluster.replicas # None
      BY <2>1, MeasureAssumption
    <3> QED
      BY <1>2, <2>1, <2>3, <3>1, ObjectTyped DEF Shown
  <2> QED
    BY <1>0, <1>2, <2>2, <2>3, <2>4, <2>5, <2>6, Stage DEF Assessing
<1> QED
  BY <1>1, <1>2 DEF ReadBefore

\* A write that is accepted takes pods away only where there is an object it
\* is not creating.
LEMMA HarmlessUnlessFound ==
  ASSUME EngineInv, Mutates(act), ~isAuthority(act), ~cluster.exists \/ act.op = "create" \/ ~cluster.may
  PROVE  Harms = {}
<1>1. cluster.replicas \in Nat
  BY DEF EngineInv, MeasureTypeOK, ClusterStates
<1>2. act.op \in {"create", "update", "patch"}
  BY DEF Mutates
<1>3. CASE act.op = "create"
  <2>1. Stored(cluster, act) = cluster
    BY <1>3 DEF Stored
  <2> QED
    BY <1>1, <1>2, <2>1 DEF Harms, isAuthority, Backends, Pods
<1>4. CASE ~cluster.exists
  <2>1. cluster \in ClusterStates /\ act \in Requests
    BY DEF EngineInv, MeasureTypeOK
  <2>2. Backends(cluster, cluster.sel) = 0 /\ Pods(cluster) = 0
    <3>1. cluster.stray \in Nat
      BY <2>1 DEF ClusterStates
    <3> QED
      BY <1>4, <3>1 DEF Backends, Pods, Fewer
  <2>3. Stored(cluster, act).exists = cluster.exists
    BY <2>1 DEF Stored, ClusterStates
  <2>4. Pods(Stored(cluster, act)) = 0
    BY <1>4, <2>3 DEF Pods
  <2> QED
    BY <1>2, <2>2, <2>4 DEF Harms, isAuthority
<1>5. CASE ~cluster.may
  BY <1>1, <1>2, <1>5 DEF Harms, isAuthority, Backends, Pods
<1> QED
  BY <1>3, <1>4, <1>5

\* The dry-run: a refusal that the write would meet too harms nothing, and so
\* does a write that finds nothing to change.
LEMMA DryRunStep ==
  ASSUME EngineInv, DryRun
  PROVE  EngineInv'
<1>0. pc = "dryrun" /\ pc \in Assessing /\ Mutates(act) /\ ~isAuthority(act)
  BY DEF DryRun, Assessing, EngineInv, LocalsTyped
<1>a. cluster \in ClusterStates /\ act \in Requests
  BY DEF EngineInv, MeasureTypeOK
<1>1. CASE Scored(Unmeasured)
  BY <1>0, <1>1, ScoredStep, ImpactTyped, UnmeasuredTells
<1>2. CASE Refuses(cluster, act) /\ Scored(Rejected)
  <2>1. Tells(Rejected)
    <3>1. CASE cluster.hook
      <4>1. Rejected.rejected = TRUE
        BY DEF Rejected, Impact
      <4> QED
        BY <3>1, <4>1 DEF Tells, Overlooked, Harms
    <3>2. CASE ~cluster.hook
      BY <1>0, <1>2, <3>2, HarmlessUnlessFound DEF Tells, Refuses
    <3> QED
      BY <3>1, <3>2
  <2>2. Rejected \in Impacts
    <3>1. Impact("READ") \in Impacts
      BY ImpactTyped DEF Classes
    <3> QED
      BY <3>1 DEF Impacts, Rejected
  <2> QED
    BY <1>0, <1>2, <2>1, <2>2, ScoredStep
<1>3. CASE /\ cluster.may /\ ~cluster.hook /\ (cluster.exists \/ act.op # "update")
           /\ after' = After
           /\ i' = Impact("REVERSIBLE")
           /\ Assess(IF before = None THEN "budget" ELSE "scale") /\ UNCHANGED before
  <2>1. i' \in Impacts
    BY <1>3, ImpactTyped DEF Classes
  <2>2. Stored(cluster, act).replicas \in 0 .. MaxReplicas /\ act.replicas \in 0 .. MaxReplicas \cup {None}
    BY <1>a, StoredTyped DEF ClusterStates, Requests
  <2>3. after' \in Objects
    BY <1>a, <1>3, <2>2, StoredTyped, ObjectTyped DEF After
  <2>4. before' \in Objects \cup {None}
    BY <1>3 DEF EngineInv, MeasureTypeOK
  <2>5. /\ UNCHANGED <<cluster, act, sent, v, again, steady>> /\ ~sent
        /\ pc' = IF before = None THEN "budget" ELSE "scale"
    BY <1>0, <1>3 DEF Assess, EngineInv
  <2>6. CASE before = None
    <3>1. steady => Harms = {}
      <4>1. steady => before = Before
        BY <1>0 DEF EngineInv, FoundOut
      <4>2. cluster.exists /\ act.op # "create" => Before \in Objects
        BY <1>a, ObjectTyped DEF Before, ClusterStates
      <4>3. None \notin Objects
        BY MeasureAssumption
      <4> QED
        BY <1>0, <2>6, <4>1, <4>2, <4>3, HarmlessUnlessFound
    <3>2. steady => FoundOut'
      BY <2>5, <2>6, <3>1, HarmsStay DEF FoundOut, Tells
    <3> QED
      BY <1>0, <1>3, <2>1, <2>3, <2>4, <2>6, <3>2, Stage DEF Assessing
  <2>7. CASE before # None
    <3>1. before \in Objects
      BY <2>7 DEF EngineInv, MeasureTypeOK
    <3>2. Shown'
      BY <1>0, <1>3, <2>5, <2>7 DEF EngineInv, LocalsTyped, Shown
    <3>3. steady => cluster.exists /\ act.op # "create" /\ before = Before
      BY <1>0, <2>7 DEF EngineInv, FoundOut, Before
    <3>4. steady => FoundOut'
      <4>1. After' = After /\ Before' = Before
        BY <2>5 DEF After, Before
      <4> QED
        BY <1>3, <2>5, <2>7, <3>3, <4>1 DEF FoundOut
    <3> QED
      BY <1>0, <1>3, <2>1, <2>3, <2>7, <3>1, <3>2, <3>4, Stage DEF Assessing
  <2> QED
    BY <2>6, <2>7
<1> QED
  BY <1>1, <1>2, <1>3 DEF DryRun, DryRunStores, After

\* What is stored for a change to replicas: the pods are as many as asked for.
LEMMA StoredReplicas ==
  ASSUME EngineInv, Mutates(act), ~isAuthority(act), cluster.exists, act.op # "create"
  PROVE  LET c == Stored(cluster, act) IN
         /\ c.replicas \in 0 .. MaxReplicas /\ c.exists /\ c.pdb = cluster.pdb
         /\ Pods(c) = c.replicas /\ Pods(cluster) = cluster.replicas
         /\ cluster.replicas \in 0 .. MaxReplicas
         /\ act.on # "workload" => c.tmpl = cluster.tmpl
         /\ act.on # "service" => c.sel = cluster.sel
         /\ act.on \notin {"workload", "scale", "custom"} => c.replicas = cluster.replicas
         /\ act.on = "custom" => c.replicas = IF act.replicas = None THEN 0 ELSE act.replicas
         /\ act.on # "pods" /\ c.tmpl = cluster.tmpl => c.stray = cluster.stray
<1>1. cluster \in ClusterStates /\ act \in Requests
  BY DEF EngineInv, MeasureTypeOK
<1>2. act.op \in {"update", "patch"}
  BY DEF Mutates
<1>3. Stored(cluster, act) \in ClusterStates
  BY <1>1, StoredTyped
<1>4. /\ Stored(cluster, act).exists = cluster.exists
      /\ Stored(cluster, act).pdb = cluster.pdb
      /\ act.on # "workload" => Stored(cluster, act).tmpl = cluster.tmpl
      /\ act.on # "service" => Stored(cluster, act).sel = cluster.sel
      /\ act.on \notin {"workload", "scale", "custom"} => Stored(cluster, act).replicas = cluster.replicas
      /\ act.on = "custom" => Stored(cluster, act).replicas = IF act.replicas = None THEN 0 ELSE act.replicas
  BY <1>1, <1>2 DEF Stored, ClusterStates
<1>5. act.on # "pods" /\ Stored(cluster, act).tmpl = cluster.tmpl => Stored(cluster, act).stray = cluster.stray
  BY <1>1, <1>2 DEF Stored, ClusterStates
<1> QED
  BY <1>1, <1>3, <1>4, <1>5 DEF ClusterStates, Pods

\* scaleDown: what it leaves out takes no pods away, and what it measures is
\* the pods the write takes away.
LEMMA ScaleDownStep ==
  ASSUME EngineInv, ScaleDown
  PROVE  EngineInv'
<1>0. /\ pc = "scale" /\ pc \in Assessing /\ Mutates(act) /\ ~isAuthority(act)
      /\ before \in Objects /\ after \in Objects /\ i \in Impacts /\ ~sent
  BY DEF ScaleDown, Assessing, EngineInv, LocalsTyped
<1>1. before = None \/ Shown
  BY <1>0 DEF EngineInv, LocalsTyped
<1>2. Shown
  BY <1>0, <1>1, MeasureAssumption
<1> DEFINE b == Replicas(before, act.on = "scale")
           n == Replicas(after, act.on = "scale")
           unchanged == act.on = "service" \/ (n # None /\ n >= b)
<1>3. b \in 0 .. MaxReplicas /\ n \in 0 .. MaxReplicas \cup {None}
  BY <1>0, <1>2, MeasureAssumption DEF Replicas, Shown, Objects
<1>a. cluster \in ClusterStates /\ act \in Requests /\ MaxReplicas \in Nat /\ None \notin 0 .. MaxReplicas
  BY MeasureAssumption DEF EngineInv, MeasureTypeOK
<1> DEFINE c == Stored(cluster, act)
\* In a cluster that kept still b is its replicas, and n those it will have,
\* unless they cannot be read.
<1>4. steady => /\ cluster.exists /\ act.op # "create" /\ before = Before /\ after = After
                /\ i = Impact("REVERSIBLE")
  BY <1>0 DEF EngineInv, FoundOut
<1>5. steady => /\ b = Pods(cluster)
                /\ c.replicas \in 0 .. MaxReplicas /\ Pods(c) = c.replicas /\ c.pdb = cluster.pdb
                /\ n # None => n = Pods(c)
  <2> SUFFICES ASSUME steady
               PROVE  /\ b = Pods(cluster)
                      /\ c.replicas \in 0 .. MaxReplicas /\ Pods(c) = c.replicas /\ c.pdb = cluster.pdb
                      /\ n # None => n = Pods(c)
    OBVIOUS
  <2>1. /\ c.replicas \in 0 .. MaxReplicas /\ c.pdb = cluster.pdb
        /\ Pods(c) = c.replicas /\ Pods(cluster) = cluster.replicas
        /\ cluster.replicas \in 0 .. MaxReplicas
        /\ act.on = "custom" => c.replicas = IF act.replicas = None THEN 0 ELSE act.replicas
    BY <1>0, <1>4, StoredReplicas
  <2>2. c \in ClusterStates /\ act.replicas \in 0 .. MaxReplicas \cup {None}
    BY <1>a, StoredTyped DEF Requests
  <2> HIDE DEF c
  <2>3. before = Object(cluster, act.on, cluster.replicas)
    BY <1>4 DEF Before
  <2>4. after = Object(c, act.on, IF act.on = "custom" THEN act.replicas ELSE c.replicas)
    BY <1>4 DEF After, c
  <2>5. b = cluster.replicas
    BY <1>a, <2>1, <2>3, ObjectTyped DEF Replicas
  <2>6. act.on = "custom" => n = act.replicas
    BY <1>a, <2>1, <2>2, <2>4, ObjectTyped DEF Replicas
  <2>7. act.on # "custom" => n = c.replicas
    BY <1>a, <2>1, <2>2, <2>4, ObjectTyped DEF Replicas
  <2> QED
    BY <2>1, <2>5, <2>6, <2>7
<1>6. ASSUME NEW imp \in Impacts, i' = imp, Assess("relabel"), UNCHANGED <<before, after>>,
             steady => TellsOfReplicas(imp)
      PROVE  EngineInv'
  <2>1. UNCHANGED <<cluster, act, sent, steady>> /\ pc' = "relabel"
    BY <1>6 DEF Assess
  <2>2. steady => FoundOut'
    <3>1. After' = After /\ Before' = Before
      BY <2>1 DEF After, Before
    <3>2. TellsOfReplicas(i)' = TellsOfReplicas(imp)
      BY <1>6, <2>1 DEF TellsOfReplicas
    <3>3. steady => cluster.may
      BY <1>0 DEF EngineInv, FoundOut
    <3> QED
      BY <1>0, <1>4, <1>6, <2>1, <3>1, <3>2, <3>3 DEF FoundOut
  <2>3. Shown'
    BY <1>2, <1>6, <2>1 DEF Shown
  <2>4. "relabel" \in Assessing \ {"assess"}
    BY DEF Assessing
  <2> QED
    BY <1>0, <1>6, <2>2, <2>3, <2>4, Stage
<1>7. CASE unchanged /\ Assess("relabel") /\ UNCHANGED <<before, after, i>>
  <2>1. ASSUME steady PROVE TellsOfReplicas(i)
    <3>1. act.on = "service" => c.replicas = cluster.replicas /\ Pods(cluster) = cluster.replicas
      BY <1>0, <1>4, <2>1, StoredReplicas
    <3>2. Pods(c) >= Pods(cluster)
      BY <1>3, <1>5, <1>7, <2>1, <3>1
    <3>0. cluster.stray \in Nat
      BY <1>a DEF ClusterStates
    <3>3. Pods(cluster) \in Nat /\ (Backends(cluster, cluster.sel) > 0 => Pods(cluster) > cluster.stray)
      BY <1>3, <1>5, <2>1, <3>0 DEF Backends, Fewer
    <3> HIDE DEF c
    <3>4. /\ ~(Backends(cluster, cluster.sel) > 0 /\ Fewer(c.replicas, cluster.stray) = 0)
          /\ ~(Pods(c) < Pods(cluster) /\ Pods(c) < c.pdb)
      BY <1>3, <1>5, <2>1, <3>0, <3>2, <3>3 DEF Fewer
    <3> QED
      BY <3>4 DEF TellsOfReplicas, c
  <2> QED
    BY <1>0, <1>6, <1>7, <2>1
<1>8. CASE Scored(Unmeasured)
  BY <1>0, <1>8, ScoredStep, ImpactTyped, UnmeasuredTells
<1>9. CASE /\ ~unchanged /\ n # None
           /\ i' = [Disrupted(i, b - n) EXCEPT !.effect = <<b, n>>]
           /\ Assess("relabel") /\ UNCHANGED <<before, after>>
  <2> DEFINE d == Disrupted(i, b - n)
             imp == [d EXCEPT !.effect = <<b, n>>]
  <2>1. b - n \in Nat /\ b \in Nat /\ n \in Nat
    BY <1>3, <1>9
  <2>2. /\ d \in Impacts
        /\ d.pdb = (Fewer(Pods(cluster), b - n) < cluster.pdb)
        /\ Backends(cluster, cluster.sel) > 0 /\ Fewer(Backends(cluster, cluster.sel), b - n) = 0
             => d.left = 0
    BY <1>0, <1>a, <2>1, DisruptedTells
  <2> HIDE DEF d, b, n
  <2>3. imp \in Impacts
    <3>1. <<b, n>> \in Seq(Nat)
      BY <2>1
    <3> QED
      BY <2>2, <3>1 DEF Impacts
  <2>4. imp.pdb = d.pdb /\ imp.left = d.left
    BY <2>2 DEF Impacts
  <2>5. ASSUME steady PROVE TellsOfReplicas(imp)
    <3>1. b = Pods(cluster) /\ n = Pods(c) /\ c.replicas = Pods(c) /\ c.pdb = cluster.pdb /\ c.replicas \in Nat
      BY <1>5, <1>9, <2>5
    <3> HIDE DEF c, imp
    <3>2. Fewer(Pods(cluster), b - n) = n
      BY <2>1, <3>1 DEF Fewer
    <3>0. cluster.stray \in Nat
      BY <1>a DEF ClusterStates
    <3>3. Backends(cluster, cluster.sel) \in {0, Fewer(b, cluster.stray)}
      BY <3>1 DEF Backends
    <3>4. Backends(cluster, cluster.sel) > 0 =>
            Fewer(Backends(cluster, cluster.sel), b - n) = Fewer(n, cluster.stray)
      BY <2>1, <3>0, <3>3 DEF Fewer
    <3> QED
      BY <2>2, <2>4, <3>1, <3>2, <3>4 DEF TellsOfReplicas, c
  <2> HIDE DEF imp, c
  <2>6. i' = imp
    BY <1>9 DEF imp, d
  <2> QED
    BY <1>6, <1>9, <2>3, <2>5, <2>6
<1>10. CASE ~unchanged /\ n # None /\ CutShort([i EXCEPT !.effect = <<b, n>>])
  <2>1. <<b, n>> \in Seq(Nat)
    <3>1. b \in Nat /\ n \in Nat
      BY <1>3, <1>10
    <3> QED
      BY <3>1
  <2> HIDE DEF b, n
  <2>2. [i EXCEPT !.effect = <<b, n>>] \in Impacts
    BY <1>0, <2>1 DEF Impacts
  <2> QED
    BY <1>0, <1>10, <2>2, CutShortStep
<1> QED
  BY <1>7, <1>8, <1>9, <1>10 DEF ScaleDown

\* Relabelling: with the pods it takes away told of, it tells of the service
\* the change leaves empty too.
LEMMA RelabelStep ==
  ASSUME EngineInv, Relabel
  PROVE  EngineInv'
<1>0. /\ pc = "relabel" /\ pc \in Assessing /\ Mutates(act) /\ ~isAuthority(act)
      /\ before \in Objects /\ after \in Objects /\ i \in Impacts
  BY DEF Relabel, Assessing, EngineInv, LocalsTyped
<1>1. cluster \in ClusterStates /\ act \in Requests
  BY DEF EngineInv, MeasureTypeOK
<1> DEFINE c == Stored(cluster, act)
<1>2. steady => /\ cluster.exists /\ cluster.may /\ act.op # "create"
                /\ before = Before /\ after = After /\ TellsOfReplicas(i)
  BY <1>0 DEF EngineInv, FoundOut
<1>3. c \in ClusterStates /\ act.replicas \in 0 .. MaxReplicas \cup {None}
  BY <1>1, StoredTyped DEF Requests
<1>4. steady => /\ before.tmpl = cluster.tmpl /\ before.sel = cluster.sel
                /\ after.tmpl = c.tmpl /\ after.sel = c.sel
  <2> HIDE DEF c
  <2>2. steady => before = Object(cluster, act.on, cluster.replicas)
    BY <1>2 DEF Before
  <2>3. steady => after = Object(c, act.on, IF act.on = "custom" THEN act.replicas ELSE c.replicas)
    BY <1>2 DEF After, c
  <2>4. steady => before.tmpl = cluster.tmpl /\ before.sel = cluster.sel
    BY <2>2 DEF Object
  <2>5. steady => after.tmpl = c.tmpl /\ after.sel = c.sel
    BY <2>3 DEF Object
  <2> QED
    BY <2>4, <2>5
\* What remains to be told of is a service left empty by a change of labels.
<1>5. ASSUME steady, NEW imp \in Impacts, imp.pdb = i.pdb, i.left = 0 => imp.left = 0,
             \/ act.on = "pods"
             \/ /\ Backends(cluster, cluster.sel) > 0 /\ Backends(c, c.sel) = 0
                /\ Fewer(c.replicas, cluster.stray) > 0
                => imp.left = 0
      PROVE  Tells(imp)
  <2>1. /\ Pods(c) = c.replicas /\ c.replicas \in Nat /\ c.exists
        /\ Backends(cluster, cluster.sel) > 0 /\ Fewer(c.replicas, cluster.stray) = 0 => i.left = 0
        /\ Pods(c) < Pods(cluster) /\ Pods(c) < c.pdb => i.pdb
    <3>1. c.replicas \in 0 .. MaxReplicas /\ Pods(c) = c.replicas /\ c.exists
      BY <1>0, <1>2, <1>5, StoredReplicas
    <3> QED
      BY <1>2, <1>5, <3>1 DEF TellsOfReplicas
  <2>a. Fewer(c.replicas, cluster.stray) \in Nat
    <3>1. c.replicas \in Nat /\ cluster.stray \in Nat
      BY <1>1, <2>1 DEF ClusterStates
    <3> QED
      BY <3>1 DEF Fewer
  <2> HIDE DEF c
  <2>b. act.on = "pods" => "empties" \in Overlooked(imp)
    BY <1>0, <1>2, <1>5 DEF Overlooked, Mutates
  <2>2. Harms \subseteq {"empties", "budget"}
    BY <1>0 DEF Harms, Mutates, isAuthority
  <2>3. "empties" \in Harms => Backends(cluster, cluster.sel) > 0 /\ Backends(c, c.sel) = 0
    BY <1>2, <1>5 DEF Harms, c
  <2>4. "budget" \in Harms => Pods(c) < Pods(cluster) /\ Pods(c) < c.pdb
    BY <1>2, <1>5 DEF Harms, c
  <2>5. "empties" \in Harms => imp.left = 0 \/ act.on = "pods"
    BY <1>5, <2>1, <2>3, <2>a
  <2>6. "budget" \in Harms => imp.pdb
    BY <1>5, <2>1, <2>4
  <2> QED
    BY <2>2, <2>5, <2>6, <2>b DEF Tells, Told
<1>6. CASE Scored(Unmeasured)
  BY <1>0, <1>6, ScoredStep, ImpactTyped, UnmeasuredTells
<1>7. CASE act.on = "workload" /\ Scored(IF cluster.sel = before.tmpl THEN setEndpoints(i, 0) ELSE i)
  <2> DEFINE imp == IF cluster.sel = before.tmpl THEN setEndpoints(i, 0) ELSE i
  <2>1. 0 \in 0 .. MaxReplicas
    BY MeasureAssumption
  <2>2. imp \in Impacts /\ imp.pdb = i.pdb /\ (i.left = 0 => imp.left = 0)
        /\ (cluster.sel = before.tmpl => imp.left = 0)
    BY <1>0, <2>1, EndpointsTyped
  <2>3. steady /\ Backends(cluster, cluster.sel) > 0 => imp.left = 0
    BY <1>4, <2>2 DEF Backends
  <2> HIDE DEF imp
  <2>4. steady => Tells(imp)
    BY <1>5, <2>2, <2>3
  <2>5. Scored(imp)
    BY <1>7 DEF imp
  <2> QED
    BY <1>0, <2>2, <2>4, <2>5, ScoredStep
<1>8. CASE /\ act.on = "service"
           /\ Scored([setEndpoints(i, Backends(cluster, after.sel))
                        EXCEPT !.effect = <<Backends(cluster, before.sel), Backends(cluster, after.sel)>>])
  <2> DEFINE n == Backends(cluster, after.sel)
             told == setEndpoints(i, n)
             imp == [told EXCEPT !.effect = <<Backends(cluster, before.sel), n>>]
  <2>1. n \in 0 .. MaxReplicas /\ Backends(cluster, before.sel) \in 0 .. MaxReplicas
    BY <1>1, BackendsTyped
  <2>2. told \in Impacts /\ told.pdb = i.pdb /\ (n = 0 \/ i.left = 0 => told.left = 0)
    BY <1>0, <2>1, EndpointsTyped
  <2>3. <<Backends(cluster, before.sel), n>> \in Seq(Nat)
    BY <2>1
  <2> HIDE DEF told
  <2>4. imp \in Impacts /\ imp.pdb = told.pdb /\ imp.left = told.left
    BY <2>2, <2>3 DEF Impacts
  <2>5. steady => (Backends(c, c.sel) = 0 => n = 0)
    <3> SUFFICES ASSUME steady, Backends(c, c.sel) = 0 PROVE n = 0
      OBVIOUS
    <3>1. /\ c.tmpl = cluster.tmpl /\ c.replicas = cluster.replicas /\ c.exists /\ cluster.exists
          /\ c.stray = cluster.stray
      BY <1>0, <1>2, <1>8, StoredReplicas
    <3> QED
      BY <1>4, <3>1 DEF Backends, Pods
  <2> HIDE DEF imp, n
  <2>6. steady => Tells(imp)
    BY <1>5, <2>2, <2>4, <2>5
  <2>7. Scored(imp)
    BY <1>8 DEF imp, told, n
  <2> QED
    BY <1>0, <2>4, <2>6, <2>7, ScoredStep
<1>9. CASE /\ act.on = "workload" => before.tmpl = after.tmpl
           /\ act.on = "service" => before.sel = after.sel
           /\ Scored(i)
  <2>1. steady => c.tmpl = cluster.tmpl /\ c.sel = cluster.sel
    BY <1>0, <1>2, <1>4, <1>9, StoredReplicas
  <2>2. steady => c.exists /\ cluster.exists /\ cluster.replicas \in Nat
    BY <1>0, <1>2, StoredReplicas
  <2>a. steady => act.on = "pods" \/ c.stray = cluster.stray
    BY <1>0, <1>2, <2>1, StoredReplicas
  <2> HIDE DEF c
  <2>3. steady => \/ act.on = "pods"
                  \/ /\ Backends(cluster, cluster.sel) > 0 /\ Backends(c, c.sel) = 0
                     /\ Fewer(c.replicas, cluster.stray) > 0
                     => i.left = 0
    <3>1. steady /\ act.on # "pods" /\ Backends(cluster, cluster.sel) > 0 => c.tmpl = c.sel
      BY <2>1 DEF Backends
    <3>2. steady /\ act.on # "pods" /\ c.tmpl = c.sel => Backends(c, c.sel) = Fewer(c.replicas, cluster.stray)
      BY <2>2, <2>a DEF Backends, Pods
    <3> QED
      BY <3>1, <3>2
  <2>4. steady => Tells(i)
    BY <1>0, <1>5, <2>3
  <2> QED
    BY <1>0, <1>9, <2>4, ScoredStep
<1> QED
  BY <1>6, <1>7, <1>8, <1>9 DEF Relabel

\* Sounding's answer for a delete or an eviction.
LEMMA ScoreStep ==
  ASSUME EngineInv, Score
  PROVE  EngineInv'
<1>0. pc = "score" /\ pc \in Assessing /\ act.op \in {"delete", "evict"} /\ ~sent
  BY DEF Score, Assessing, EngineInv, LocalsTyped
<1>1. CASE Scored(Unmeasured)
  BY <1>0, <1>1, ScoredStep, ImpactTyped, UnmeasuredTells
<1>2. ASSUME NEW class \in {"REVERSIBLE", "COMPENSABLE", "TERMINAL"},
             i' = [Impact(class) EXCEPT !.data = act.on = "claim"],
             Assess("disrupt"), UNCHANGED <<before, after>>
      PROVE  EngineInv'
  <2>1. Impact(class) \in Impacts
    BY ImpactTyped DEF Classes
  <2>2. i' \in Impacts /\ i'.data = (act.on = "claim")
    BY <1>2, <2>1 DEF Impacts
  <2>3. UNCHANGED <<cluster, act, sent>> /\ pc' = "disrupt" /\ "disrupt" \in Assessing
    BY <1>2 DEF Assess, Assessing
  <2>4. steady => FoundOut'
    BY <1>0, <2>2, <2>3 DEF FoundOut
  <2>5. before' \in Objects \cup {None} /\ after' \in Objects \cup {None}
    BY <1>2 DEF EngineInv, MeasureTypeOK
  <2> QED
    BY <1>0, <1>2, <2>2, <2>3, <2>4, <2>5, Stage
<1> QED
  BY <1>1, <1>2 DEF Score

\* disruption.Assess: the pods a delete or an eviction takes, all of them.
LEMMA DisruptStep ==
  ASSUME EngineInv, Disrupt
  PROVE  EngineInv'
<1>0. pc = "disrupt" /\ pc \in Assessing /\ act.op \in {"delete", "evict"} /\ i \in Impacts
  BY DEF Disrupt, Assessing, EngineInv, LocalsTyped
<1>1. cluster \in ClusterStates /\ act \in Requests /\ (act.op = "evict" => act.on = "pods") /\ MaxReplicas \in Nat
  BY MeasureAssumption DEF EngineInv, MeasureTypeOK
<1>2. cluster.replicas \in Nat /\ Pods(cluster) \in Nat /\ cluster.stray \in Nat
  BY <1>1 DEF ClusterStates, Pods
<1> DEFINE c == Stored(cluster, act)
<1>3. Harms \subseteq {"empties", "budget", "data"}
  BY <1>0 DEF Harms, Mutates
<1>4. CASE Scored(Unmeasured)
  BY <1>0, <1>4, ScoredStep, ImpactTyped, UnmeasuredTells
<1>5. CASE act.on = "claim" /\ Scored(i)
  <2>1. c = cluster
    BY <1>0, <1>1, <1>5 DEF Stored
  <2>2. Harms \subseteq {"data"}
    BY <1>2, <1>3, <2>1 DEF Harms
  <2>3. steady => i.data
    BY <1>0, <1>5 DEF EngineInv, FoundOut
  <2>4. steady => Tells(i)
    BY <2>2, <2>3 DEF Tells, Told
  <2> QED
    BY <1>0, <1>5, <2>4, ScoredStep
<1>6. CASE act.on # "claim" /\ Scored(Disrupted(i, IF act.op = "evict" THEN 1 ELSE Pods(cluster)))
  <2> DEFINE k == IF act.op = "evict" THEN 1 ELSE Pods(cluster)
             imp == Disrupted(i, k)
  <2>1. k \in Nat
    BY <1>2
  <2>2. /\ imp \in Impacts
        /\ imp.pdb = (Fewer(Pods(cluster), k) < cluster.pdb)
        /\ Backends(cluster, cluster.sel) > 0 /\ Fewer(Backends(cluster, cluster.sel), k) = 0 => imp.left = 0
    BY <1>0, <1>1, <2>1, DisruptedTells
  <2> HIDE DEF imp
  <2>3. c.pdb = cluster.pdb /\ c.tmpl = cluster.tmpl /\ c.sel = cluster.sel /\ c.stray = cluster.stray
    BY <1>0, <1>1 DEF Stored, ClusterStates
  <2>4. Pods(c) \in {Pods(cluster), Fewer(Pods(cluster), k)}
    <3>1. CASE act.op = "evict"
      <4>1. c = [cluster EXCEPT !.replicas = Fewer(cluster.replicas, 1)]
        BY <1>1, <3>1 DEF Stored
      <4> QED
        BY <1>1, <1>2, <3>1, <4>1 DEF Pods, Fewer, ClusterStates
    <3>2. CASE act.op = "delete"
      <4>1. Fewer(Pods(cluster), k) = 0
        BY <1>2, <3>2 DEF Fewer
      <4>2. c = cluster \/ c = [cluster EXCEPT !.replicas = 0]
        BY <1>1, <3>2 DEF Stored
      <4> QED
        BY <1>1, <1>2, <4>1, <4>2 DEF Pods, ClusterStates
    <3> QED
      BY <1>0, <3>1, <3>2
  <2> HIDE DEF c, k
  <2>5. "data" \notin Harms
    BY <1>6 DEF Harms
  <2>6. "budget" \in Harms => imp.pdb
    <3>1. "budget" \in Harms => Pods(c) < Pods(cluster) /\ Pods(c) < c.pdb
      BY <1>2 DEF Harms, c
    <3>2. Pods(c) < Pods(cluster) /\ Pods(c) < c.pdb => Fewer(Pods(cluster), k) < cluster.pdb
      BY <1>2, <2>3, <2>4
    <3> QED
      BY <2>2, <3>1, <3>2, Zenon
  <2>7. "empties" \in Harms => imp.left = 0
    <3>1. "empties" \in Harms => Backends(cluster, cluster.sel) > 0 /\ Backends(c, c.sel) = 0
      BY <1>2 DEF Harms, c
    <3>2. Backends(cluster, cluster.sel) > 0 =>
            /\ Backends(cluster, cluster.sel) = Fewer(Pods(cluster), cluster.stray)
            /\ Backends(c, c.sel) = Fewer(Pods(c), cluster.stray)
      BY <1>2, <2>3 DEF Backends
    <3>3. \A p, m, t \in Nat : Fewer(Fewer(p, m), t) = Fewer(Fewer(p, t), m)
      BY DEF Fewer
    <3>4. "empties" \in Harms =>
            Fewer(Fewer(Pods(cluster), cluster.stray), k) = Fewer(Fewer(Pods(cluster), k), cluster.stray)
      BY <1>2, <2>1, <3>3
    <3>5. 0 \in Nat /\ ~(0 > 0)
      OBVIOUS
    <3> QED
      BY <2>2, <2>4, <3>1, <3>2, <3>4, <3>5
  <2>8. Tells(imp)
    BY <1>3, <2>5, <2>6, <2>7 DEF Tells, Told
  <2>9. Scored(imp)
    BY <1>6 DEF imp, k
  <2> QED
    BY <1>0, <2>2, <2>8, <2>9, ScoredStep
<1>7. CASE CutShort(i)
  BY <1>0, <1>7, CutShortStep
<1> QED
  BY <1>4, <1>5, <1>6, <1>7 DEF Disrupt

\* What finished late is not measured any more.
LEMMA FinishStep ==
  ASSUME EngineInv, Finish
  PROVE  EngineInv'
<1>0. /\ pc \in {"budget", "late"} /\ pc \in Assessing /\ i \in Impacts /\ ~sent
      /\ steady /\ pc = "budget" => Tells(i)
  BY DEF Finish, Assessing, EngineInv, LocalsTyped, FoundOut
<1>1. i' \in Impacts /\ (i'.measured => i' = i /\ pc = "budget")
  <2>1. [Unmeasured EXCEPT !.reason = "over budget"] \in Impacts
        /\ ~[Unmeasured EXCEPT !.reason = "over budget"].measured
    BY ImpactTyped DEF Impacts
  <2>2. [i EXCEPT !.reason = "over budget"] \in Impacts
        /\ [i EXCEPT !.reason = "over budget"].measured = i.measured
    BY <1>0 DEF Impacts
  <2> QED
    BY <1>0, <2>1, <2>2 DEF Finish
<1>2. UNCHANGED <<policy, cluster, moves, act, before, after, v, again, trail, sent, steady>>
      /\ labels' = Unknown /\ pc' \in {"labels", "evaluate"}
  BY DEF Finish
<1>3. MeasureTypeOK'
  BY <1>1, <1>2 DEF EngineInv, MeasureTypeOK, Labels, Assessing
<1>4. LocalsTyped'
  BY <1>0, <1>1, <1>2 DEF EngineInv, LocalsTyped, Assessing
<1>5. steady' => FoundOut'
  <2>1. steady => Tells(i')
    BY <1>0, <1>1 DEF Tells
  <2>2. steady => Tells(i)'
    BY <1>2, <2>1, HarmsStay DEF Tells, Overlooked
  <2> QED
    BY <1>0, <1>2, <2>2 DEF FoundOut
<1> QED
  BY <1>0, <1>2, <1>3, <1>4, <1>5 DEF EngineInv

\* The labels are the namespace's, or unknown.
LEMMA ReadLabelsStep ==
  ASSUME EngineInv, ReadLabels
  PROVE  EngineInv'
<1>0. pc = "labels" /\ i \in Impacts /\ ~sent /\ (steady => Tells(i))
  BY DEF ReadLabels, EngineInv, LocalsTyped, FoundOut
<1>1. UNCHANGED <<policy, cluster, moves, act, before, after, i, v, again, trail, sent, steady>>
      /\ labels' \in {cluster.env, Unknown} /\ pc' = "evaluate"
  BY DEF ReadLabels
<1>2. cluster.env \in Envs
  BY DEF EngineInv, MeasureTypeOK, ClusterStates
<1>3. MeasureTypeOK'
  BY <1>1, <1>2 DEF EngineInv, MeasureTypeOK, Labels, Assessing
<1>4. LocalsTyped'
  BY <1>0, <1>1 DEF EngineInv, LocalsTyped
<1>5. steady' => FoundOut'
  BY <1>0, <1>1, HarmsStay DEF FoundOut, Tells, Overlooked
<1> QED
  BY <1>0, <1>1, <1>3, <1>4, <1>5 DEF EngineInv

\* When the cluster moves nothing is promised any more.
LEMMA MoveStep ==
  ASSUME EngineInv, Move
  PROVE  EngineInv'
<1>1. UNCHANGED <<policy, act, pc, before, after, i, labels, v, again, trail, sent>>
      /\ cluster' \in ClusterStates /\ moves' = moves + 1 /\ moves < MaxMoves /\ steady' = FALSE /\ pc # "done"
  BY ChangesTyped DEF Move, EngineInv, MeasureTypeOK
<1>2. MeasureTypeOK'
  <2>1. moves' \in 0 .. MaxMoves
    BY <1>1, MeasureAssumption DEF EngineInv, MeasureTypeOK
  <2> QED
    BY <1>1, <2>1 DEF EngineInv, MeasureTypeOK
<1>3. LocalsTyped'
  BY <1>1 DEF EngineInv, LocalsTyped, Shown, Mutates, isAuthority
<1> QED
  BY <1>1, <1>2, <1>3 DEF EngineInv

\* Evaluate names a rule, or says why there is none.
LEMMA EvaluateNames ==
  ASSUME NEW p \in Docs, NEW op, NEW imp, NEW l, NEW cut, DOMAIN p.rules \subseteq Nat
  PROVE  Evaluate(p, op, imp, l, cut).rule \in RuleNames
<1> DEFINE stops == Stops(p, op, imp, l, cut)
           k     == FirstOf(stops)
<1>1. CASE stops = {}
  BY <1>1 DEF Evaluate, RestVerdict, Verdict, RuleNames
<1>2. CASE stops # {}
  <2>1. stops \subseteq DOMAIN p.rules
    BY DEF Stops
  <2>2. k \in DOMAIN p.rules
    BY <1>2, <2>1, FirstOfIsIn
  <2>3. p.rules[k].name \in RuleNames
    BY <2>2 DEF RuleNames
  <2>4. RuleVerdict(p.rules[k], AnswerOf(p, k, op, imp, l, cut), imp).rule \in RuleNames
    BY <2>3 DEF RuleVerdict, Verdict, RuleNames
  <2> QED
    BY <1>2, <2>4 DEF Evaluate
<1> QED
  BY <1>1, <1>2

\* A row is one.
LEMMA RowTyped ==
  ASSUME NEW w, w.imp \in Impacts \cup {None}, w.labels \in Labels, w.decision \in Decisions,
         NEW how \in {"once", "again", "cut"}, act \in Requests
  PROVE  Row(w, how) \in Rows
<1>1. act.op \in Ops
  BY DEF Requests
<1>2. Encode(w.labels) \in Envs \cup {"null"}
  BY DEF Encode, Labels
<1>3. (w.imp # None) \in BOOLEAN
  OBVIOUS
<1> QED
  BY <1>1, <1>2, <1>3 DEF Row, Rows

-----------------------------------------------------------------------------
(* The gate around the engine *)

\* A decision, honest if it forwards.
LEMMA DecideStep ==
  ASSUME EngineInv, NEW w \in Verdicts, NEW may \in BOOLEAN, NEW how \in {"once", "again", "cut"},
         Decide(w, may, how), UNCHANGED <<policy, cluster, moves, act>>,
         before' \in Objects \cup {None}, after' \in Objects \cup {None}, i' \in Impacts \cup {None},
         labels' \in Labels, steady' \in BOOLEAN,
         steady' /\ may => Tells(w.imp)
  PROVE  EngineInv'
<1>1. /\ pc' = "done" /\ v' = w /\ again' = again
      /\ trail' \subseteq trail \cup {Row(w, how)} /\ sent' \in BOOLEAN
  BY DEF Decide
<1>2. sent' => may
  BY Zenon DEF Decide
<1>3. Row(w, how) \in Rows
  BY RowTyped DEF Verdicts, EngineInv, MeasureTypeOK
<1>4. MeasureTypeOK'
  BY <1>1, <1>3 DEF EngineInv, MeasureTypeOK
<1>5. LocalsTyped'
  BY <1>1 DEF LocalsTyped, EngineInv
<1>6. steady' => FoundOut'
  <2>1. v'.imp = w.imp
    BY <1>1
  <2>2. steady' /\ sent' => Tells(v.imp)'
    BY <1>2, <2>1, HarmsStay DEF Tells, Overlooked
  <2> QED
    BY <1>1, <1>2, <2>1, <2>2 DEF FoundOut
<1> QED
  BY <1>1, <1>4, <1>5, <1>6 DEF EngineInv

\* What is forwarded without being measured harms nothing, or is not.
LEMMA ArriveStep ==
  ASSUME EngineInv, Arrive
  PROVE  EngineInv'
<1>0. /\ pc = "arrive" /\ ~again /\ before = None /\ ~sent /\ steady' = TRUE
      /\ UNCHANGED <<policy, cluster, moves, act, before, after, i, labels>>
      /\ before \in Objects \cup {None} /\ after \in Objects \cup {None} /\ i \in Impacts \cup {None}
      /\ labels \in Labels
  BY DEF Arrive, EngineInv, LocalsTyped, MeasureTypeOK
<1>1. CASE act.op = "unparseable"
  <2> DEFINE w == [imp |-> None, labels |-> Unknown, decision |-> "deny", rule |-> "unparseable"]
  <2>1. w \in Verdicts
    BY DEF Verdicts, Labels, Decisions, RuleNames
  <2>2. Decide(w, FALSE, "once")
    BY <1>1 DEF Arrive
  <2> HIDE DEF w
  <2> QED
    BY <1>0, <2>1, <2>2, DecideStep
<1>2. CASE act.op = "read"
  <2>1. /\ v' = [imp |-> Impact("READ"), labels |-> Unknown, decision |-> "allow", rule |-> "read"]
        /\ sent' = TRUE /\ pc' = "done" /\ UNCHANGED <<again, trail>>
    BY <1>2 DEF Arrive
  <2>2. Impact("READ") \in Impacts
    BY ImpactTyped DEF Classes
  <2>3. v' \in Verdicts
    BY <2>1, <2>2 DEF Verdicts, Labels, Decisions, RuleNames
  <2>4. Harms = {}
    <3>1. cluster.replicas \in Nat
      BY DEF EngineInv, MeasureTypeOK, ClusterStates
    <3>2. Stored(cluster, act) = cluster
      BY <1>2 DEF Stored
    <3> QED
      BY <1>2, <3>1, <3>2 DEF Harms, Mutates, Backends, Pods
  <2>5. MeasureTypeOK'
    BY <1>0, <2>1, <2>3 DEF EngineInv, MeasureTypeOK
  <2>6. LocalsTyped'
    BY <1>0, <2>1 DEF LocalsTyped
  <2>7. FoundOut'
    <3>1. Harms' = {}
      BY <1>0, <2>4, HarmsStay
    <3> QED
      BY <1>0, <2>1, <3>1 DEF FoundOut, Tells
  <2> QED
    BY <1>0, <2>1, <2>5, <2>6, <2>7 DEF EngineInv
<1>3. CASE act.op \notin {"unparseable", "read"}
  <2>1. pc' = "assess" /\ UNCHANGED <<v, again, trail, sent>>
    BY <1>3 DEF Arrive
  <2>2. MeasureTypeOK'
    BY <1>0, <2>1 DEF EngineInv, MeasureTypeOK, Assessing
  <2>3. LocalsTyped'
    BY <1>0, <2>1 DEF LocalsTyped
  <2>4. FoundOut'
    BY <1>0, <2>1 DEF FoundOut
  <2> QED
    BY <1>0, <2>1, <2>2, <2>3, <2>4 DEF EngineInv
<1> QED
  BY <1>1, <1>2, <1>3

\* Decide's own evaluation: what is allowed or held is what was measured.
LEMMA EvaluatedStep ==
  ASSUME EngineInv, Typed, Evaluated
  PROVE  EngineInv'
<1>a. PICK cut : EvaluatedUnder(cut)
  BY DEF Evaluated
<1> DEFINE pv  == Evaluate(policy, act.op, i, labels, cut)
           w   == [imp |-> i, labels |-> labels, decision |-> pv.decision, rule |-> pv.rule]
           how == IF cut = Nowhere THEN "once" ELSE "cut"
<1>0. /\ pc = "evaluate" /\ ~again /\ i \in Impacts /\ ~sent /\ (steady => Tells(i))
      /\ UNCHANGED <<policy, cluster, moves, act, steady>>
      /\ before' = None /\ after' = None /\ i' = None /\ labels' = Unknown
  BY DEF Evaluated, Forget, EngineInv, LocalsTyped, FoundOut
<1>1. pv.decision \in Decisions /\ pv.rule \in RuleNames /\ labels \in Labels /\ steady \in BOOLEAN
  BY EvaluateDecides, EvaluateNames DEF Typed, EngineInv, MeasureTypeOK
<1>2. w \in Verdicts /\ w.imp = i
  BY <1>0, <1>1 DEF Verdicts
<1>3. Unknown \in Labels /\ how \in {"once", "again", "cut"}
  BY DEF Labels
<1>4. CASE pv.decision = "hold" /\ cut = Nowhere
  <2>1. v' = w /\ pc' = "held" /\ UNCHANGED <<again, trail, sent>>
    BY <1>4, <1>a DEF EvaluatedUnder
  <2> HIDE DEF w
  <2>2. MeasureTypeOK'
    BY <1>0, <1>2, <1>3, <2>1 DEF EngineInv, MeasureTypeOK
  <2>3. LocalsTyped'
    BY <1>0, <1>2, <2>1 DEF LocalsTyped
  <2>4. steady' => FoundOut'
    <3>1. v'.imp = i
      BY <1>2, <2>1
    <3>2. steady => Tells(v.imp)'
      BY <1>0, <3>1, HarmsStay DEF Tells, Overlooked
    <3> QED
      BY <1>0, <2>1, <3>2 DEF FoundOut
  <2> QED
    BY <1>0, <2>1, <2>2, <2>3, <2>4 DEF EngineInv
<1>5. CASE ~(pv.decision = "hold" /\ cut = Nowhere)
  <2>1. Decide(w, pv.decision = "allow" /\ cut = Nowhere, how)
    BY <1>5, <1>a DEF EvaluatedUnder
  <2>2. (pv.decision = "allow" /\ cut = Nowhere) \in BOOLEAN
    OBVIOUS
  <2> HIDE DEF w, pv, how
  <2> QED
    BY <1>0, <1>1, <1>2, <1>3, <2>1, <2>2, DecideStep
<1> QED
  BY <1>4, <1>5

\* An approval measures again; any other way a hold ends decides on it.
LEMMA HeldStep ==
  ASSUME EngineInv, Verified \/ NotApproved \/ Approved \/ LeavesInRecheck
  PROVE  EngineInv'
<1>1. CASE Approved
  <2>1. /\ pc = "held" /\ pc' = "assess" /\ before = None /\ ~sent /\ v \in Verdicts
        /\ UNCHANGED <<policy, cluster, moves, act, before, after, i, labels, v, trail, sent>>
        /\ steady' = TRUE /\ again' = TRUE
    BY <1>1 DEF Approved, EngineInv, LocalsTyped
  <2>2. MeasureTypeOK'
    BY <2>1 DEF EngineInv, MeasureTypeOK, Assessing
  <2>3. LocalsTyped'
    BY <2>1 DEF LocalsTyped
  <2>4. FoundOut'
    BY <2>1 DEF FoundOut
  <2> QED
    BY <2>1, <2>2, <2>3, <2>4 DEF EngineInv
<1>2. CASE Verified \/ NotApproved \/ LeavesInRecheck
  <2>1. v \in Verdicts /\ before' = None /\ after' = None /\ i' = None /\ labels' = Unknown
        /\ UNCHANGED <<policy, cluster, moves, act, steady>>
    BY <1>2 DEF Verified, NotApproved, LeavesInRecheck, Forget, EngineInv, LocalsTyped
  <2>2. Unknown \in Labels /\ steady \in BOOLEAN
    BY DEF Labels, EngineInv, MeasureTypeOK
  <2>3. ASSUME Verified PROVE EngineInv'
    <3>1. Decide(v, TRUE, "once") /\ pc = "held"
      BY <2>3 DEF Verified
    <3>2. steady => Tells(v.imp)
      BY <3>1 DEF EngineInv, LocalsTyped, FoundOut
    <3> QED
      BY <2>1, <2>2, <3>1, <3>2, DecideStep
  <2>4. ASSUME NotApproved \/ LeavesInRecheck PROVE EngineInv'
    <3>1. Decide(v, FALSE, "once")
      BY <2>4 DEF NotApproved, LeavesInRecheck
    <3> QED
      BY <2>1, <2>2, <3>1, DecideStep
  <2> QED
    BY <1>2, <2>3, <2>4
<1> QED
  BY <1>1, <1>2

\* recheck forwards only on what was measured again.
LEMMA RecheckedStep ==
  ASSUME EngineInv, Typed, Rechecked
  PROVE  EngineInv'
<1>a. PICK cut : RecheckedUnder(cut)
  BY DEF Rechecked
<1> DEFINE pv   == Evaluate(policy, act.op, i, labels, cut)
           rule == IF pv.decision = "allow" THEN v.rule ELSE pv.rule
           w    == [v EXCEPT !.imp = i, !.labels = labels, !.rule = rule]
           d    == [w EXCEPT !.decision = "deny"]
           how  == IF cut = Nowhere THEN "again" ELSE "cut"
<1>0. /\ pc = "evaluate" /\ again /\ i \in Impacts /\ ~sent /\ (steady => Tells(i)) /\ v \in Verdicts
      /\ UNCHANGED <<policy, cluster, moves, act, steady>>
      /\ before' = None /\ after' = None /\ i' = None /\ labels' = Unknown
  BY DEF Rechecked, Forget, EngineInv, LocalsTyped, FoundOut
<1>1. pv.rule \in RuleNames /\ labels \in Labels /\ steady \in BOOLEAN
  BY EvaluateNames DEF Typed, EngineInv, MeasureTypeOK
<1>2. rule \in RuleNames
  BY <1>0, <1>1 DEF Verdicts
<1> HIDE DEF rule
<1>3. w \in Verdicts /\ w.imp = i /\ d \in Verdicts
  BY <1>0, <1>1, <1>2 DEF Verdicts, Decisions
<1>4. Unknown \in Labels /\ how \in {"once", "again", "cut"} /\ (cut = Nowhere) \in BOOLEAN
  BY DEF Labels
<1>5. CASE pv.decision = "deny"
  <2>1. Decide(d, FALSE, how)
    BY <1>5, <1>a DEF RecheckedUnder, rule
  <2> HIDE DEF d, pv, w, how
  <2> QED
    BY <1>0, <1>1, <1>3, <1>4, <2>1, DecideStep
<1>6. CASE pv.decision # "deny"
  <2>1. Decide(w, cut = Nowhere, how)
    BY <1>6, <1>a DEF RecheckedUnder, rule
  <2> HIDE DEF w, pv, d, how
  <2> QED
    BY <1>0, <1>1, <1>3, <1>4, <2>1, DecideStep
<1> QED
  BY <1>5, <1>6

\* Every step keeps the invariant.
LEMMA EngineInvStep == Typed /\ EngineInv /\ [Next]_vars => EngineInv'
<1> SUFFICES ASSUME Typed, EngineInv, [Next]_vars PROVE EngineInv'
  OBVIOUS
<1>1. CASE UNCHANGED vars
  <2>1. MeasureTypeOK' /\ LocalsTyped'
    BY <1>1 DEF vars, EngineInv, MeasureTypeOK, LocalsTyped, Shown, Mutates, isAuthority
  <2>2. steady => FoundOut'
    <3>1. Before' = Before /\ After' = After /\ \A imp : TellsOfReplicas(imp)' <=> TellsOfReplicas(imp)
      BY <1>1 DEF vars, Before, After, TellsOfReplicas
    <3> QED
      BY <1>1, <3>1, HarmsStay DEF vars, EngineInv, FoundOut, Tells, Overlooked
  <2> QED
    BY <1>1, <2>1, <2>2 DEF vars, EngineInv
<1> QED
  BY <1>1, MoveStep, ArriveStep, ClassifyStep, ReadBeforeStep, DryRunStep, ScaleDownStep, RelabelStep, ScoreStep,
     DisruptStep, FinishStep, ReadLabelsStep, EvaluatedStep, HeldStep, RecheckedStep DEF Next

\* The invariant holds of a write that has not arrived.
LEMMA EngineInvInitially == Init => EngineInv
<1> SUFFICES ASSUME Init PROVE EngineInv
  OBVIOUS
<1>1. /\ policy \in Docs /\ cluster \in ClusterStates /\ act \in Requests /\ moves \in 0 .. MaxMoves
      /\ act.op = "evict" => act.on = "pods"
  BY MeasureAssumption DEF Init
<1>2. /\ pc = "arrive" /\ before = None /\ after = None /\ i = None /\ labels = Unknown
      /\ v = None /\ again = FALSE /\ trail = {} /\ sent = FALSE /\ steady = TRUE
  BY DEF Init
<1>3. MeasureTypeOK
  BY <1>1, <1>2 DEF MeasureTypeOK, Labels
<1>4. LocalsTyped /\ FoundOut
  BY <1>2 DEF LocalsTyped, FoundOut
<1> QED
  BY <1>1, <1>2, <1>3, <1>4 DEF EngineInv

-----------------------------------------------------------------------------
(* The default policy *)

\* Under the default policy an impact that is allowed was found safe by the
\* last rule, every other rule having answered false.
LEMMA DefaultAllows ==
  ASSUME NEW op, NEW imp, NEW l, Evaluate(Default, op, imp, l, Nowhere).decision = "allow"
  PROVE  /\ imp.measured /\ imp.class \in {"READ", "REVERSIBLE"}
         /\ ~imp.data /\ ~imp.pdb
         /\ imp.left = 0 => l \notin {Unknown, "prod"}
<1> DEFINE rules == Default.rules
           stops == Stops(Default, op, imp, l, Nowhere)
           k     == FirstOf(stops)
<1>1. /\ DOMAIN rules = 1 .. 6
      /\ rules[1] = Rule("data-destruction", "hold")
      /\ rules[2] = Rule("leaves-a-service-empty-in-prod", "hold")
      /\ rules[3] = Rule("breaks-a-disruption-budget", "hold")
      /\ rules[4] = Rule("exec-with-sql", "hold")
      /\ rules[5] = Rule("grants-authority", "hold")
      /\ rules[6] = Rule("safe", "allow")
      /\ Default.default = "hold" /\ Default.unmeasured = "hold"
  BY DEF Default
<1>2. stops # {}
  BY <1>1 DEF Evaluate, RestVerdict, Verdict
<1>3. stops \subseteq 1 .. 6 /\ \A m \in stops : m \in Nat
  BY <1>1 DEF Stops
<1>4. k \in stops
  BY <1>2, <1>3, FirstOfIsIn
<1>5. \A m \in stops : k <= m
  BY <1>2, <1>3, FirstOfIsIn
<1>6. RuleVerdict(rules[k], Eval(rules[k].when, op, imp, l), imp).decision = "allow"
  BY <1>1, <1>2, <1>3, <1>4 DEF Evaluate, AnswerOf, Nowhere
<1>7. rules[k].then = "allow" /\ Eval(rules[k].when, op, imp, l) # "error" /\ imp.measured
  BY <1>6 DEF RuleVerdict, Verdict
<1>8. k = 6
  BY <1>1, <1>3, <1>4, <1>7 DEF Rule
<1>9. \A m \in 1 .. 5 : Eval(rules[m].when, op, imp, l) = "false"
  <2>1. \A m \in 1 .. 5 : m \notin stops
    BY <1>5, <1>8
  <2> QED
    BY <1>1, <2>1 DEF Stops, AnswerOf, Nowhere
<1>10. Eval("safe", op, imp, l) # "false"
  <2>1. AnswerOf(Default, 6, op, imp, l, Nowhere) # "false"
    BY <1>4, <1>8 DEF Stops
  <2>2. rules[6].when = "safe"
    BY <1>1 DEF Rule
  <2> HIDE DEF rules
  <2>3. AnswerOf(Default, 6, op, imp, l, Nowhere) = Eval(rules[6].when, op, imp, l)
    BY DEF AnswerOf, Nowhere, rules
  <2> QED
    BY <2>1, <2>2, <2>3
<1>11. imp.class \in {"READ", "REVERSIBLE"}
  BY <1>10 DEF Eval, Answer
<1>12. /\ Eval("data-destruction", op, imp, l) = "false"
       /\ Eval("leaves-a-service-empty-in-prod", op, imp, l) = "false"
       /\ Eval("breaks-a-disruption-budget", op, imp, l) = "false"
  BY <1>1, <1>9 DEF Rule
<1>13. ~imp.data /\ ~imp.pdb
  BY <1>12 DEF Eval, Answer
<1>14. imp.left = 0 => l \notin {Unknown, "prod"}
  BY <1>12 DEF Eval, EmptyInProd, Labelled, Answer
<1> QED
  BY <1>7, <1>11, <1>13, <1>14

\* So what it allows and what was measured says of it leaves one harm, and
\* that outside prod only.
LEMMA AllowedStep == Typed /\ ReplayInv /\ EngineInv /\ AllowedIsHarmless /\ [Next]_vars => AllowedIsHarmless'
<1> SUFFICES ASSUME Typed, ReplayInv, EngineInv, AllowedIsHarmless, [Next]_vars,
                    sent', steady', v'.decision = "allow", policy' = Default
             PROVE  /\ (Harms \ Overlooked(v.imp))' \subseteq {"empties"}
                    /\ (Harms \ Overlooked(v.imp))' # {} => cluster'.env # "prod"
  BY DEF AllowedIsHarmless
<1>1. CASE Engine
  <2>1. UNCHANGED sent /\ pc \in Assessing
    BY <1>1, EngineStep
  <2> QED
    BY <2>1 DEF EngineInv, Assessing
<1>2. CASE Move
  BY <1>2 DEF Move
<1>3. CASE Arrive
  <2>1. act.op = "read"
    BY <1>3 DEF Arrive, Decide, EngineInv
  <2>2. UNCHANGED <<cluster, act>> /\ cluster.replicas \in Nat
    BY <1>3 DEF Arrive, EngineInv, MeasureTypeOK, ClusterStates
  <2>3. Stored(cluster, act) = cluster
    BY <2>1 DEF Stored
  <2>4. Harms = {}
    BY <2>1, <2>2, <2>3 DEF Harms, Mutates, Backends, Pods
  <2> QED
    BY <2>2, <2>4, HarmsStay
<1>4. CASE Evaluated
  <2>a. PICK cut : EvaluatedUnder(cut)
    BY <1>4 DEF Evaluated
  <2> DEFINE pv == Evaluate(policy, act.op, i, labels, cut)
             w  == [imp |-> i, labels |-> labels, decision |-> pv.decision, rule |-> pv.rule]
  <2>1. UNCHANGED <<cluster, act, policy, steady>> /\ pc = "evaluate" /\ ~sent
    BY <1>4 DEF Evaluated, EngineInv
  <2>2. v' = w /\ pv.decision = "allow"
    BY <2>1, <2>a DEF EvaluatedUnder, Decide
  <2>3. v'.imp = i
    BY <2>2
  <2>4. Evaluate(Default, act.op, i, labels, Nowhere).decision = "allow"
    BY <2>1, <2>2, InterruptedHolds DEF Typed
  <2>5. Tells(i) /\ labels \in {cluster.env, Unknown}
    BY <2>1 DEF EngineInv, FoundOut
  <2>6. /\ i.measured /\ i.class \in {"READ", "REVERSIBLE"} /\ ~i.data /\ ~i.pdb
        /\ i.left = 0 => labels \notin {Unknown, "prod"}
    BY <2>4, DefaultAllows
  <2> DEFINE harms == Harms \ Overlooked(i)
  <2>7. harms \subseteq {"empties"} /\ ("empties" \in harms => i.left = 0)
    <3>1. harms \subseteq Told(i)
      BY <2>5, <2>6 DEF Tells
    <3>2. Told(i) \subseteq {"empties"} /\ ("empties" \in Told(i) => i.left = 0)
      BY <2>6 DEF Told
    <3> QED
      BY <3>1, <3>2
  <2>8. harms # {} => cluster.env # "prod"
    BY <2>5, <2>6, <2>7
  <2>9. (Harms \ Overlooked(v.imp))' = harms
    BY <2>1, <2>3, HarmsStay DEF Overlooked
  <2> QED
    BY <2>1, <2>7, <2>8, <2>9
<1>5. CASE Verified \/ NotApproved
  <2>1. v' = v /\ pc = "held"
    BY <1>5 DEF Verified, NotApproved, Decide
  <2> QED
    BY <2>1 DEF ReplayInv
<1>6. CASE Approved
  BY <1>6 DEF Approved, EngineInv
<1>7. CASE LeavesInRecheck
  <2>1. v' = v /\ again /\ pc # "done"
    BY <1>7 DEF LeavesInRecheck, Decide, Assessing
  <2> QED
    BY <2>1 DEF ReplayInv
<1>8. CASE Rechecked
  <2>a. PICK cut : RecheckedUnder(cut)
    BY <1>8 DEF Rechecked
  <2> DEFINE pv == Evaluate(policy, act.op, i, labels, cut)
             w  == [v EXCEPT !.imp = i, !.labels = labels, !.rule = IF pv.decision = "allow" THEN @ ELSE pv.rule]
             d  == [w EXCEPT !.decision = "deny"]
  <2>1. v' \in {w, d} /\ pc = "evaluate" /\ again
    BY <1>8, <2>a DEF Rechecked, RecheckedUnder, Decide
  <2>2. v.decision = "hold" /\ v \in Verdicts
    BY <2>1 DEF ReplayInv, EngineInv, LocalsTyped
  <2>3. w.decision = "hold" /\ d.decision = "deny"
    BY <2>2 DEF Verdicts
  <2> HIDE DEF w, d
  <2> QED
    BY <2>1, <2>3
<1>9. CASE UNCHANGED vars
  BY <1>9, HarmsStay DEF vars, AllowedIsHarmless, Overlooked
<1> QED
  BY <1>1, <1>2, <1>3, <1>4, <1>5, <1>6, <1>7, <1>8, <1>9 DEF Next, Engine

-----------------------------------------------------------------------------

\* The engine's locals, the gate's verdict and the audit rows have their types.
THEOREM MeasureTypeCorrect == Spec => []MeasureTypeOK
<1>1. Init => Typed /\ EngineInv
  BY TypedInitially, EngineInvInitially
<1>2. (Typed /\ EngineInv) /\ [Next]_vars => (Typed /\ EngineInv)'
  BY TypedStep, EngineInvStep
<1>3. Typed /\ EngineInv => MeasureTypeOK
  BY DEF EngineInv
<1> QED
  BY <1>1, <1>2, <1>3, PTL DEF Spec

\* For every policy, every cluster of any size and every write: what goes out
\* on a measurement during which nothing moved was told of in full, every
\* Service it leaves empty, every budget it breaks, data and grants; but for a
\* dry-run that only a webhook refused, and for a Pod relabelled by itself.
THEOREM MeasuredTellsAllHolds == Spec => []MeasuredTellsAll
<1>1. Init => Typed /\ EngineInv
  BY TypedInitially, EngineInvInitially
<1>2. (Typed /\ EngineInv) /\ [Next]_vars => (Typed /\ EngineInv)'
  BY TypedStep, EngineInvStep
<1>3. Typed /\ EngineInv => MeasuredTellsAll
  BY DEF EngineInv, FoundOut, Tells, MeasuredTellsAll
<1> QED
  BY <1>1, <1>2, <1>3, PTL DEF Spec

\* The default policy lets nothing through without a person's yes that destroys
\* data, breaks a budget, grants or runs anything, nor what empties a Service
\* in prod, whatever the cluster and the write; with the same two exceptions.
THEOREM AllowedIsHarmlessHolds == Spec => []AllowedIsHarmless
<1>1. Init => Typed /\ ReplayInv /\ EngineInv /\ AllowedIsHarmless
  BY TypedInitially, EngineInvInitially DEF Init, ReplayInv, AllowedIsHarmless
<1>2. (Typed /\ ReplayInv /\ EngineInv /\ AllowedIsHarmless) /\ [Next]_vars
        => (Typed /\ ReplayInv /\ EngineInv /\ AllowedIsHarmless)'
  BY TypedStep, ReplayStep, EngineInvStep, AllowedStep
<1> QED
  BY <1>1, <1>2, PTL DEF Spec
=============================================================================
