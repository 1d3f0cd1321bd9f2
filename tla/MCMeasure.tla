------------------------------ MODULE MCMeasure ------------------------------
(* An instance of Measure for TLC: the default policy, one that reads labels *)
(* first, one that allows what it can, one whose rule fails, three that do   *)
(* not load; up to two pods; one change of the cluster by someone else.      *)
EXTENDS Measure, TLC

MCDocs == {
  Default,
  [rules |-> <<Rule("outside-prod", "allow"), Rule("always", "deny")>>, default |-> "allow", unmeasured |-> "deny"],
  [rules |-> <<Rule("grants-authority", "deny"), Rule("always", "allow")>>, default |-> "allow", unmeasured |-> "hold"],
  [rules |-> <<Rule("too-costly", "allow")>>, default |-> "allow", unmeasured |-> "hold"],
  [rules |-> <<>>, default |-> "allow", unmeasured |-> "allow"],
  [rules |-> <<>>, default |-> "alow", unmeasured |-> "hold"],
  [rules |-> <<Rule("safe", "allow"), Rule("safe", "deny")>>, default |-> "hold", unmeasured |-> "hold"]}

\* The webhook is there from the start beside one pod and a budget for it.
MCClusters == {c \in ClusterStates :
  /\ c.exists /\ c.may /\ c.sel = "a" /\ c.replicas > 0 /\ c.pdb < 2 /\ c.stray = 0
  /\ c.hook => c.replicas = 1 /\ c.pdb = 1}

Request(op, on, replicas, label, sql, clear) ==
  [op |-> op, on |-> on, replicas |-> replicas, label |-> label, sql |-> sql, clear |-> clear]

MCWrites ==
  {Request(op, "pods", None, "a", FALSE, TRUE) : op \in {"unparseable", "read", "selfreview", "proxy", "evict", "other"}}
  \cup {Request(op, "pods", None, "a", sql, TRUE) : op \in {"exec", "debug"}, sql \in BOOLEAN}
  \cup {Request("delete", on, None, "a", FALSE, TRUE) : on \in {"workload", "claim"}}
  \cup {Request(op, "rbac", None, "a", FALSE, clear) : op \in {"create", "patch"}, clear \in BOOLEAN}
  \cup {Request("create", "token", None, "a", FALSE, TRUE)}
  \cup {Request("create", "workload", 1, "a", FALSE, clear) : clear \in BOOLEAN}
  \cup {Request("update", "workload", n, l, FALSE, TRUE) : n \in {0, 2, None}, l \in {"a", "b"}}
  \cup {Request("patch", "scale", n, "a", FALSE, TRUE) : n \in 0 .. 2}
  \cup {Request("patch", "custom", n, "a", FALSE, TRUE) : n \in {0, 1, None}}
  \cup {Request("update", "service", None, "b", FALSE, TRUE), Request("patch", "pods", None, "b", FALSE, TRUE)}
=============================================================================
