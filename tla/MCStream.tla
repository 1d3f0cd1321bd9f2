------------------------------- MODULE MCStream -------------------------------
(* Instances of Stream for TLC. *)
EXTENDS Stream, TLC

CONSTANTS t1, t2, c1, c2, q1, q2

Connections == Permutations(Conns)
ConnectionsAndTabs == Permutations(Conns) \cup Permutations(Tabs)
===============================================================================
