----------------------------- MODULE MCApprovals -----------------------------
(* Instances of Approvals for TLC. *)
EXTENDS Approvals, TLC, FiniteSets

CONSTANTS bob, bob2, Bob, dave, carol, k1, k2, grant, plain, other

\* bob2 is bob's account made again after a revocation, Bob another spelling,
\* and carol's account is linked to the human the requests are made for.
MCAccountName == [a \in Accounts |->
  CASE a \in {bob, bob2} -> "bob" [] a = Bob -> "Bob" [] a = dave -> "dave" [] OTHER -> "carol"]
MCLinkedHumans == [a \in Accounts |-> IF a = carol THEN {"alice"} ELSE {}]
MCNames == {"bob", "Bob", "dave", "carol", "alice"}
MCFold == [n \in MCNames |-> IF n = "Bob" THEN "bob" ELSE n]
MCKeyHuman == [k \in Keys |-> "alice"]

Workers == Permutations(Callers) \cup Permutations(Retriers)
=============================================================================
