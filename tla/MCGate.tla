-------------------------------- MODULE MCGate --------------------------------
(* Instances of Gate for TLC: one approver at the command line, requests    *)
(* for one key.                                                             *)
EXTENDS Gate, TLC, FiniteSets

CONSTANTS k1, small, big, r1, r2, r3

MCNames == {"dave", "alice"}
MCEmpty == [a \in Accounts |-> {}]
MCFold == [n \in MCNames |-> n]
MCKeyHuman == [k \in Keys |-> "alice"]
MCRequestKey == [r \in Requests |-> k1]

\* The policy allows or holds a small impact (its namespace labels decide)
\* and holds or denies a big one.
MCVerdict == [i \in Impacts |-> IF i = small THEN {"allow", "hold"} ELSE {"hold", "deny"}]
MCHeld == [i \in Impacts |-> IF i = small THEN {"hold"} ELSE {"hold", "deny"}]
HoldOnly == [i \in Impacts |-> {"hold"}]

\* A big impact is a delete of data; a small one a create or an update.
CreateOrDelete == [i \in Impacts |-> {i = big}]
UpdateOrDelete == [i \in Impacts |-> IF i = big THEN {TRUE} ELSE BOOLEAN]

Twins == Permutations(Requests)
=============================================================================
