------------------------------ MODULE MCDataDir ------------------------------
(* An instance of DataDir for TLC: three servers or session commands of two  *)
(* builds and two host lists, and webhook-config.                            *)
EXTENDS DataDir, TLC

CONSTANTS p1, p2, p3, p4

MCKind == [p \in Procs |-> IF p = p4 THEN "readca" ELSE "serve"]
MCBuild == [p \in Procs |-> IF p = p1 THEN 1 ELSE 2]
MCHosts == [p \in Procs |-> IF p = p2 THEN {"a", "b"} ELSE {"a"}]
=============================================================================
