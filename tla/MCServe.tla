------------------------------- MODULE MCServe -------------------------------
(* An instance of Serve for TLC: one agent request with its dry-run, a direct *)
(* write, one review at a time.                                              *)
EXTENDS Serve, TLC

CONSTANTS r1, s1, dry, real, direct

MCHuman == [s \in SessionIds |-> "alice"]
MCDryRun == [r \in Requests |-> dry]
MCReal == [r \in Requests |-> real]
=============================================================================
