--------------------------- MODULE ReleaseContract ---------------------------
(***************************************************************************)
(* What holding a request for approval promises, with no database, no       *)
(* clock and no concurrency in it.  An item is asked about; people say yes; *)
(* it is granted when as many different people have said yes as it needs,   *)
(* and a grant is used at most once.  An item can be closed at any point    *)
(* before it is used, and a yes given to an item still being asked about    *)
(* can be replaced by another person's (its giver no longer counts), which  *)
(* grants nothing.                                                          *)
(***************************************************************************)
EXTENDS Naturals, FiniteSets

CONSTANTS Items, People

VARIABLES
  phase,     \* unborn, asked, granted, used or closed
  need,      \* how many people the item needs
  yes        \* who has said yes and counts

contractVars == <<phase, need, yes>>

Init ==
  /\ phase = [i \in Items |-> "unborn"]
  /\ need = [i \in Items |-> 0]
  /\ yes = [i \in Items |-> {}]

Ask(i) ==
  /\ phase[i] = "unborn"
  /\ phase' = [phase EXCEPT ![i] = "asked"]
  /\ \E n \in {1, 2} : need' = [need EXCEPT ![i] = n]
  /\ UNCHANGED yes

SayYes(i, p) ==
  /\ phase[i] = "asked"
  /\ p \notin yes[i]
  /\ yes' = [yes EXCEPT ![i] = @ \cup {p}]
  /\ phase' = [phase EXCEPT ![i] = IF Cardinality(yes[i]) + 1 = need[i] THEN "granted" ELSE "asked"]
  /\ UNCHANGED need

ReplaceYes(i, p, q) ==
  /\ phase[i] = "asked"
  /\ p \in yes[i]
  /\ yes' = [yes EXCEPT ![i] = (@ \ {p}) \cup {q}]
  /\ UNCHANGED <<phase, need>>

Use(i) ==
  /\ phase[i] = "granted"
  /\ phase' = [phase EXCEPT ![i] = "used"]
  /\ UNCHANGED <<need, yes>>

Close(i) ==
  /\ phase[i] \in {"asked", "granted"}
  /\ phase' = [phase EXCEPT ![i] = "closed"]
  /\ UNCHANGED <<need, yes>>

Next ==
  \E i \in Items :
    \/ Ask(i) \/ Use(i) \/ Close(i)
    \/ \E p \in People : SayYes(i, p)
    \/ \E p, q \in People : ReplaceYes(i, p, q)

Spec == Init /\ [][Next]_contractVars

=============================================================================
