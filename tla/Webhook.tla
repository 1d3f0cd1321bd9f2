------------------------------- MODULE Webhook -------------------------------
(***************************************************************************)
(* The bypass webhook (internal/webhook): the API server asks it about every *)
(* write, it records those that did not come through blastgate, and lets     *)
(* every one pass.  A review is the call about one write.  Its handler holds *)
(* one of maxInFlight slots from before its body is read until it returns.   *)
(***************************************************************************)
EXTENDS Integers, FiniteSets

CONSTANTS
  Writes,        \* calls that change the cluster, dry-runs included
  Plain,         \* the writes bypassed would count: not noise, not an ignored user
  MaxInFlight,   \* maxInFlight
  Nobody

ASSUME WebhookAssumption == Plain \subseteq Writes /\ IsFiniteSet(Writes) /\ MaxInFlight \in Nat

VARIABLES
  review,   \* the handler of each write's review
  slots,    \* the length of h.sem
  bypass,   \* the bypass table
  logged    \* writes an operator is told of in the log instead

webhookVars == <<review, slots, bypass, logged>>

InHandler == {"body", "record", "allow"}
Reviews == [pc  : InHandler \cup {"none", "allowed", "error"},
            via : BOOLEAN]   \* the user's extra names a blastgate session

WebhookTypeOK ==
  /\ review \in [Writes -> Reviews]
  /\ slots \in 0 .. MaxInFlight
  /\ bypass \subseteq Writes /\ logged \subseteq Writes

WebhookInit ==
  /\ review = [w \in Writes |-> [pc |-> "none", via |-> FALSE]]
  /\ slots = 0 /\ bypass = {} /\ logged = {}

ReviewAt(w, pc) == review[w].pc = pc
ReviewGoto(w, pc) == review' = [review EXCEPT ![w].pc = pc]

\* The deferred release: the handler returns, its answer on the wire.
Return(w, answer) == ReviewGoto(w, answer) /\ slots' = slots - 1

TakeReviewUnbounded(w, via) ==                                        \* mutant
  /\ slots' = slots + 1
  /\ review' = [review EXCEPT ![w] = [pc |-> "body", via |-> via]]
  /\ UNCHANGED <<bypass, logged>>

\* A review arrives: a slot, or an immediate 503.
TakeReview(w, via) ==
  \/ /\ slots < MaxInFlight
     /\ slots' = slots + 1
     /\ review' = [review EXCEPT ![w] = [pc |-> "body", via |-> via]]
     /\ UNCHANGED <<bypass, logged>>
  \/ /\ slots = MaxInFlight
     /\ review' = [review EXCEPT ![w] = [pc |-> "error", via |-> via]]
     /\ logged' = logged \cup {w}
     /\ UNCHANGED <<slots, bypass>>

BypassedByAnyone(w) == w \in Plain                                    \* mutant

Bypassed(w) == w \in Plain /\ ~review[w].via

\* The body is read and decoded: what it says decides whether it is recorded.
ReadReview(w) ==
  /\ ReviewAt(w, "body")
  /\ ReviewGoto(w, IF Bypassed(w) THEN "record" ELSE "allow")
  /\ UNCHANGED <<slots, bypass, logged>>

RefuseReviewKeepingSlot(w) ==                                         \* mutant
  /\ ReviewAt(w, "body")
  /\ ReviewGoto(w, "error")
  /\ UNCHANGED <<slots, bypass, logged>>

\* It is too large, which the log tells; or it was cut short, ran into the
\* read timeout or is no review, which it does not.
RefuseReview(w) ==
  /\ ReviewAt(w, "body")
  /\ Return(w, "error")
  /\ \/ logged' = logged
     \/ logged' = logged \cup {w}
  /\ UNCHANGED bypass

\* It does not decode but its uid does: allowed, nothing recorded.
AllowUnread(w) ==
  /\ ReviewAt(w, "body")
  /\ ReviewGoto(w, "allow")
  /\ logged' = logged \cup {w}
  /\ UNCHANGED <<slots, bypass>>

\* AppendBypass, detached from the API server's own timeout.
Record(w) ==
  /\ ReviewAt(w, "record")
  /\ bypass' = bypass \cup {w}
  /\ ReviewGoto(w, "allow")
  /\ UNCHANGED <<slots, logged>>

RecordFailsOnlyOnError(w) == FALSE /\ UNCHANGED webhookVars           \* mutant

\* It fails, or recordTimeout passes: the row is lost, the log has it.
RecordFails(w) ==
  /\ ReviewAt(w, "record")
  /\ logged' = logged \cup {w}
  /\ ReviewGoto(w, "allow")
  /\ UNCHANGED <<slots, bypass>>

Allow(w) ==
  /\ ReviewAt(w, "allow")
  /\ Return(w, "allowed")
  /\ UNCHANGED <<bypass, logged>>

\* What the timeouts of the server and of record make happen, whatever the
\* sender and the disk do.
ReviewEnds(w) == RefuseReview(w) \/ RecordFails(w) \/ Allow(w)
=============================================================================
