--------------------------- MODULE ReliableDelivery ---------------------------
(***************************************************************************)
(* What the outbox promises to the code that submits events, without       *)
(* tables, attempts, sequences, processes or faults: an accepted event is  *)
(* queued until the coordinator has it; the only other way out of the      *)
(* queue is an eviction, which takes expendable events only and counts     *)
(* every one of them.  A delivered or an evicted event stays what it is.   *)
(***************************************************************************)
EXTENDS Integers, FiniteSets

CONSTANT Events

VARIABLES
  status,       \* of each event
  expendable,   \* the events that may be evicted
  counted       \* evictions the submitting side can learn of

vars == <<status, expendable, counted>>

Init ==
  /\ status = [e \in Events |-> "none"]
  /\ expendable = {}
  /\ counted = 0

Evict(gone) ==
  /\ gone \subseteq expendable
  /\ \A e \in gone : status[e] = "queued"
  /\ counted' = counted + Cardinality(gone)

\* An event is admitted, if need be at the expense of others.
Admit(e, gone) ==
  /\ status[e] = "none"
  /\ Evict(gone)
  /\ status' = [f \in Events |-> IF f \in gone THEN "evicted"
                                 ELSE IF f = e THEN "queued" ELSE status[f]]
  /\ expendable' \in {expendable, expendable \cup {e}}

\* Room is made for an attempt.
MakeRoom(gone) ==
  /\ Evict(gone)
  /\ status' = [f \in Events |-> IF f \in gone THEN "evicted" ELSE status[f]]
  /\ UNCHANGED expendable

\* The coordinator commits an event.
Deliver(e) ==
  /\ status[e] = "queued"
  /\ status' = [status EXCEPT ![e] = "delivered"]
  /\ UNCHANGED <<expendable, counted>>

Next ==
  \/ \E gone \in SUBSET Events : MakeRoom(gone) \/ \E e \in Events : Admit(e, gone)
  \/ \E e \in Events : Deliver(e)

Spec == Init /\ [][Next]_vars
==============================================================================
