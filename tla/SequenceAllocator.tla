-------------------------- MODULE SequenceAllocator --------------------------
(***************************************************************************)
(* What the coordinator's replay check needs of the agent: every sequence  *)
(* handed to a caller is above every sequence handed out before, across    *)
(* processes, crashes and restarts.  Numbers may be skipped.               *)
(***************************************************************************)
EXTENDS Naturals

VARIABLES
  last,    \* the last sequence handed out
  count    \* how many have been handed out since it started

Init == last \in Nat /\ count = 0

Allocate ==
  /\ last' \in Nat /\ last' > last
  /\ count' = count + 1

Spec == Init /\ [][Allocate]_<<last, count>>
==============================================================================
