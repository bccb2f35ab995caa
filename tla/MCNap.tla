-------------------------------- MODULE MCNap --------------------------------
(* Instances of the NAP sequence state for TLC. *)
EXTENDS NapSequence

\* On Linux an interrupted write in place is looked at in a run of its own.
MCMaxFaults == [x \in Platforms |-> IF x = "windows" THEN 4 ELSE 0]
MCOneFault == [x \in Platforms |-> 1]
==============================================================================
