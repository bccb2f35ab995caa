------------------------------ MODULE MCUpgrade ------------------------------
(* Two instructions, each for a build of its own. *)
EXTENDS Upgrade, TLC

MCBuildOf == [u \in Upgrades |-> IF u = "u1" THEN "new" ELSE "newer"]
Symmetry == Permutations(Workers)
==============================================================================
