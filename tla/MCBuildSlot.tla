---------------------------- MODULE MCBuildSlot -----------------------------
(***************************************************************************)
(* Instances of BuildSlot for TLC: two processes, interchangeable.         *)
(***************************************************************************)
EXTENDS BuildSlot, TLC

CONSTANTS c1, c2

MCClis == {c1, c2}

MCSymmetry == Permutations(MCClis)

=============================================================================
