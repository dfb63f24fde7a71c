-------------------------- MODULE MCCoherentCaches --------------------------
(***************************************************************************)
(* Caches of one frame each, so that every fill replaces a block.          *)
(***************************************************************************)
EXTENDS CoherentCaches, TLC

CONSTANTS c1, c2, c3, v1, v2

TwoPorts == <<c1, c2>>

ThreePorts == <<c1, c2, c3>>

TwoValues == {v1, v2}

Swapped == Permutations(Blocks) \cup Permutations(TwoValues)
=============================================================================
