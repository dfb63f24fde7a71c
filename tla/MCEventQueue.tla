---------------------------- MODULE MCEventQueue ----------------------------
(***************************************************************************)
(* Instances of the event queue for TLC: the event c has another priority. *)
(***************************************************************************)
EXTENDS EventQueue

CONSTANTS a, b, c, d

FourEvents == {a, b, c, d}

Priorities == [e \in FourEvents |-> IF e = c THEN -1 ELSE 0]

Symmetry == Permutations(FourEvents \ {c})
=============================================================================
