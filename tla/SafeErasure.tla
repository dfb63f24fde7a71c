----------------------------- MODULE SafeErasure ----------------------------
(***************************************************************************)
(* What a dead-code elimination may do to a function: take out, in one or  *)
(* more steps, instructions that no essential instruction needs, never one *)
(* that a remaining instruction uses, and leave the rest in place and in   *)
(* order.                                                                  *)
(***************************************************************************)
EXTENDS StrongLiveness

VARIABLES fn, code

Without(c, R) == [b \in DOMAIN c |-> SelectSeq(c[b], LAMBDA insn : insn.id \notin R)]

Uses(c) == UNION {Elements(insn.ops) \cup {e[2] : e \in insn.inc} :
                     insn \in UNION {Elements(c[b]) : b \in DOMAIN c}}

Init == code = fn.code

Erase ==
    /\ code' # code
    /\ \E R \in SUBSET (InsnIds(fn) \ Needed(fn)) :
          /\ code' = Without(code, R)
          /\ Uses(code') \cap R = {}
    /\ UNCHANGED fn

Spec == Init /\ [][Erase]_<<fn, code>>
=============================================================================
