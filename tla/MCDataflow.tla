----------------------------- MODULE MCDataflow -----------------------------
(***************************************************************************)
(* The solver run with each analysis of the repository on small functions. *)
(***************************************************************************)
EXTENDS Dataflow, Liveness, Available, Dominance, Programs

AllFalse(f) == {}

\* TLC evaluates a definition without parameters once; the .cfg names the
\* second of each pair.
Graphs4 == AllCfgs(4)
Cfgs4 == Graphs4

LoopSlots == <<Slot("x", 1, "bin"), Slot("p", 2, "phi"), Slot("y", 2, "bin"),
               Slot("t", 2, "term"), Slot("r", 3, "term")>>
CallSlots == <<Slot("x", 1, "call"), Slot("p", 2, "phi"), Slot("y", 2, "call")>>
WhileSlots == <<Slot("p", 2, "phi"), Slot("t", 2, "term"), Slot("y", 3, "bin"),
                Slot("r", 4, "term")>>
DiamondSlots == <<Slot("x", 1, "bin"), Slot("y", 2, "bin"), Slot("z", 3, "bin"),
                  Slot("p", 4, "phi"), Slot("r", 4, "term")>>
ExitSlots == <<Slot("x", 1, "bin"), Slot("e", 2, "call"), Slot("r", 3, "term")>>
NestSlots == <<Slot("p", 2, "phi"), Slot("q", 3, "phi"), Slot("y", 4, "bin"),
               Slot("r", 5, "term")>>
OrphanSlots == <<Slot("x", 1, "bin"), Slot("y", 2, "bin"), Slot("p", 3, "phi"),
                 Slot("r", 3, "term")>>

SmallPrograms ==
    UNION {ProgramsOn(Loop, LoopSlots), ProgramsOn(Loop, CallSlots),
           ProgramsOn(While, WhileSlots),
           ProgramsOn(Diamond, DiamondSlots), ProgramsOn(Exit, ExitSlots),
           ProgramsOn(Nest, NestSlots), ProgramsOn(Orphan, OrphanSlots)}
AllPrograms == SmallPrograms

NamedPrograms == {f \in SmallPrograms : f.named # {}}
LivePrograms == NamedPrograms

-----------------------------------------------------------------------------
(* The IN set of a reachable block is the set of its strict dominators. *)
DominanceExact ==
    pc = "done" => \A b \in Visited(fn) :
        in[b] = {d \in fn.blocks : StrictlyDominates(fn, d, b)}

(* A value is in the OUT set of a block exactly when a path from its end    *)
(* reaches a use of the value before a definition, a phi using its operand  *)
(* on the incoming edge only.                                               *)
LivenessExact ==
    pc = "done" => \A b \in Visited(fn) :
        Bits(out[b]) = {v \in LivenessDomain(fn) : LiveOut(fn, b, v)}


(* An expression is in the IN set of a block exactly when every path to it  *)
(* computes the expression and then leaves its operands alone, although     *)
(* the transfer function does not see definitions without a name.  The      *)
(* print loop, walking a block forward from IN, ends with OUT.              *)
AvailableExact ==
    pc = "done" => \A b \in Visited(fn) :
        /\ in[b] = {e \in AvailableDomain(fn) : AvailableIn(fn, b, e)}
        /\ AvailableWalk(fn, b, in[b]) = out[b]
=============================================================================
