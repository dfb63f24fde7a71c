----------------------- MODULE MCDeadCodeElimination ------------------------
(***************************************************************************)
(* The dead-code elimination pass on small functions.                      *)
(***************************************************************************)
EXTENDS DeadCodeElimination, Programs

LoopSlots == <<Slot("x", 1, "bin"), Slot("p", 2, "phi"), Slot("y", 2, "bin"),
               Slot("t", 2, "term"), Slot("r", 3, "term")>>
WhileSlots == <<Slot("p", 2, "phi"), Slot("t", 2, "term"), Slot("y", 3, "bin"),
                Slot("z", 3, "bin"), Slot("r", 4, "term")>>
DiamondSlots == <<Slot("x", 1, "bin"), Slot("y", 2, "bin"), Slot("z", 3, "call"),
                  Slot("p", 4, "phi"), Slot("r", 4, "term")>>
ExitSlots == <<Slot("x", 1, "bin"), Slot("y", 1, "bin"), Slot("e", 2, "call"),
               Slot("r", 3, "term")>>
NestSlots == <<Slot("p", 2, "phi"), Slot("q", 3, "phi"), Slot("y", 4, "bin"),
               Slot("r", 5, "term")>>
OrphanSlots == <<Slot("x", 1, "bin"), Slot("y", 2, "call"), Slot("p", 3, "phi"),
                 Slot("r", 3, "term")>>

ProgramSet ==
    {f \in UNION {ProgramsOn(Loop, LoopSlots), ProgramsOn(While, WhileSlots),
                  ProgramsOn(Diamond, DiamondSlots), ProgramsOn(Exit, ExitSlots),
                  ProgramsOn(Nest, NestSlots), ProgramsOn(Orphan, OrphanSlots)} :
        f.named # {}}
AllPrograms == ProgramSet

(***************************************************************************)
(* What the proofs about the solver assume of a transfer function, for     *)
(* the one whose phi values depend on the sets: inputs that give the same  *)
(* element give the same phi values, and larger inputs give larger ones.   *)
(***************************************************************************)
ASSUME StrongTransferAssumption ==
    \A f \in ProgramSet : \A b \in f.blocks :
        LET results == {<<input, StrongTransfer(f, b, input)>> :
                            input \in SUBSET StrongDomain(f)}
        IN \A r1, r2 \in results :
              /\ r1[2].element = r2[2].element => r1[2].neighborVals = r2[2].neighborVals
              /\ r1[1] \subseteq r2[1] =>
                    /\ r1[2].element \subseteq r2[2].element
                    /\ \A p \in DOMAIN r1[2].neighborVals :
                          /\ p \in DOMAIN r2[2].neighborVals
                          /\ r1[2].neighborVals[p] \subseteq r2[2].neighborVals[p]
=============================================================================
