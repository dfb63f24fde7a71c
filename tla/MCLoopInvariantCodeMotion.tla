--------------------- MODULE MCLoopInvariantCodeMotion ----------------------
(***************************************************************************)
(* The code motion pass on small functions with their loops, the blocks of *)
(* a loop in every order that has the header first.                        *)
(***************************************************************************)
EXTENDS LoopInvariantCodeMotion, Programs

\* A loop with an if inside, a loop entered from two blocks (no preheader),
\* and loops in functions with one block the entry does not reach.
IfInLoop == Cfg(6, <<{2}, {3, 4}, {5}, {5}, {2, 6}, {}>>, {6})
TwoEntries == Cfg(4, <<{2, 3}, {3}, {3, 4}, {}>>, {4})
LoopAndOrphan == Cfg(4, <<{2}, {2, 3}, {}, {3}>>, {3})
WhileAndOrphan == Cfg(5, <<{2}, {3, 4}, {2}, {}, {4}>>, {4})

LoopSlots == <<Slot("p", 2, "phi"), Slot("y", 2, "bin"), Slot("m", 2, "load"),
               Slot("z", 2, "bin"), Slot("w", 2, "bin")>>
WhileSlots == <<Slot("p", 2, "phi"), Slot("y", 2, "bin"), Slot("t", 2, "term"),
                Slot("z", 3, "bin"), Slot("r", 4, "term")>>
IfSlots == <<Slot("p", 2, "phi"), Slot("y", 2, "bin"), Slot("u", 3, "bin"),
             Slot("v", 4, "bin"), Slot("w", 5, "bin")>>
TwoSlots == <<Slot("x", 1, "bin"), Slot("y", 3, "bin")>>
NestSlots == <<Slot("p", 2, "phi"), Slot("x", 2, "bin"), Slot("y", 3, "bin"),
               Slot("w", 4, "bin"), Slot("r", 5, "term")>>
OrphanSlots == <<Slot("y", 2, "bin"), Slot("z", 2, "bin")>>

WithLoops(programs, orders) ==
    {f @@ [loops |-> o] : f \in {g \in programs : g.named # {}}, o \in orders}

Nested == WithLoops(ProgramsOn(Nest, NestSlots),
                    {<<<<3>>, <<2, 3, 4>>>>, <<<<3>>, <<2, 4, 3>>>>})
Orphaned == WithLoops(ProgramsOn(WhileAndOrphan, OrphanSlots), {<<<<2, 3>>>>})

ProgramSet ==
    UNION {WithLoops(ProgramsOn(Loop, LoopSlots), {<<<<2>>>>}),
           WithLoops(ProgramsOn(While, WhileSlots), {<<<<2, 3>>>>}),
           WithLoops(ProgramsOn(IfInLoop, IfSlots),
                     {<<<<2, 3, 4, 5>>>>, <<<<2, 5, 4, 3>>>>}),
           WithLoops(ProgramsOn(TwoEntries, TwoSlots), {<<<<3>>>>}),
           WithLoops(ProgramsOn(LoopAndOrphan, OrphanSlots), {<<<<2>>>>}),
           Nested, Orphaned}
AllPrograms == ProgramSet
=============================================================================
