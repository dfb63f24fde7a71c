--------------------------- MODULE StrongLiveness ---------------------------
(***************************************************************************)
(* The analysis of the dead-code elimination pass, class DCEAnalysis of    *)
(* asst3/LICM/DeadCodeElimination.cpp: an instruction is strongly live     *)
(* when it is essential or an operand of a strongly live one.              *)
(***************************************************************************)
EXTENDS IR, SequencesExt

StrongDomain(f) == InsnIds(f)

\* Terminators, debug intrinsics, landing pads and side effects.
Essential(insn) == insn.kind \in {"term", "call"}

EssentialIds(f, b) == {insn.id : insn \in {i \in Elements(f.code[b]) : Essential(i)}}

StrongUses(f, insn) == Elements(insn.ops) \cap InsnIds(f)

StrongIncoming(f, insn) == {e \in insn.inc : e[2] \in InsnIds(f)}

\* Faulty form, for checking that the properties notice: every instruction
\* makes its operands live.
StrongStepWeak(f, insn, acc) ==
    [use |-> acc.use \cup StrongUses(f, insn),
     phi |-> acc.phi \cup StrongIncoming(f, insn),
     def |-> acc.def \cup {insn.id}]

\* The backward walk over the block: only a live instruction adds operands.
StrongStep(f, insn, acc) ==
    IF insn.id \notin acc.use THEN acc
    ELSE [use |-> acc.use \cup StrongUses(f, insn),
          phi |-> acc.phi \cup StrongIncoming(f, insn),
          def |-> acc.def \cup {insn.id}]

StrongTransfer(f, b, input) ==
    LET step(insn, acc) == StrongStep(f, insn, acc)
        start == [use |-> input \cup EssentialIds(f, b), phi |-> {}, def |-> {}]
        end == FoldRight(step, f.code[b], start)
    IN [element |-> (input \ end.def) \cup end.use,
        neighborVals |-> [p \in {e[1] : e \in end.phi} |->
                             {e[2] : e \in {g \in end.phi : g[1] = p}}]]

-----------------------------------------------------------------------------
(* Reference: the instructions that essential ones of reachable blocks      *)
(* need, directly or through other instructions.  A phi needs the operands  *)
(* of the edges that can be taken.                                          *)
Needed(f) ==
    LET R == Reachable(f)
        Code == UNION {Elements(f.code[b]) : b \in R}
        Operands(insn) ==
            (Elements(insn.ops) \cup {e[2] : e \in {g \in insn.inc : g[1] \in R}})
                \cap InsnIds(f)
        Needs == [id \in InsnIds(f) |->
                     UNION {Operands(insn) : insn \in {i \in Code : i.id = id}}]
        Roots == {insn.id : insn \in {i \in Code : Essential(i)}}
        Closed(S) == Roots \subseteq S /\ \A v \in S : Needs[v] \subseteq S
    IN {v \in InsnIds(f) : \A S \in SUBSET InsnIds(f) : Closed(S) => v \in S}
=============================================================================
