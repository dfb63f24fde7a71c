------------------------------ MODULE Liveness ------------------------------
(***************************************************************************)
(* Live variables: asst2/ClassicalDataflow/liveness.cpp, the parameters it *)
(* gives the solver of module Dataflow and the walk that prints liveness   *)
(* inside the blocks.                                                      *)
(***************************************************************************)
EXTENDS IR, SequencesExt

\* Operands of a non-phi instruction, and incoming values of a phi, that
\* are instructions or arguments.
Uses(f, insn) == Elements(insn.ops) \cap Locals(f)

Incoming(f, insn) == {e \in insn.inc : e[2] \in Locals(f)}

LivenessDomain(f) ==
    UNION {UNION {Uses(f, insn) \cup {e[2] : e \in Incoming(f, insn)} :
                     insn \in Elements(f.code[b])} : b \in f.blocks}

\* neighborVals for a set of (incoming block, value) pairs.
PhiVals(edges) ==
    [p \in {e[1] : e \in edges} |-> {e[2] : e \in {g \in edges : g[1] = p}}]

\* Faulty form, for checking that the properties notice: the operands of a phi
\* are uses in the phi's own block.
LivenessTransferPhiAsUse(f, b, input) ==
    LET code == f.code[b]
        defBefore(i) == {code[j].id : j \in 1..(i - 1)}
        all(insn) == Uses(f, insn) \cup {e[2] : e \in Incoming(f, insn)}
        useSet == UNION {all(code[i]) \ defBefore(i) : i \in DOMAIN code}
        defSet == {insn.id : insn \in Elements(code)}
    IN [element |-> (input \ defSet) \cup useSet, neighborVals |-> PhiVals({})]

LivenessTransfer(f, b, input) ==
    LET code == f.code[b]
        defBefore(i) == {code[j].id : j \in 1..(i - 1)}
        useSet == UNION {Uses(f, code[i]) \ defBefore(i) : i \in DOMAIN code}
        defSet == {insn.id : insn \in Elements(code)}
        phis == UNION {Incoming(f, insn) : insn \in Elements(code)}
    IN [element |-> (input \ defSet) \cup useSet, neighborVals |-> PhiVals(phis)]


\* The print loop's step over one instruction, last instruction first.
LivenessWalkStep(f, insn, live) ==
    IF IsPhi(insn) THEN live \ {insn.id}
                   ELSE (live \cup Uses(f, insn)) \ {insn.id}

\* liveValues when the print loop has walked the whole block backward.
LivenessWalk(f, b, live) ==
    LET step(insn, acc) == LivenessWalkStep(f, insn, acc)
    IN FoldRight(step, f.code[b], live)

-----------------------------------------------------------------------------
(* Reference: v is live out of b when some path from the end of b reaches   *)
(* a use of v that no definition of v precedes.  A phi uses its operand on  *)
(* the edge from the incoming block.                                        *)
Defines(f, b, v) == \E insn \in Elements(f.code[b]) : insn.id = v

UsesOnEdge(f, p, s, v) ==
    s \in f.succ[p] /\ \E insn \in Elements(f.code[s]) : <<p, v>> \in insn.inc

ExposedUse(f, b, v) ==
    \E i \in DOMAIN f.code[b] : /\ v \in Elements(f.code[b][i].ops)
                                /\ \A j \in 1..(i - 1) : f.code[b][j].id # v

LiveOut(f, b, v) ==
    LET Clear == {c \in f.blocks : ~Defines(f, c, v)}
        R == ReachThrough(f, f.succ[b], Clear)
    IN \/ \E s \in f.blocks : UsesOnEdge(f, b, s, v)
       \/ \E c \in R : \/ ExposedUse(f, c, v)
                       \/ c \in Clear /\ \E s \in f.blocks : UsesOnEdge(f, c, s, v)
=============================================================================
