----------------------------- MODULE Available ------------------------------
(***************************************************************************)
(* Available expressions: asst2/ClassicalDataflow/available.cpp.  An        *)
(* Expression is the opcode and the two operands of a binary operator.      *)
(***************************************************************************)
EXTENDS IR, SequencesExt

Expression(insn) == [op |-> insn.op, v1 |-> insn.ops[1], v2 |-> insn.ops[2]]

BinaryOperators(f, b) == {insn \in Elements(f.code[b]) : insn.kind = "bin"}

AvailableDomain(f) ==
    UNION {{Expression(insn) : insn \in BinaryOperators(f, b)} : b \in f.blocks}

\* Killing is by the name of the left-hand side: an unnamed one kills nothing.
Kills(f, insn) ==
    IF insn.id \in f.named
        THEN {e \in AvailableDomain(f) : insn.id \in {e.v1, e.v2}}
        ELSE {}

Generates(f, insn) == IF insn.kind = "bin" THEN {Expression(insn)} ELSE {}

\* Faulty form, for checking that the properties notice: everything the block
\* kills is taken out after everything it generates was put in.
AvailableTransferKillsLast(f, b, input) ==
    LET gen == UNION {Generates(f, insn) : insn \in Elements(f.code[b])}
        kill == UNION {Kills(f, insn) : insn \in Elements(f.code[b])}
    IN [element |-> (input \cup gen) \ kill, neighborVals |-> [p \in {} |-> {}]]

AvailableTransfer(f, b, input) ==
    LET step(acc, insn) == [gen |-> (acc.gen \cup Generates(f, insn)) \ Kills(f, insn),
                            kill |-> acc.kill \cup Kills(f, insn)]
        sets == FoldLeft(step, [gen |-> {}, kill |-> {}], f.code[b])
    IN [element |-> (input \ sets.kill) \cup sets.gen,
        neighborVals |-> [p \in {} |-> {}]]

\* availableExprs when the print loop has walked the whole block.
AvailableWalk(f, b, avail) ==
    LET step(acc, insn) == (acc \cup Generates(f, insn)) \ Kills(f, insn)
    IN FoldLeft(step, avail, f.code[b])

-----------------------------------------------------------------------------
(* Reference: e is available on entry to b when every path from the entry  *)
(* to b computes e and redefines no operand of e after the last time.      *)
(* Every definition of an operand counts here, named or not.               *)
Redefines(insn, e) == insn.id \in {e.v1, e.v2}

ComputedLast(f, b, e) ==
    \E i \in DOMAIN f.code[b] :
        /\ f.code[b][i].kind = "bin"
        /\ Expression(f.code[b][i]) = e
        /\ \A j \in i..Len(f.code[b]) : ~Redefines(f.code[b][j], e)

Clobbers(f, b, e) == \E insn \in Elements(f.code[b]) : Redefines(insn, e)

AvailableIn(f, b, e) ==
    LET Missing == {c \in f.blocks : ~ComputedLast(f, c, e)}
        Lost == {c \in Missing \cap Reachable(f) : Clobbers(f, c, e)}
        From == {f.entry} \cup UNION {f.succ[c] : c \in Lost}
    IN b \notin ReachThrough(f, From, Missing)
=============================================================================
