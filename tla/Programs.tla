------------------------------ MODULE Programs ------------------------------
(***************************************************************************)
(* Small functions for the models: control-flow graphs, their post order   *)
(* as LLVM's po_iterator computes it (external), and the SSA programs that *)
(* can be put on a graph.                                                  *)
(***************************************************************************)
EXTENDS IR, SequencesExt

\* Depth-first search, successors in increasing order: from[seen, b] lists the
\* blocks finished by entering b when the blocks in seen have been entered.
PostOrder(entry, succ) ==
    LET from[p \in (SUBSET DOMAIN succ) \X DOMAIN succ] ==
            LET entered == p[1] \cup {p[2]}
                visit(po, s) ==
                    IF s \in entered \cup Elements(po)
                        THEN po
                        ELSE po \o from[<<entered \cup Elements(po), s>>]
            IN Append(FoldLeft(visit, <<>>, SetToSortSeq(succ[p[2]], <)), p[2])
    IN from[<<{}, entry>>]

\* The graph on 1..n with entry 1; rets are the leaves that return (the others
\* end in "unreachable", after a call to exit).
Cfg(n, succ, rets) ==
    [blocks |-> 1..n, entry |-> 1, succ |-> succ, rets |-> rets,
     po |-> PostOrder(1, succ)]

Leaves(succ) == {b \in DOMAIN succ : succ[b] = {}}

\* All graphs on 1..n in which a block has at most two successors and none
\* branches to the entry; every leaf returns.
AllCfgs(n) ==
    {Cfg(n, succ, Leaves(succ)) :
        succ \in [1..n -> {S \in SUBSET (2..n) : Cardinality(S) <= 2}]}
-----------------------------------------------------------------------------
(* Programs.  A slot [id, block, kind] says which instruction is where; its *)
(* operands range over the values an SSA program may use there.  The        *)
(* unconditional branches, which have neither value nor operand, are left   *)
(* out of the code.                                                         *)

Slot(id, block, kind) == [id |-> id, block |-> block, kind |-> kind]

Args == {"a"}

\* Values available at the end of block b, and before slot k.
VisibleAtEnd(g, slots, b) ==
    Args \cup {s.id : s \in {t \in Elements(slots) :
                  t.kind # "term" /\ (t.block = b \/ StrictlyDominates(g, t.block, b))}}

VisibleAt(g, slots, k) ==
    VisibleAtEnd(g, slots, slots[k].block)
        \ {slots[j].id : j \in {i \in k..Len(slots) : slots[i].block = slots[k].block}}

Insn(slot, ops, inc) ==
    [id |-> slot.id, kind |-> slot.kind, op |-> IF slot.kind = "bin" THEN "+" ELSE "",
     ops |-> ops, inc |-> inc]

\* The instructions slot k may hold: a phi with a value for each predecessor, a
\* binary operator on a value and the constant "k", or an instruction with at
\* most one operand.
InsnChoices(g, slots, k) ==
    LET s == slots[k]
        preds == Preds(g, s.block)
        ends == {h \in [preds -> UNION {VisibleAtEnd(g, slots, p) : p \in preds}] :
                    \A p \in preds : h[p] \in VisibleAtEnd(g, slots, p)}
    IN CASE s.kind = "phi" -> {Insn(s, <<>>, {<<p, h[p]>> : p \in preds}) : h \in ends}
         [] s.kind = "bin" -> {Insn(s, <<v, "k">>, {}) : v \in VisibleAt(g, slots, k)}
         [] OTHER -> {Insn(s, <<>>, {})}
                        \cup {Insn(s, <<v>>, {}) : v \in VisibleAt(g, slots, k)}

\* All ways to fill the slots; in half of them no instruction has a name.
ProgramsOn(g, slots) ==
    LET empty == [b \in g.blocks |-> <<>>]
        choices == [k \in 1..Len(slots) |-> InsnChoices(g, slots, k)]
        fill(codes, k) ==
            {[c EXCEPT ![slots[k].block] = Append(@, i)] : c \in codes, i \in choices[k]}
        ids == {s.id : s \in Elements(slots)}
    IN {[blocks |-> g.blocks, entry |-> g.entry, succ |-> g.succ, rets |-> g.rets,
         po |-> g.po, args |-> Args, named |-> names, code |-> c] :
            names \in {{}, Args \cup ids},
            c \in FoldLeft(fill, {empty}, [k \in 1..Len(slots) |-> k])}

\* The shapes: a one-block loop, a while loop, a diamond, a branch to a call of
\* exit, a nest of two loops, and a block the entry does not reach.
Loop == Cfg(3, <<{2}, {2, 3}, {}>>, {3})
While == Cfg(4, <<{2}, {3, 4}, {2}, {}>>, {4})
Diamond == Cfg(4, <<{2, 3}, {4}, {4}, {}>>, {4})
Exit == Cfg(3, <<{2, 3}, {}, {}>>, {3})
Nest == Cfg(5, <<{2}, {3}, {3, 4}, {2, 5}, {}>>, {5})
Orphan == Cfg(3, <<{3}, {3}, {}>>, {3})
=============================================================================
