------------------------ MODULE MCLoopMemoryAnalysis ------------------------
(***************************************************************************)
(* Modules of two functions for the loop memory analysis: all short chains *)
(* of address computations in every layout order, and accesses with every  *)
(* small nest of recurrences.                                              *)
(***************************************************************************)
EXTENDS LoopMemoryAnalysis

None == [kind |-> "none"]

Opaque == [kind |-> "opaque"]

C(n) == [kind |-> "const", val |-> n]

Rec(l, ops) == [kind |-> "rec", loop |-> l, ops |-> ops]

Insn(op, ptr) == [op |-> op, ptr |-> ptr, scev |-> None]

Access(op, ptr, e) == [op |-> op, ptr |-> ptr, scev |-> e]

Global == <<0, 0>>

Numbers == {-4, -1, 0, 1, 4}

Leaves == {C(n) : n \in Numbers} \cup {Opaque}

\* {a, +, b} in one loop, {{a, +, b}, +, c} and {a, +, {b, +, c}} in two, the
\* second-order {a, +, b, +, c}, and a nest of three.
Expressions ==
    {Rec(1, <<a, b>>) : a, b \in Leaves}
        \cup {Rec(2, <<Rec(1, <<a, b>>), c>>) : a, b, c \in Leaves}
        \cup {Rec(2, <<a, Rec(1, <<b, c>>)>>) : a, b, c \in {C(1), C(4), Opaque}}
        \cup {Rec(1, <<a, b, c>>) : a, b, c \in {C(1), C(4), Opaque}}
        \cup {Rec(3, <<Rec(2, <<Rec(1, <<C(0), a>>), b>>), c>>) : a, b, c \in {C(-4), C(1), C(4)}}

Example == Rec(2, <<Rec(1, <<C(0), C(4)>>), C(1)>>)

\* One access to an annotated array in a loop.
AccessModules ==
    {<<[entry |-> 2, code |-> <<Insn("bitcast", <<1, 0>>), Insn("annotation", <<1, 1>>),
                                Insn("gep", <<1, 0>>), Access(op, <<1, 3>>, e)>>]>> :
        op \in {"load", "store"}, e \in Expressions}

\* What a function may annotate in its entry block: an array, a cast of it, a
\* cast of a cast, a global.
Annotations(f) ==
    {<<Insn("annotation", p)>> : p \in {<<f, 0>>, Global}}
        \cup {<<Insn("bitcast", <<f, 0>>), Insn("annotation", <<f, 1>>)>>}
        \cup {<<Insn("bitcast", <<f, 0>>), Insn("bitcast", <<f, 1>>), Insn("annotation", <<f, 2>>)>>}

First == {<<>>, <<Insn("annotation", Global)>>,
          <<Insn("bitcast", <<1, 0>>), Insn("annotation", <<1, 1>>), Access("store", <<1, 0>>, Example)>>}

\* Operands are values, and no value is computed from itself: what SSA form
\* allows when the blocks may be laid out in any order.
RECURSIVE Grounded(_, _, _, _)
Grounded(f, code, v, fuel) ==
    \/ v[1] # f
    \/ v[2] = 0
    \/ /\ fuel > 0
       /\ code[v[2]].op \in {"gep", "load", "bitcast"}
       /\ Grounded(f, code, code[v[2]].ptr, fuel - 1)

WellFormed(f, code) == \A i \in DOMAIN code : Grounded(f, code, code[i].ptr, Len(code))

\* Three instructions after the entry block.
Walks(f, n) ==
    LET values == {Global} \cup ({f} \X (0..(n + 3)))
    IN {<<Insn("gep", p), Insn("gep", q), Access("store", r, Example)>> : p, q, r \in values}
         \cup {<<Access("load", p, Example), Insn("gep", q), Access("load", r, Example)>> : p, q, r \in values}

ChainModules ==
    UNION {{<<[entry |-> Len(one), code |-> one], [entry |-> Len(two), code |-> two \o walk]>> :
              walk \in {w \in Walks(2, Len(two)) : WellFormed(2, two \o w)}} :
           one \in First, two \in Annotations(2)}

AllModules == AccessModules \cup ChainModules
=============================================================================
