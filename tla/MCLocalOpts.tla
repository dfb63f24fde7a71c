----------------------------- MODULE MCLocalOpts ----------------------------
(***************************************************************************)
(* The local optimisations on small functions, and what an instruction of  *)
(* LLVM computes: reference semantics to compare the function before and   *)
(* after.                                                                  *)
(***************************************************************************)
EXTENDS LocalOpts, Bitwise

Words == 0..(2^W - 1)

Undefined == -1

\* The result of an operator on two words; a division by zero, an overflowing
\* signed division and a shift by W or more have none.
Semantics(op, x, y) ==
    CASE op = "add" -> (x + y) % 2^W
      [] op = "sub" -> (x - y) % 2^W
      [] op = "mul" -> (x * y) % 2^W
      [] op = "udiv" -> IF y = 0 THEN Undefined ELSE x \div y
      [] op = "sdiv" -> IF y = 0 \/ (SExt(x) = -(2^(W - 1)) /\ SExt(y) = -1)
                           THEN Undefined ELSE Quotient(SExt(x), SExt(y)) % 2^W
      [] op = "and" -> x & y
      [] op = "or" -> x | y
      [] op = "xor" -> x ^^ y
      [] op = "shl" -> IF y >= W THEN Undefined ELSE (x * 2^y) % 2^W
      [] op = "lshr" -> IF y >= W THEN Undefined ELSE x \div 2^y

\* Running the instructions of c on argument a: the values used, in order,
\* whether every result was defined, and whether no operand was negative.
Run(c, a) ==
    LET value(env, o) == IF IsConst(o) THEN o[2] ELSE env[o[2]]
        step(acc, insn) ==
            LET x == value(acc.env, insn.a)
                y == value(acc.env, insn.b)
            IN IF ~acc.defined THEN acc
               ELSE IF ~IsBinary(insn) THEN [acc EXCEPT !.used = Append(@, x)]
               ELSE LET r == Semantics(insn.op, x, y)
                    IN [acc EXCEPT !.env = (insn.id :> r) @@ @,
                                   !.defined = r # Undefined,
                                   !.natural = @ /\ SExt(x) >= 0 /\ SExt(y) >= 0]
    IN FoldLeft(step, [env |-> (0 :> a), used |-> <<>>, defined |-> TRUE, natural |-> TRUE],
                InsnsOf(c))

SameUses(before, after) == after.defined /\ after.used = before.used

(* The pass keeps the meaning of a function on every execution whose        *)
(* operands are non-negative as signed numbers, also where a sum or product *)
(* overflows: after every rewriting the same values are used, in order, if  *)
(* the original execution was defined.                                      *)
NaturalResultsPreserved ==
    \A a \in Words :
        LET before == Run(prog, a)
        IN before.defined /\ before.natural => SameUses(before, Run(code, a))

\* The operators the code gets wrong for some argument: a product with a
\* negative constant, which becomes x - x; a signed division by a power of two,
\* which becomes a logical shift; a logical shift of a negative constant, which
\* is folded as an arithmetic one; an unsigned division of constants whose
\* signed quotient, the one that is put, is another.
Misread(insn) ==
    LET negative(o) == IsConst(o) /\ SExt(o[2]) < 0
        x == insn.a
        y == insn.b
    IN CASE insn.op = "mul" -> \/ negative(x) /\ ~IsConst(y)
                               \/ negative(y) /\ ~IsConst(x)
         [] insn.op = "sdiv" -> ~IsConst(x) /\ \E k \in 1..(W - 2) : y = Const(2^k)
         [] insn.op = "lshr" -> negative(x) /\ \E k \in 1..(W - 1) : y = Const(k)
         [] insn.op = "udiv" -> /\ IsConst(x) /\ IsConst(y) /\ y # Zero
                                /\ x[2] \div y[2] # Quotient(SExt(x[2]), SExt(y[2])) % 2^W
         [] OTHER -> FALSE


-----------------------------------------------------------------------------
AllOps == {"add", "sub", "mul", "udiv", "sdiv", "and", "or", "xor", "shl", "lshr"}

Arg == <<"v", 0>>

Use(id, o) == Binary(id, "use", o, Zero)

Constants(C) == {Const(n) : n \in C}

\* One operator and the use of its result.
OneOperator(ops, operands) ==
    {<<<<Binary(1, op, o1, o2), Use(2, <<"v", 1>>)>>>> :
        op \in ops, o1 \in operands, o2 \in operands}

\* An operator in a first block, a second one in the next, and their uses.
TwoOperators(ops, operands) ==
    {<<<<Binary(1, op1, o1, o2)>>,
       <<Binary(2, op2, o3, o4), Use(3, <<"v", 1>>), Use(4, <<"v", 2>>)>>>> :
        op1 \in ops, o1 \in operands, o2 \in operands, op2 \in ops,
        o3 \in operands \cup {<<"v", 1>>}, o4 \in operands \cup {<<"v", 1>>}}

\* Three in one block, the first on constants.
ThreeOperators(ops, operands) ==
    {<<<<Binary(1, op1, Const(1), o2), Binary(2, op2, <<"v", 1>>, Arg),
         Binary(3, op3, o3, o4), Use(4, <<"v", 3>>)>>>> :
        op1 \in ops, o2 \in operands, op2 \in ops, op3 \in ops,
        o3 \in {<<"v", 1>>, <<"v", 2>>}, o4 \in {<<"v", 1>>, <<"v", 2>>}}

InputSet ==
    UNION {OneOperator(AllOps, {Arg} \cup Constants(Words)),
           TwoOperators({"add", "mul", "sdiv"}, {Arg} \cup Constants({0, 1, 3})),
           ThreeOperators({"add", "sub", "mul", "udiv"}, Constants({0, 1, 2}))}
AllInputs == InputSet
=============================================================================
