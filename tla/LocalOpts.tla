------------------------------ MODULE LocalOpts -----------------------------
(***************************************************************************)
(* The local optimisations, class LocalOpts of                             *)
(* asst1/LocalOpts/LocalOpts.cpp: for every basic block, algebraic         *)
(* identities, constant folding and strength reduction, repeated until a   *)
(* round reports no change.                                                *)
(*                                                                         *)
(* The instructions are binary operators on integers of W bits, and uses   *)
(* ("use", standing for any other instruction).  An operand is a constant  *)
(* <<"c", n>>, n the bits read as an unsigned number, or a value <<"v",    *)
(* id>>: the argument is value 0, an instruction the value of its id.      *)
(***************************************************************************)
EXTENDS Integers, SequencesExt

CONSTANTS W,            \* bit width of the integers
          Inputs        \* the functions the pass is run on: sequences of blocks

ASSUME WidthAssumption == W \in 3..31

VARIABLES
    prog,               \* the blocks as they were given to the pass
    code,               \* the blocks now
    blk,                \* *FI: the block being optimised
    pass,               \* "algebraic", "fold", "strength"; "done" at the end
    pos,                \* *BI: the instruction the pass looks at
    modified,           \* inside a pass: what it will return
    stats               \* LocalOptsInfo

vars == <<prog, code, blk, pass, pos, modified, stats>>

-----------------------------------------------------------------------------
Const(n) == <<"c", n>>

IsConst(o) == o[1] = "c"

Zero == Const(0)

One == Const(1)

\* getSExtValue, and get_const: the low W bits of a 64-bit integer.
SExt(n) == IF n >= 2^(W - 1) THEN n - 2^W ELSE n

GetConst(n) == Const(n % 2^W)

Binary(id, op, a, b) == [id |-> id, op |-> op, a |-> a, b |-> b]

IsBinary(insn) == insn.op # "use"

-----------------------------------------------------------------------------
When(c, v) == IF c THEN {v} ELSE {}

\* Faulty form, for checking that the properties notice: 0 - x = x is taken
\* for an identity like x - 0 = x.
IdentityLoose(insn) ==
    CASE insn.op = "sub" -> When(insn.b = Zero, insn.a) \cup When(insn.a = Zero, insn.b)
      [] OTHER -> {}

(* The value algebraic_optimizations replaces the instruction by, if any:   *)
(* an identity with a constant on the left is tried only when the right     *)
(* operand is no constant (for Add, the other way round).                   *)
Identity(insn) ==
    LET v1 == insn.a
        v2 == insn.b
        left(k) == ~IsConst(v2) /\ v1 = k
    IN CASE insn.op = "add" -> When(v1 = Zero, v2) \cup When(~IsConst(v1) /\ v2 = Zero, v1)
         [] insn.op = "sub" -> When(v2 = Zero, v1) \cup When(~IsConst(v2) /\ v1 = v2, Zero)
         [] insn.op = "mul" -> When(v2 = One, v1) \cup When(v2 = Zero, Zero)
                                  \cup When(left(One), v2) \cup When(left(Zero), Zero)
         [] insn.op \in {"udiv", "sdiv"} ->
                When(v2 = One, v1) \cup When(left(Zero), Zero)
                    \cup When(~IsConst(v2) /\ v1 = v2, One)
         [] insn.op = "and" -> When(v2 = Zero \/ left(Zero), Zero)
         [] insn.op \in {"or", "xor"} -> When(v2 = Zero, v1) \cup When(left(Zero), v2)
         [] OTHER -> {}

-----------------------------------------------------------------------------
\* C++'s / on int64_t.
Quotient(x, y) ==
    LET abs(n) == IF n < 0 THEN -n ELSE n
        q == abs(x) \div abs(y)
    IN IF (x < 0) = (y < 0) THEN q ELSE -q

(* The constants constant_folding may put for an operator on two constants; *)
(* a shift by a negative count is undefined in C++.                         *)
Folded(op, n1, n2) ==
    LET x == SExt(n1)
        y == SExt(n2)
        shifted(n) == IF y >= 0 THEN {GetConst(n)} ELSE {Const(n3) : n3 \in 0..(2^W - 1)}
    IN CASE op = "add" -> {GetConst(x + y)}
         [] op = "sub" -> {GetConst(x - y)}
         [] op = "mul" -> {GetConst(x * y)}
         [] op \in {"udiv", "sdiv"} -> IF y # 0 THEN {GetConst(Quotient(x, y))} ELSE {}
         [] op = "shl" -> shifted(x * 2^y)
         [] op = "lshr" -> shifted(x \div 2^y)
         [] OTHER -> {}

Foldings(insn) ==
    IF IsConst(insn.a) /\ IsConst(insn.b) THEN Folded(insn.op, insn.a[2], insn.b[2]) ELSE {}

-----------------------------------------------------------------------------

\* k when n = 2^k, else -1: the halving loop.
FindLog(n) ==
    LET log[m \in 1..n] ==
            CASE m = 1 -> 0
              [] m > 1 /\ m % 2 = 1 -> -1
              [] OTHER -> IF log[m \div 2] = -1 THEN -1 ELSE log[m \div 2] + 1
    IN IF n <= 0 THEN -1 ELSE log[n]

\* What find_log_improved returns, and the exponent it leaves in a variable
\* that was 0.
FindLogImproved(n) ==
    CASE n <= 0 -> <<-1, 0>>
      [] n > 0 /\ FindLog(n) >= 0 -> <<0, FindLog(n)>>
      [] n > 0 /\ FindLog(n) < 0 /\ FindLog(n - 1) >= 0 -> <<1, FindLog(n - 1)>>
      [] OTHER -> IF FindLog(n + 1) >= 0 THEN <<-1, FindLog(n + 1)>> ELSE <<-2, -1>>

(* The instructions strength_reduction puts for a multiplication by a       *)
(* constant (moved to the right first) or a division by a power of two; the *)
(* last one takes the place of the old.  <<>> when it leaves it alone.      *)
Reduced(insn, fresh) ==
    LET swap == insn.op = "mul" /\ IsConst(insn.a)
        v1 == IF swap THEN insn.b ELSE insn.a
        v2 == IF swap THEN insn.a ELSE insn.b
        n == SExt(v2[2])
        found == FindLogImproved(n)
        shl(id) == Binary(id, "shl", v1, GetConst(found[2]))
    IN CASE insn.op = "mul" /\ IsConst(v2) /\ found[1] # -2 ->
                CASE found[1] = 0 -> <<shl(insn.id)>>
                  [] found[1] = 1 -> <<shl(fresh), Binary(insn.id, "add", <<"v", fresh>>, v1)>>
                  [] OTHER -> <<shl(fresh), Binary(insn.id, "sub", <<"v", fresh>>, v1)>>
         [] insn.op \in {"udiv", "sdiv"} /\ IsConst(v2) /\ FindLog(n) >= 0 ->
                <<Binary(insn.id, "lshr", v1, GetConst(FindLog(n)))>>
         [] OTHER -> <<>>
-----------------------------------------------------------------------------
\* Faulty form: the uses in the other operand are forgotten.
ReplaceInstWithValueFirstOperand(c, b, k, v) ==
    LET id == c[b][k].id
        renamed == [j \in DOMAIN c |-> [i \in DOMAIN c[j] |->
                       [c[j][i] EXCEPT !.a = IF @ = <<"v", id>> THEN v ELSE @]]]
    IN [renamed EXCEPT ![b] = RemoveAt(@, k)]

(* ReplaceInstWithValue: v replaces the instruction in every block, and the *)
(* instruction goes.                                                        *)
Substitute(o, id, v) == IF o = <<"v", id>> THEN v ELSE o

ReplaceInstWithValue(c, b, k, v) ==
    LET id == c[b][k].id
        renamed == [j \in DOMAIN c |-> [i \in DOMAIN c[j] |->
                       [c[j][i] EXCEPT !.a = Substitute(@, id, v),
                                       !.b = Substitute(@, id, v)]]]
    IN [renamed EXCEPT ![b] = RemoveAt(@, k)]

\* ReplaceInstWithInst, with what was inserted before.
ReplaceInstWithInsts(c, b, k, new) ==
    [c EXCEPT ![b] = SubSeq(@, 1, k - 1) \o new \o SubSeq(@, k + 1, Len(@))]

\* A value no instruction has.
FreshId == 1 + FoldLeft(LAMBDA m, n : IF n > m THEN n ELSE m, 0,
                        FlattenSeq([j \in DOMAIN code |->
                            [i \in DOMAIN code[j] |-> code[j][i].id]]))

-----------------------------------------------------------------------------
Init ==
    /\ prog \in Inputs
    /\ code = prog
    /\ blk = 1
    /\ pass = "algebraic"
    /\ pos = 1
    /\ modified = FALSE
    /\ stats = [algebraic |-> 0, fold |-> 0, strength |-> 0]

AtInsn(p) == pass = p /\ pos <= Len(code[blk])

\* The iterator moves on only if the instruction was not removed.
RemoveInsn(v, counter) ==
    /\ code' = ReplaceInstWithValue(code, blk, pos, v)
    /\ modified' = TRUE
    /\ stats' = [stats EXCEPT ![counter] = @ + 1]
    /\ UNCHANGED <<prog, blk, pass, pos>>

KeepInsn ==
    /\ pos' = pos + 1
    /\ UNCHANGED <<prog, code, blk, pass, modified, stats>>

AlgebraicOptimization ==
    /\ AtInsn("algebraic")
    /\ IF Identity(code[blk][pos]) = {}
          THEN KeepInsn
          ELSE \E v \in Identity(code[blk][pos]) : RemoveInsn(v, "algebraic")

ConstantFolding ==
    /\ AtInsn("fold")
    /\ IF Foldings(code[blk][pos]) = {}
          THEN KeepInsn
          ELSE \E v \in Foldings(code[blk][pos]) : RemoveInsn(v, "fold")

\* inst_removed is never set here: the pass returns false whatever it did.
StrengthReduction ==
    /\ AtInsn("strength")
    /\ LET new == Reduced(code[blk][pos], FreshId)
       IN IF new = <<>>
          THEN KeepInsn
          ELSE /\ code' = ReplaceInstWithInsts(code, blk, pos, new)
               /\ pos' = pos + Len(new)
               /\ stats' = [stats EXCEPT !.strength = @ + 1]
               /\ UNCHANGED <<prog, blk, pass, modified>>

\* Faulty form: a single round.
AfterPassOneRound(p, m) ==
    CASE p = "algebraic" -> "fold"
      [] p = "fold" -> "strength"
      [] OTHER -> "leave"

\* Faulty form: a round without change starts another.
AfterPassAlways(p, m) ==
    CASE m -> "algebraic"
      [] ~m /\ p = "algebraic" -> "fold"
      [] ~m /\ p = "fold" -> "strength"
      [] OTHER -> "algebraic"

\* What the round in runOnModule does after pass p returned m: modified || ...
\* skips the later passes of a round once one has reported a change.
AfterPass(p, m) ==
    CASE m -> "algebraic"
      [] ~m /\ p = "algebraic" -> "fold"
      [] ~m /\ p = "fold" -> "strength"
      [] OTHER -> "leave"

EndPass ==
    /\ pass \in {"algebraic", "fold", "strength"}
    /\ pos > Len(code[blk])
    /\ pass' = AfterPass(pass, modified)
    /\ pos' = 1
    /\ modified' = FALSE
    /\ UNCHANGED <<prog, code, blk, stats>>

NextBlock ==
    /\ pass = "leave"
    /\ IF blk < Len(code) THEN blk' = blk + 1 /\ pass' = "algebraic"
                          ELSE blk' = blk /\ pass' = "done"
    /\ UNCHANGED <<prog, code, pos, modified, stats>>

Returned == pass = "done" /\ UNCHANGED vars

Next == \/ AlgebraicOptimization \/ ConstantFolding \/ StrengthReduction
        \/ EndPass \/ NextBlock \/ Returned

Spec == Init /\ [][Next]_vars

\* The pass is a sequential program that nothing can block.
FairSpec == Spec /\ WF_vars(Next)
-----------------------------------------------------------------------------
(* Properties. *)

\* All the instructions of c in a row.
InsnsOf(c) == FlattenSeq(c)

(* The blocks stay well-formed SSA after every single rewriting: no value   *)
(* is defined twice, and an operand is the argument, or defined earlier,    *)
(* also when the value that replaced it was itself replaced before.         *)
SsaPreserved ==
    LET all == InsnsOf(code)
    IN \A i \in DOMAIN all :
          /\ \A j \in DOMAIN all : all[i].id = all[j].id => i = j
          /\ \A o \in {all[i].a, all[i].b} :
                IsConst(o) \/ o[2] = 0 \/ \E j \in 1..(i - 1) : all[j].id = o[2]

(* When the pass leaves a block, none of the three transformations applies  *)
(* to any instruction of it any more, although strength_reduction never     *)
(* reports its changes and a round stops at the first pass that reports     *)
(* one.                                                                     *)
NothingLeftToDo ==
    pass = "leave" => \A i \in DOMAIN code[blk] :
        /\ Identity(code[blk][i]) = {}
        /\ Foldings(code[blk][i]) = {}
        /\ Reduced(code[blk][i], 0) = <<>>

(* The rounds end. *)
Terminates == <>(pass = "done")
=============================================================================
