------------------------- MODULE LoopMemoryAnalysis -------------------------
(***************************************************************************)
(* The pass of project/src/LoopMemoryAnalysis.cpp, run on one function     *)
(* after another by one pass object: it collects the annotated data        *)
(* structures of the entry block, follows getelementptr chains from them,  *)
(* and classifies every load and store in a loop from the constants of its *)
(* scalar evolution.                                                       *)
(*                                                                         *)
(* A value is a pair: <<f, i>> is instruction i of function f, <<f, 0>> an *)
(* array allocated in it, <<0, 0>> a global.  A function is a sequence of  *)
(* instructions in layout order and the number of them that are in the     *)
(* entry block.  An instruction has an operator, the value its address or  *)
(* operand is, and (loads and stores) the scalar evolution of the address  *)
(* in the innermost loop, which LLVM computes: kind "none" when there is   *)
(* no loop, no base pointer or no recurrence.                              *)
(***************************************************************************)
EXTENDS Integers, SequencesExt

CONSTANT Inputs          \* sequences of functions a module may hold

VARIABLES
    funcs,               \* the functions of the module
    cur,                 \* the function runOnFunction is called with
    at,                  \* the instruction the walk is at
    pc,                  \* "annotate", "walk", "done", "crash"
    structures,          \* the member: never cleared
    mapAccessToVar,      \* a function from getelementptrs to structures
    report               \* what was printed: a function from accesses to verdicts

vars == <<funcs, cur, at, pc, structures, mapAccessToVar, report>>

Code == funcs[cur].code

EntryOf(f) == SubSeq(funcs[f].code, 1, funcs[f].entry)

-----------------------------------------------------------------------------
\* Faulty form, for checking that the properties notice: only the constants of
\* the outermost recurrence are collected.
parseExpressionFlat(e) ==
    [constants |-> [i \in 1..Len(SelectSeq(e.ops, LAMBDA o : o.kind = "const")) |->
                       SelectSeq(e.ops, LAMBDA o : o.kind = "const")[i].val],
     defined |-> \A i \in DOMAIN e.ops : e.ops[i].kind # "opaque"]

(* The constants of a recurrence in operand order.  An operand that is no   *)
(* constant is cast to a recurrence without a test; for one that is none    *)
(* ("opaque": a parameter, a product with one) what is read is undefined.   *)
RECURSIVE parseExpression(_)
parseExpression(e) ==
    LET add(acc, o) ==
            CASE o.kind = "const" -> [acc EXCEPT !.constants = Append(@, o.val)]
              [] o.kind = "rec" ->
                   LET sub == parseExpression(o)
                   IN [constants |-> acc.constants \o sub.constants,
                       defined |-> acc.defined /\ sub.defined]
              [] o.kind = "opaque" -> [acc EXCEPT !.defined = FALSE]
    IN FoldLeft(add, [constants |-> <<>>, defined |-> TRUE], e.ops)


(* The cost model: the last constant against the one before it.  back() of  *)
(* a vector without elements is undefined, like the cast above.             *)
Verdicts(e) ==
    LET constants == parseExpression(e).constants
        n == Len(constants)
    IN IF ~parseExpression(e).defined \/ n < 2 THEN {"regular", "columnar", "crash"}
       ELSE {IF constants[n] <= constants[n - 1] THEN "regular" ELSE "columnar"}

-----------------------------------------------------------------------------
\* The value a call of llvm.var.annotation is about, one bitcast of the entry
\* block looked through.
AnnotatedValue(f, insn) ==
    LET casts == {i \in DOMAIN EntryOf(f) : EntryOf(f)[i].op = "bitcast"}
    IN IF \E i \in casts : insn.ptr = <<f, i>>
       THEN EntryOf(f)[insn.ptr[2]].ptr
       ELSE insn.ptr

AnnotatedIn(f) ==
    {AnnotatedValue(f, EntryOf(f)[i]) :
        i \in {j \in DOMAIN EntryOf(f) : EntryOf(f)[j].op = "annotation"}}

Init ==
    /\ funcs \in Inputs
    /\ cur = 1
    /\ at = 1
    /\ pc = "annotate"
    /\ structures = {}
    /\ mapAccessToVar = <<>>
    /\ report = <<>>

\* The first half of runOnFunction; the maps are local to it.
Annotate ==
    /\ pc = "annotate"
    /\ structures' = structures \cup AnnotatedIn(cur)
    /\ mapAccessToVar' = <<>>
    /\ at' = 1
    /\ pc' = "walk"
    /\ UNCHANGED <<funcs, cur, report>>

-----------------------------------------------------------------------------
InWalk(ops) == pc = "walk" /\ at <= Len(Code) /\ Code[at].op \in ops

\* Faulty form, for checking that the properties notice: a chain of two
\* getelementptrs is not followed.
VisitGEPOneLevel ==
    /\ InWalk({"gep"})
    /\ mapAccessToVar' = IF Code[at].ptr \in structures
                         THEN (<<cur, at>> :> Code[at].ptr) @@ mapAccessToVar
                         ELSE mapAccessToVar
    /\ at' = at + 1
    /\ UNCHANGED <<funcs, cur, pc, structures, report>>

VisitGEP ==
    /\ InWalk({"gep"})
    /\ LET ptr == Code[at].ptr
           to(v) == (<<cur, at>> :> v) @@ mapAccessToVar
       IN mapAccessToVar' =
            CASE ptr \in structures -> to(ptr)
              [] ptr \notin structures /\ ptr \in DOMAIN mapAccessToVar -> to(mapAccessToVar[ptr])
              [] OTHER -> mapAccessToVar
    /\ at' = at + 1
    /\ UNCHANGED <<funcs, cur, pc, structures, report>>

Critical(ptr) == ptr \in DOMAIN mapAccessToVar \cup structures

\* A load or a store: the body of the loop over the surrounding loops, which is
\* left after the innermost one in any case.
VisitAccess ==
    /\ InWalk({"load", "store"})
    /\ LET insn == Code[at]
       IN IF Critical(insn.ptr) /\ insn.scev.kind = "rec"
          THEN \E v \in Verdicts(insn.scev) :
                 /\ report' = (<<cur, at>> :> v) @@ report
                 /\ pc' = IF v = "crash" THEN "crash" ELSE pc
          ELSE UNCHANGED <<report, pc>>
    /\ at' = at + 1
    /\ UNCHANGED <<funcs, cur, structures, mapAccessToVar>>

VisitOther ==
    /\ InWalk({"bitcast", "annotation"})
    /\ at' = at + 1
    /\ UNCHANGED <<funcs, cur, pc, structures, mapAccessToVar, report>>

\* runOnFunction returns; the pass manager goes on with the next function.
Return ==
    /\ pc = "walk" /\ at > Len(Code)
    /\ IF cur < Len(funcs)
       THEN cur' = cur + 1 /\ pc' = "annotate"
       ELSE cur' = cur /\ pc' = "done"
    /\ UNCHANGED <<funcs, at, structures, mapAccessToVar, report>>

Ended == pc \in {"done", "crash"} /\ UNCHANGED vars

Next == Annotate \/ VisitGEP \/ VisitAccess \/ VisitOther \/ Return \/ Ended

Spec == Init /\ [][Next]_vars
-----------------------------------------------------------------------------
(* Properties. *)

\* What a function annotates, and the globals an earlier one did.
KnownTo(f) == AnnotatedIn(f) \cup UNION {{v \in AnnotatedIn(g) : v[1] = 0} : g \in 1..(f - 1)}

\* Value v leads to such a structure: at once, or by getelementptrs of f each of
\* which is laid out before the instruction, number i or a later link, it feeds.
RECURSIVE LeadsBack(_, _, _)
LeadsBack(f, v, i) ==
    \/ v \in KnownTo(f)
    \/ /\ v[1] = f /\ v[2] \in 1..(i - 1)
       /\ funcs[f].code[v[2]].op = "gep"
       /\ LeadsBack(f, funcs[f].code[v[2]].ptr, v[2])

(* Although the list of structures keeps the values of earlier functions, a *)
(* function is analysed as if it were alone (apart from annotated globals): *)
(* once the pass is over, an access has a verdict exactly if it is one in a *)
(* loop with a recurrence and a chain of getelementptrs, each laid out      *)
(* before its use, leads from it to something the function itself           *)
(* annotates.                                                               *)
AnalysedExactly ==
    pc = "done" =>
        DOMAIN report =
            {<<f, i>> \in UNION {{f} \X DOMAIN funcs[f].code : f \in DOMAIN funcs} :
                LET insn == funcs[f].code[i]
                IN /\ insn.op \in {"load", "store"}
                   /\ insn.scev.kind = "rec"
                   /\ LeadsBack(f, insn.ptr, i)}

\* The address of an access when the loops of a recurrence have run as often as
\* n says; TLC evaluates it for recurrences of constants.
RECURSIVE Address(_, _)
Address(e, n) ==
    IF e.kind = "const" THEN e.val
    ELSE LET k == n[e.loop]
             coeff(i) == Address(e.ops[i], n)
         IN coeff(1) + k * coeff(2)
              + (IF Len(e.ops) > 2 THEN ((k * (k - 1)) \div 2) * coeff(3) ELSE 0)

RECURSIVE LoopsOf(_)
LoopsOf(e) ==
    IF e.kind = "rec" THEN {e.loop} \cup UNION {LoopsOf(e.ops[i]) : i \in DOMAIN e.ops} ELSE {}

Abs(n) == IF n < 0 THEN -n ELSE n

\* How far one more turn of a loop moves the address, at the first iterations.
Stride(e, l) ==
    LET at0 == [k \in LoopsOf(e) |-> 0]
    IN Address(e, [at0 EXCEPT ![l] = 1]) - Address(e, at0)

Affine(e) ==
    /\ e.kind = "rec"
    /\ Len(e.ops) = 2
    /\ e.ops[2].kind = "const"

\* The loop around the innermost one in which the address moves: LLVM's nest of
\* recurrences has the outer loop's recurrence as the start of the inner one's.
Enclosing(e) == e.ops[1].loop

Nested(e) == e.ops[1].kind = "rec"

\* Column-oriented: the innermost loop makes the longer steps.
ColumnOriented(e) == Nested(e) /\ Abs(Stride(e, e.loop)) > Abs(Stride(e, Enclosing(e)))

\* Where the comparison of signed constants says something else: a single loop,
\* whose stride is compared with the start offset, and strides whose order
\* changes without their signs.
Misjudged(e) ==
    IF Nested(e)
    THEN LET s == Stride(e, e.loop)
             t == Stride(e, Enclosing(e))
         IN (s > t) # (Abs(s) > Abs(t))
    ELSE Stride(e, e.loop) > Address(e, [k \in LoopsOf(e) |-> 0])


RECURSIVE HasOpaque(_)
HasOpaque(e) == \/ e.kind = "opaque"
                \/ e.kind = "rec" /\ \E i \in DOMAIN e.ops : HasOpaque(e.ops[i])

(* The two constants the cost model pops are always there: only an access   *)
(* with an operand that is neither a constant nor a recurrence, at some     *)
(* depth, can lead into undefined behaviour.                                *)
UndefinedOnlyForOpaque ==
    pc = "crash" => HasOpaque(Code[at - 1].scev)
=============================================================================
