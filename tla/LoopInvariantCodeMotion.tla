----------------------- MODULE LoopInvariantCodeMotion ----------------------
(***************************************************************************)
(* The loop-invariant code motion pass, LICM::runOnLoop of                 *)
(* asst3/LICM/LoopInvariantCodeMotion.cpp, run by LLVM's loop pass manager *)
(* on the loops of a function, inner loops first.  For each loop:          *)
(* dominance by the solver (computeDom), immediate dominators              *)
(* (computeIdom), the dominator tree of the loop (getDominanceTree), a     *)
(* depth-first walk that collects the invariant instructions, and the      *)
(* hoisting of those into the preheader.                                   *)
(*                                                                         *)
(* fn.loops lists the loops in the order the manager runs them, each as    *)
(* the sequence of its blocks, the header first (Loop::getBlocks).         *)
(***************************************************************************)
EXTENDS Dominance, SequencesExt

CONSTANTS Functions, Unsized, None

VARIABLES fn, in, out, element, neighborVals, pos, converged, pc,
          code,         \* the instructions the blocks hold now
          cur,          \* the loop being run: its position in fn.loops
          phase,        \* where runOnLoop is
          idom,         \* computeIdom's map; None for a block without entry
          worklist,     \* blocks of the tree nodes on the stack
          invStmts,     \* invariant instructions, in the order they were found
          modified      \* whether a run of runOnLoop has returned true

solverVars == <<fn, in, out, element, neighborVals, pos, converged, pc>>
loopVars == <<code, cur, phase, idom, worklist, invStmts, modified>>
vars == <<fn, in, out, element, neighborVals, pos, converged, pc,
          code, cur, phase, idom, worklist, invStmts, modified>>

NoBits(f) == {}

Solver == INSTANCE Dataflow WITH
              Direction <- "FORWARD", MeetOp <- "INTERSECTION",
              DomainOf <- DominanceDomain, BoundaryCond <- NoBits,
              InitCond <- DominanceDomain, TransferFn <- DominanceTransfer,
              InitBothSides <- TRUE

-----------------------------------------------------------------------------
(* Loop (external: LLVM's LoopInfo). *)

LoopBlocks(i) == Elements(fn.loops[i])

Header(i) == fn.loops[i][1]

\* LI.getLoopFor(b) = L: L is the innermost loop around b.
InnermostIs(i, b) ==
    /\ b \in LoopBlocks(i)
    /\ \A j \in DOMAIN fn.loops :
          b \in LoopBlocks(j) => LoopBlocks(i) \subseteq LoopBlocks(j)

\* L->getLoopPreheader(): the only block outside the loop that branches to the
\* header, if it branches nowhere else.
Preheaders(i) ==
    LET outside == Preds(fn, Header(i)) \ LoopBlocks(i)
    IN {p \in outside : outside = {p} /\ fn.succ[p] = {Header(i)}}

-----------------------------------------------------------------------------
\* isSafeToSpeculativelyExecute, not a load, not a landing pad.
MayMove(insn) == insn.kind = "bin"

IdsIn(c, B) == UNION {{insn.id : insn \in Elements(c[b])} : b \in B}

\* isInvariant(L, invStmts, inst), inv the ids of invStmts.
IsInvariant(c, i, inv, insn) ==
    /\ MayMove(insn)
    /\ Elements(insn.ops) \cap IdsIn(c, LoopBlocks(i)) \subseteq inv

\* The children of the tree node of b, in the order of getBlocks.
Children(b) == SelectSeq(Tail(fn.loops[cur]), LAMBDA c : idom[c] = b)

\* inst->moveBefore(&preheader->back()); the code leaves out the unconditional
\* branch that ends a preheader.
MoveTo(c, p, insn) ==
    [b \in DOMAIN c |->
        LET rest == SelectSeq(c[b], LAMBDA j : j.id # insn.id)
        IN IF b = p THEN Append(rest, insn) ELSE rest]

\* runOnLoop has returned: on to the next loop.
NextLoop ==
    /\ cur' = cur + 1
    /\ phase' = "start"
    /\ worklist' = <<>>
    /\ invStmts' = <<>>

-----------------------------------------------------------------------------
Init ==
    /\ Solver!Init
    /\ code = fn.code
    /\ cur = 1
    /\ phase = "start"
    /\ idom = [b \in fn.blocks |-> None]
    /\ worklist = <<>>
    /\ invStmts = <<>>
    /\ modified = FALSE

\* The loop has no preheader: return false.
SkipLoop ==
    /\ phase = "start" /\ cur <= Len(fn.loops)
    /\ Preheaders(cur) = {}
    /\ NextLoop
    /\ UNCHANGED <<solverVars, code, idom, modified>>

\* computeDom starts a fresh run of the solver.
StartLoop ==
    /\ phase = "start" /\ cur <= Len(fn.loops)
    /\ Preheaders(cur) # {}
    /\ Solver!Start
    /\ phase' = "dominance"
    /\ UNCHANGED <<code, cur, idom, worklist, invStmts, modified>>

ComputeDom ==
    /\ phase = "dominance"
    /\ Solver!ProcessBlock \/ Solver!EndSweep
    /\ UNCHANGED loopVars

\* computeIdom stops at assert(0) when it finds a second immediate dominator.
ComputeIdom ==
    /\ phase = "dominance" /\ pc = "done"
    /\ LET found == [B \in fn.blocks |-> IdomCandidates(fn, in, B)]
       IN IF \E B \in fn.blocks : Cardinality(found[B]) > 1
          THEN /\ phase' = "assert"
               /\ UNCHANGED <<idom, worklist>>
          ELSE /\ idom' = [B \in fn.blocks |->
                              IF found[B] = {} THEN None ELSE CHOOSE A \in found[B] : TRUE]
               /\ worklist' = <<Header(cur)>>
               /\ phase' = "collect"
    /\ UNCHANGED <<solverVars, code, cur, invStmts, modified>>

\* Faulty form: the children are not pushed.
VisitBlockNoChildren ==
    /\ phase = "collect" /\ worklist # <<>>
    /\ LET b == Last(worklist)
           collect(inv, insn) ==
               IF IsInvariant(code, cur, {s.id : s \in Elements(inv)}, insn)
                   THEN Append(inv, insn) ELSE inv
       IN /\ InnermostIs(cur, b)
          /\ invStmts' = FoldLeft(collect, invStmts, code[b])
          /\ worklist' = Front(worklist)
    /\ UNCHANGED <<solverVars, code, cur, phase, idom, modified>>

\* A turn of the worklist loop on a block of the loop itself.
VisitBlock ==
    /\ phase = "collect" /\ worklist # <<>>
    /\ LET b == Last(worklist)
           collect(inv, insn) ==
               IF IsInvariant(code, cur, {s.id : s \in Elements(inv)}, insn)
                   THEN Append(inv, insn) ELSE inv
       IN /\ InnermostIs(cur, b)
          /\ invStmts' = FoldLeft(collect, invStmts, code[b])
          /\ worklist' = Front(worklist) \o Children(b)
    /\ UNCHANGED <<solverVars, code, cur, phase, idom, modified>>


\* A turn of the worklist loop on a block of an inner loop: return false.
MeetSubloop ==
    /\ phase = "collect" /\ worklist # <<>>
    /\ ~InnermostIs(cur, Last(worklist))
    /\ NextLoop
    /\ UNCHANGED <<solverVars, code, idom, modified>>

StartHoist ==
    /\ phase = "collect" /\ worklist = <<>>
    /\ phase' = "hoist"
    /\ UNCHANGED <<solverVars, code, cur, idom, worklist, invStmts, modified>>

\* Faulty form: the last instruction found moves first.
HoistLastFirst ==
    /\ phase = "hoist" /\ invStmts # <<>>
    /\ \E p \in Preheaders(cur) : code' = MoveTo(code, p, Last(invStmts))
    /\ invStmts' = Front(invStmts)
    /\ modified' = TRUE
    /\ UNCHANGED <<solverVars, cur, phase, idom, worklist>>

\* A turn of the hoisting loop, and the return after the last one.
Hoist ==
    /\ phase = "hoist" /\ invStmts # <<>>
    /\ \E p \in Preheaders(cur) : code' = MoveTo(code, p, Head(invStmts))
    /\ invStmts' = Tail(invStmts)
    /\ modified' = TRUE
    /\ UNCHANGED <<solverVars, cur, phase, idom, worklist>>

EndLoop ==
    /\ phase = "hoist" /\ invStmts = <<>>
    /\ NextLoop
    /\ UNCHANGED <<solverVars, code, idom, modified>>

Finished == phase = "start" /\ cur > Len(fn.loops)

Stopped == (Finished \/ phase = "assert") /\ UNCHANGED vars

Next == \/ SkipLoop \/ StartLoop \/ ComputeDom \/ ComputeIdom \/ VisitBlock
        \/ MeetSubloop \/ StartHoist \/ Hoist \/ EndLoop \/ Stopped

Spec == Init /\ [][Next]_vars
-----------------------------------------------------------------------------
(* Properties. *)

BlockOf(c, id) == CHOOSE b \in DOMAIN c : id \in IdsIn(c, {b})

Index(s, id) == CHOOSE i \in DOMAIN s : s[i].id = id

\* The definition of v reaches the end of block b.
ReachesEnd(c, v, b) ==
    BlockOf(c, v) = b \/ StrictlyDominates(fn, BlockOf(c, v), b)

(* Moving the instructions one by one in the order they were found keeps    *)
(* the function in SSA form after every single move: each operand's         *)
(* definition still dominates the use (a phi's, the incoming block's end),  *)
(* and each instruction is in exactly one block.                            *)
SsaPreserved ==
    phase = "hoist" =>
        /\ IdsIn(code, fn.blocks) = InsnIds(fn)
        /\ \A b \in fn.blocks : \A k \in DOMAIN code[b] :
              LET insn == code[b][k]
              IN /\ BlockOf(code, insn.id) = b /\ Index(code[b], insn.id) = k
                 /\ \A v \in Elements(insn.ops) \cap InsnIds(fn) :
                       IF BlockOf(code, v) = b THEN Index(code[b], v) < k
                                               ELSE ReachesEnd(code, v, b)
                 /\ \A e \in insn.inc : e[2] \in InsnIds(fn) => ReachesEnd(code, e[2], e[1])

\* The instructions of loop i that may move and need, inside the loop, only
\* one another: the least set closed under the definition of invariance.
InvariantIds(i) ==
    LET movable == {insn \in UNION {Elements(code[b]) : b \in LoopBlocks(i)} : MayMove(insn)}
        ids == {insn.id : insn \in movable}
        inside == IdsIn(code, LoopBlocks(i))
        Closed(S) == \A insn \in movable :
                        Elements(insn.ops) \cap inside \subseteq S => insn.id \in S
    IN {v \in ids : \A S \in SUBSET ids : Closed(S) => v \in S}

(* The tree the walk follows is the dominator tree of the loop: the parent  *)
(* of a block is in the loop, strictly dominates it, and is dominated by    *)
(* every other strict dominator, with or without unreachable blocks in the  *)
(* function.                                                                *)
TreeIsExact ==
    phase = "collect" /\ worklist = <<Header(cur)>> =>
        \A b \in LoopBlocks(cur) \ {Header(cur)} :
            /\ idom[b] \in LoopBlocks(cur)
            /\ StrictlyDominates(fn, idom[b], b)
            /\ \A d \in fn.blocks \ {idom[b]} :
                  StrictlyDominates(fn, d, b) => StrictlyDominates(fn, d, idom[b])

(* computeIdom's assertion can only fail for a block the entry does not     *)
(* reach.                                                                   *)
AssertNeedsUnreachable == phase = "assert" => Reachable(fn) # fn.blocks

\* Loop i has a loop inside it.
HasSubloop(i) == \E j \in DOMAIN fn.loops : j # i /\ LoopBlocks(j) \subseteq LoopBlocks(i)

(* When the pass is over, no loop with a preheader and without subloops has *)
(* an invariant instruction left in it: one walk down the dominator tree    *)
(* finds them all, whatever the order of the children, and no second        *)
(* iteration is needed.                                                     *)
InnermostLoopsClean ==
    Finished => \A i \in DOMAIN fn.loops :
        Preheaders(i) # {} /\ ~HasSubloop(i) => InvariantIds(i) = {}

=============================================================================
