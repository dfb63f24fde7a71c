------------------------- MODULE DeadCodeElimination ------------------------
(***************************************************************************)
(* The dead-code elimination pass, DCE::runOnFunction of                   *)
(* asst3/LICM/DeadCodeElimination.cpp: the solver run with the strong      *)
(* liveness analysis, then one walk over the blocks in post order that     *)
(* erases, from the last instruction of a block to its first, the ones     *)
(* that are not live and have no user left.                                *)
(***************************************************************************)
EXTENDS StrongLiveness

CONSTANTS Functions, Unsized

VARIABLES fn, in, out, element, neighborVals, pos, converged, pc,
          code,         \* the instructions the blocks hold now
          next,         \* position of the deletion walk in the post order
          modified

solverVars == <<fn, in, out, element, neighborVals, pos, converged, pc>>
vars == <<fn, in, out, element, neighborVals, pos, converged, pc, code, next, modified>>

NoBits(f) == {}

Solver == INSTANCE Dataflow WITH
              Direction <- "BACKWARD", MeetOp <- "UNION", DomainOf <- StrongDomain,
              BoundaryCond <- NoBits, InitCond <- NoBits, TransferFn <- StrongTransfer,
              InitBothSides <- TRUE

-----------------------------------------------------------------------------
AllInsns(c) == UNION {Elements(c[b]) : b \in DOMAIN c}

UsedIn(c, id) ==
    \E insn \in AllInsns(c) :
        id \in Elements(insn.ops) \/ \E e \in insn.inc : e[2] = id

\* Faulty form: users are not looked for.
EraseUnusedUnchecked(c, id) ==
    [b \in DOMAIN c |-> SelectSeq(c[b], LAMBDA insn : insn.id # id)]

\* I->eraseFromParent() unless I still has a user.
EraseUnused(c, id) ==
    IF UsedIn(c, id) THEN c
    ELSE [b \in DOMAIN c |-> SelectSeq(c[b], LAMBDA insn : insn.id # id)]

\* Faulty form: first instruction first.
DeleteSetForward(b) ==
    LET dead(insn) == ~Essential(insn) /\ insn.id \notin in[b]
    IN SelectSeq(code[b], dead)

\* The instructions of block b to delete, last one first.
DeleteSet(b) ==
    LET dead(insn) == ~Essential(insn) /\ insn.id \notin in[b]
    IN Reverse(SelectSeq(code[b], dead))

Init ==
    /\ Solver!Init
    /\ code = fn.code
    /\ next = 1
    /\ modified = FALSE

Analyse ==
    /\ Solver!ProcessBlock \/ Solver!EndSweep
    /\ UNCHANGED <<code, next, modified>>

\* Faulty form: a later block overwrites what an earlier one reported.
DeleteInBlockForgets ==
    /\ pc = "done"
    /\ next <= Len(fn.po)
    /\ LET doomed == DeleteSet(fn.po[next])
           erase(c, insn) == EraseUnused(c, insn.id)
       IN /\ code' = FoldLeft(erase, code, doomed)
          /\ modified' = (doomed # <<>>)
    /\ next' = next + 1
    /\ UNCHANGED solverVars

DeleteInBlock ==
    /\ pc = "done"
    /\ next <= Len(fn.po)
    /\ LET doomed == DeleteSet(fn.po[next])
           erase(c, insn) == EraseUnused(c, insn.id)
       IN /\ code' = FoldLeft(erase, code, doomed)
          /\ modified' = (modified \/ doomed # <<>>)
    /\ next' = next + 1
    /\ UNCHANGED solverVars

Finished == pc = "done" /\ next > Len(fn.po)

Returned == Finished /\ UNCHANGED vars

Next == Analyse \/ DeleteInBlock \/ Returned

Spec == Init /\ [][Next]_vars

FairSpec == Spec /\ WF_vars(Next)

-----------------------------------------------------------------------------
(* A changed function is always reported as modified to the pass manager. *)
ModifiedReported == code # fn.code => modified

\* Instructions the finished pass has left although nothing needs them.
Leftover == {insn \in UNION {Elements(code[b]) : b \in Reachable(fn)} :
                insn.id \notin Needed(fn)}

\* The users an instruction had in the function given to the pass.
UsersOf(id) == {insn \in AllInsns(fn.code) :
                   id \in Elements(insn.ops) \/ \E e \in insn.inc : e[2] = id}

(* One walk is enough for straight dependence: a dead instruction that is   *)
(* left behind was used by a phi, by code the entry does not reach, or by   *)
(* another one left behind.                                                 *)
LeftoverFeedsPhi ==
    Finished =>
        LET Left == Leftover
            Unreached == UNION {Elements(fn.code[b]) : b \in fn.blocks \ Reachable(fn)}
        IN \A insn \in Left : \E user \in UsersOf(insn.id) :
               IsPhi(user) \/ user \in Unreached \/ user \in Left

(* What the deletion walk reads is exact when the solver is done: an        *)
(* instruction of a reachable block is in the IN set of its block exactly   *)
(* when an essential instruction needs it, directly or not.                 *)
StrongLivenessExact ==
    pc = "done" => \A b \in Reachable(fn) : \A insn \in Elements(fn.code[b]) :
        insn.id \in in[b] <=> insn.id \in Needed(fn)

(* The deletion walk ends. *)
Terminates == <>Finished

\* What the pass promises.
Abstract == INSTANCE SafeErasure

(* Every step of the deletion walk erases only what no essential            *)
(* instruction needs and leaves no operand without its definition, although *)
(* the liveness it reads is that of the function before the first erasure.  *)
Refinement == Abstract!Spec
=============================================================================
