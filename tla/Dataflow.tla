------------------------------ MODULE Dataflow ------------------------------
(***************************************************************************)
(* The iterative solver every analysis of the repository runs on:          *)
(* DataFlow::run of asst2/ClassicalDataflow/dataflow.cpp and of            *)
(* asst3/LICM/dataflow.cpp (the two differ in one assignment of the        *)
(* initialisation, see InitBothSides).                                     *)
(*                                                                         *)
(* A BitVector over the domain is the set of the elements whose bit is     *)
(* set.  A BitVector that was never given a size is Unsized; LLVM compares *)
(* and combines it like the empty set, but it has no bit to index.         *)
(***************************************************************************)
EXTENDS Integers, Sequences, FiniteSets

CONSTANTS
    Functions,          \* the functions a pass may be run on
    Direction,          \* "FORWARD" or "BACKWARD"
    MeetOp,             \* "UNION" or "INTERSECTION"
    DomainOf(_),        \* the domain of the analysis of a function
    BoundaryCond(_),    \* the value at the boundary blocks
    InitCond(_),        \* the value the other blocks start from
    TransferFn(_, _, _),\* transferFn(function, block, input)
    InitBothSides,      \* TRUE: asst3's run, FALSE: asst2's
    Unsized             \* a BitVector of size 0

VARIABLES
    fn,                 \* the function under analysis
    in, out,            \* BlockResult.in and .out of every block
    element,            \* BlockResult.transferOutput.element
    neighborVals,       \* BlockResult.transferOutput.neighborVals
    pos,                \* the loop's position in traversalOrder
    converged,
    pc                  \* "sweep" inside the loop, "done" after run returns

vars == <<fn, in, out, element, neighborVals, pos, converged, pc>>

-----------------------------------------------------------------------------
(* The control-flow graph, as run sees it. *)

\* blockNeighbors: predecessors forward, successors backward.
Neighbors(f, b) ==
    IF Direction = "FORWARD" THEN {p \in f.blocks : b \in f.succ[p]}
                             ELSE f.succ[b]

\* boundaryBlocks: the entry forward; backward every block ending in a return.
BoundaryBlocks(f) == IF Direction = "FORWARD" THEN {f.entry} ELSE f.rets

\* traversalOrder: LLVM's (reverse) post order, so only reachable blocks.
TraversalOrder(f) ==
    IF Direction = "FORWARD" THEN [i \in 1..Len(f.po) |-> f.po[Len(f.po) + 1 - i]]
                             ELSE f.po

Visited(f) == {f.po[i] : i \in 1..Len(f.po)}

(***************************************************************************)
(* What LLVM guarantees of a function: no block branches to the entry, a   *)
(* returning block has no successors, po is a post order of the blocks     *)
(* reachable from the entry.  Of a post order only this is used: it has no *)
(* repetition, is closed under successors, ends with the entry, and has a  *)
(* returning block before the blocks that branch to it.                    *)
(***************************************************************************)
WellFormedCfg(f) ==
    /\ IsFiniteSet(f.blocks)
    /\ f.entry \in f.blocks
    /\ f.succ \in [f.blocks -> SUBSET f.blocks]
    /\ \A b \in f.blocks : f.entry \notin f.succ[b]
    /\ f.rets \subseteq f.blocks
    /\ \A r \in f.rets : f.succ[r] = {}
    /\ f.po \in Seq(f.blocks)
    /\ Len(f.po) > 0
    /\ f.po[Len(f.po)] = f.entry
    /\ \A i, j \in 1..Len(f.po) : f.po[i] = f.po[j] => i = j
    /\ \A b \in Visited(f) : f.succ[b] \subseteq Visited(f)
    /\ \A i, j \in 1..Len(f.po) :
          f.po[i] \in f.rets /\ f.po[i] \in f.succ[f.po[j]] => i < j

-----------------------------------------------------------------------------
(* Values. *)

Bits(v) == IF v = Unsized THEN {} ELSE v

NoVals == [b \in {} |-> {}]

\* m is a std::map<BasicBlock*, BitVector>.
IsNeighborMap(f, m) ==
    /\ DOMAIN m \subseteq f.blocks
    /\ m \in [DOMAIN m -> SUBSET DomainOf(f)]

ASSUME CfgAssumption == \A f \in Functions : WellFormedCfg(f)

ASSUME ParameterAssumption ==
    /\ Direction \in {"FORWARD", "BACKWARD"}
    /\ MeetOp \in {"UNION", "INTERSECTION"}
    /\ InitBothSides \in BOOLEAN
    /\ \A f \in Functions : /\ \A v \in SUBSET DomainOf(f) : v # Unsized
                            /\ BoundaryCond(f) \subseteq DomainOf(f)
                            /\ InitCond(f) \subseteq DomainOf(f)

ASSUME TransferAssumption ==
    \A f \in Functions : \A b \in f.blocks : \A input \in SUBSET DomainOf(f) :
        LET t == TransferFn(f, b, input)
        IN t.element \subseteq DomainOf(f) /\ IsNeighborMap(f, t.neighborVals)

(***************************************************************************)
(* What makes it enough for run to compare the SIZE of neighborVals: two   *)
(* inputs that give a block the same element give it the same              *)
(* neighbour-specific values.                                              *)
(***************************************************************************)
ASSUME PhiValsAssumption ==
    \A f \in Functions : \A b \in f.blocks :
        LET results == {TransferFn(f, b, input) : input \in SUBSET DomainOf(f)}
        IN \A t1, t2 \in results :
               t1.element = t2.element => t1.neighborVals = t2.neighborVals

(***************************************************************************)
(* Every transfer function of the repository is monotone, and only the     *)
(* analyses that join with UNION have phi values.                          *)
(***************************************************************************)
ASSUME MonotoneAssumption ==
    \A f \in Functions : \A b \in f.blocks :
        \A i2 \in SUBSET DomainOf(f) : \A i1 \in SUBSET i2 :
            LET t1 == TransferFn(f, b, i1)
                t2 == TransferFn(f, b, i2)
            IN /\ t1.element \subseteq t2.element
               /\ \A p \in DOMAIN t1.neighborVals :
                     /\ p \in DOMAIN t2.neighborVals
                     /\ t1.neighborVals[p] \subseteq t2.neighborVals[p]
               /\ MeetOp = "INTERSECTION" => t1.neighborVals = NoVals

(* The iteration starts at the end of the lattice the meet moves away from. *)
ASSUME StartAssumption ==
    \A f \in Functions :
        InitCond(f) = IF MeetOp = "UNION" THEN {} ELSE DomainOf(f)

(* What a neighbour n offers block b: its element, joined with the values  *)
(* it keeps for b alone (the operands of b's successors' phi nodes).       *)
ShownTo(el, nv, n, b) ==
    el[n] \cup (IF b \in DOMAIN nv[n] THEN nv[n][b] ELSE {})

ApplyMeetOp(f, inputs) ==
    IF MeetOp = "UNION" THEN UNION inputs
                        ELSE {d \in DomainOf(f) : \A s \in inputs : d \in s}

(* *blockInput after the meet; a block without neighbours keeps the old one. *)
MeetInput(f, el, nv, b, old) ==
    IF Neighbors(f, b) = {}
        THEN old
        ELSE ApplyMeetOp(f, {ShownTo(el, nv, n, b) : n \in Neighbors(f, b)})

InputSide == IF Direction = "FORWARD" THEN in ELSE out

OutputSide == IF Direction = "FORWARD" THEN out ELSE in

-----------------------------------------------------------------------------
(* run(F, domain, boundaryCond, initCond) *)

\* Faulty form, for checking that the properties notice: boundaryCond goes to
\* the other side.
StartInputUnset(f, b) == IF InitBothSides THEN InitCond(f) ELSE Unsized

\* BlockResult's input side before the loop.
StartInput(f, b) ==
    IF b \in BoundaryBlocks(f) THEN BoundaryCond(f)
    ELSE IF InitBothSides THEN InitCond(f) ELSE Unsized

StartOutput(f, b) == IF b \in BoundaryBlocks(f) THEN Unsized ELSE InitCond(f)

StartElement(f, b) ==
    IF b \in BoundaryBlocks(f) THEN BoundaryCond(f) ELSE InitCond(f)

\* The result map before the loop.
StartIn(f) == [b \in f.blocks |-> IF Direction = "FORWARD" THEN StartInput(f, b)
                                                           ELSE StartOutput(f, b)]

StartOut(f) == [b \in f.blocks |-> IF Direction = "FORWARD" THEN StartOutput(f, b)
                                                            ELSE StartInput(f, b)]

Init ==
    /\ fn \in Functions
    /\ in = StartIn(fn)
    /\ out = StartOut(fn)
    /\ element = [b \in fn.blocks |-> StartElement(fn, b)]
    /\ neighborVals = [b \in fn.blocks |-> NoVals]
    /\ pos = 1
    /\ converged = TRUE
    /\ pc = "sweep"

\* A further call of run on the same function (a pass may analyse it again).
Start ==
    /\ in' = StartIn(fn)
    /\ out' = StartOut(fn)
    /\ element' = [b \in fn.blocks |-> StartElement(fn, b)]
    /\ neighborVals' = [b \in fn.blocks |-> NoVals]
    /\ pos' = 1
    /\ converged' = TRUE
    /\ pc' = "sweep"
    /\ UNCHANGED fn

\* *BB, *blockInput after the meet, and what transferFn returns for them.
Block == TraversalOrder(fn)[pos]

BlockInput == MeetInput(fn, element, neighborVals, Block, InputSide[Block])

TransferOutput == TransferFn(fn, Block, Bits(BlockInput))

\* Faulty form, for checking that the properties notice: the phi
\* entries are left out of the comparison.
OutputChangedSetOnly == TransferOutput.element # Bits(OutputSide[Block])

\* The test that clears converged: the output set changed, or the number of
\* entries of neighborVals did.
OutputChanged ==
    \/ TransferOutput.element # Bits(OutputSide[Block])
    \/ Cardinality(DOMAIN TransferOutput.neighborVals)
          # Cardinality(DOMAIN neighborVals[Block])

\* The body of the for loop over traversalOrder.
ProcessBlock ==
    /\ pc = "sweep"
    /\ pos <= Len(fn.po)
    /\ in' = [in EXCEPT ![Block] = IF Direction = "FORWARD" THEN BlockInput
                                                            ELSE TransferOutput.element]
    /\ out' = [out EXCEPT ![Block] = IF Direction = "FORWARD" THEN TransferOutput.element
                                                              ELSE BlockInput]
    /\ element' = [element EXCEPT ![Block] = TransferOutput.element]
    /\ neighborVals' = [neighborVals EXCEPT ![Block] = TransferOutput.neighborVals]
    /\ converged' = (converged /\ ~OutputChanged)
    /\ pos' = pos + 1
    /\ UNCHANGED <<fn, pc>>

\* Faulty form: converged is not set again before a sweep.
EndSweepKeepsFlag ==
    /\ pc = "sweep"
    /\ pos > Len(fn.po)
    /\ IF converged THEN /\ pc' = "done"
                         /\ UNCHANGED <<pos, converged>>
                    ELSE /\ pos' = 1
                         /\ UNCHANGED <<converged, pc>>
    /\ UNCHANGED <<fn, in, out, element, neighborVals>>

\* The test of while (!converged), after a sweep.
EndSweep ==
    /\ pc = "sweep"
    /\ pos > Len(fn.po)
    /\ IF converged THEN /\ pc' = "done"
                         /\ UNCHANGED <<pos, converged>>
                    ELSE /\ pos' = 1
                         /\ converged' = TRUE
                         /\ UNCHANGED pc
    /\ UNCHANGED <<fn, in, out, element, neighborVals>>

\* run has returned its result.
Returned == pc = "done" /\ UNCHANGED vars

Next == ProcessBlock \/ EndSweep \/ Returned

Spec == Init /\ [][Next]_vars

\* run is a sequential loop that nothing can block.
FairSpec == Spec /\ WF_vars(Next)
-----------------------------------------------------------------------------
(* Properties. *)

(* The state of run has the types its declarations give it; every BitVector *)
(* ranges over the domain or was never sized.                               *)
TypeOK ==
    /\ fn \in Functions
    /\ in \in [fn.blocks -> {Unsized} \cup SUBSET DomainOf(fn)]
    /\ out \in [fn.blocks -> {Unsized} \cup SUBSET DomainOf(fn)]
    /\ element \in [fn.blocks -> SUBSET DomainOf(fn)]
    /\ neighborVals = [b \in fn.blocks |-> neighborVals[b]]
    /\ \A b \in fn.blocks : IsNeighborMap(fn, neighborVals[b])
    /\ pos \in 1..(Len(fn.po) + 1)
    /\ converged \in BOOLEAN
    /\ pc \in {"sweep", "done"}

\* Block b holds what processing it once more would compute.
Stable(b) ==
    LET input == MeetInput(fn, element, neighborVals, b, InputSide[b])
        t == TransferFn(fn, b, Bits(input))
    IN /\ InputSide[b] = input
       /\ OutputSide[b] = t.element
       /\ element[b] = t.element
       /\ neighborVals[b] = t.neighborVals

(* When run returns, the IN and OUT sets and the phi values of every block  *)
(* the loop visits satisfy the data-flow equations, although the loop       *)
(* compares only the output set and the number of phi entries, and although *)
(* a boundary block starts with an element its own output never held.       *)
ResultIsFixpoint == pc = "done" => \A b \in Visited(fn) : Stable(b)

(***************************************************************************)
(* Why ResultIsFixpoint holds.  A block the loop visits either still has   *)
(* its start values or holds the transfer of its own input; the blocks     *)
(* already passed in this sweep are of the second kind and, as long as     *)
(* nothing has changed, their input is still the meet of their neighbours. *)
(***************************************************************************)
Untouched(b) ==
    /\ InputSide[b] = StartInput(fn, b)
    /\ OutputSide[b] = StartOutput(fn, b)
    /\ element[b] = StartElement(fn, b)
    /\ neighborVals[b] = NoVals

Computed(b) ==
    /\ OutputSide[b] = TransferFn(fn, b, Bits(InputSide[b])).element
    /\ element[b] = TransferFn(fn, b, Bits(InputSide[b])).element
    /\ neighborVals[b] = TransferFn(fn, b, Bits(InputSide[b])).neighborVals

Settled(b) == InputSide[b] = MeetInput(fn, element, neighborVals, b, InputSide[b])

EveryBlockInOrder ==
    /\ \A b \in Visited(fn) : Untouched(b) \/ Computed(b)
    /\ \A i \in 1..Len(fn.po) : i < pos => Computed(TraversalOrder(fn)[i])
    /\ \A b \in fn.blocks \ Visited(fn) : Untouched(b)

PrefixSettled ==
    converged => \A i \in 1..Len(fn.po) : i < pos => Settled(TraversalOrder(fn)[i])

ReturnsConverged == pc = "done" => converged /\ pos = Len(fn.po) + 1

LoopInvariant == TypeOK /\ EveryBlockInOrder /\ PrefixSettled /\ ReturnsConverged

\* The element and the phi values an assignment S of input sets gives a block;
\* a block the loop never visits keeps the ones it started with.
SolutionElement(f, S) ==
    [b \in f.blocks |-> IF b \in Visited(f) THEN TransferFn(f, b, S[b]).element
                                            ELSE StartElement(f, b)]

SolutionVals(f, S) ==
    [b \in f.blocks |-> IF b \in Visited(f) THEN TransferFn(f, b, S[b]).neighborVals
                                            ELSE NoVals]

\* S assigns every block an input set so that the equations hold.
Solutions(f) ==
    {S \in [f.blocks -> SUBSET DomainOf(f)] :
        \A b \in Visited(f) :
            S[b] = MeetInput(f, SolutionElement(f, S), SolutionVals(f, S), b,
                             Bits(StartInput(f, b)))}

\* The order the iteration climbs: larger sets for UNION, smaller ones for
\* INTERSECTION.
Below(x, y) == IF MeetOp = "UNION" THEN x \subseteq y ELSE y \subseteq x

(* At every moment the set computed so far for a block is on the near side  *)
(* of every solution of the equations: the loop never overshoots, so with   *)
(* ResultIsFixpoint it returns the extremal solution (the most precise      *)
(* one), whatever the traversal order.  A boundary block's start value is   *)
(* the exception, and no block may read it before it is replaced.           *)
NeverOvershoots ==
    \A S \in Solutions(fn) : \A i \in 1..Len(fn.po) :
        LET b == TraversalOrder(fn)[i]
        IN i < pos \/ b \notin BoundaryBlocks(fn)
              => Below(element[b], SolutionElement(fn, S)[b])

(***************************************************************************)
(* Why NeverOvershoots holds: the phi values are on the near side too, and *)
(* a block without neighbours keeps the input it started with.             *)
(***************************************************************************)
Near(S, b) ==
    /\ Below(element[b], SolutionElement(fn, S)[b])
    /\ \A p \in DOMAIN neighborVals[b] :
          /\ p \in DOMAIN SolutionVals(fn, S)[b]
          /\ neighborVals[b][p] \subseteq SolutionVals(fn, S)[b][p]
    /\ MeetOp = "INTERSECTION" => neighborVals[b] = NoVals

NearSide ==
    /\ \A b \in Visited(fn) : Neighbors(fn, b) = {} => InputSide[b] = StartInput(fn, b)
    /\ \A S \in Solutions(fn) : \A i \in 1..Len(fn.po) :
          i < pos \/ TraversalOrder(fn)[i] \notin BoundaryBlocks(fn)
              => Near(S, TraversalOrder(fn)[i])

(* The loop converges: run returns for every function. *)
Terminates == <>(pc = "done")

(* The blocks run returns with an IN or OUT vector of size 0, which the     *)
(* passes may not index: a boundary block the loop does not visit, and,     *)
(* with asst2's initialisation, any other block it does not visit or that   *)
(* ends without a return and without a successor (after a call of exit).    *)
UnsizedExactly ==
    pc = "done" => \A b \in fn.blocks :
        (in[b] = Unsized \/ out[b] = Unsized)
            <=> \/ b \in BoundaryBlocks(fn) /\ b \notin Visited(fn)
                \/ /\ ~InitBothSides
                   /\ b \notin BoundaryBlocks(fn)
                   /\ b \notin Visited(fn) \/ Neighbors(fn, b) = {}
=============================================================================
