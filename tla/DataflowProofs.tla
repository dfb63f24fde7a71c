--------------------------- MODULE DataflowProofs ---------------------------
(***************************************************************************)
(* What holds of the solver for every function, domain and transfer        *)
(* function that satisfy the assumptions of module Dataflow.               *)
(***************************************************************************)
EXTENDS Dataflow, FiniteSetTheorems, TLAPS

\* The traversal order lists the visited blocks once each.
LEMMA OrderIsEnumeration ==
    ASSUME NEW f \in Functions
    PROVE  /\ Len(f.po) \in Nat
           /\ TraversalOrder(f) \in [1..Len(f.po) -> f.blocks]
           /\ \A i \in 1..Len(f.po) : TraversalOrder(f)[i] \in Visited(f)
           /\ \A b \in Visited(f) : \E i \in 1..Len(f.po) : TraversalOrder(f)[i] = b
           /\ \A i, j \in 1..Len(f.po) : TraversalOrder(f)[i] = TraversalOrder(f)[j] => i = j
           /\ Visited(f) \subseteq f.blocks
<1>1. /\ f.po \in Seq(f.blocks)
      /\ \A i, j \in 1..Len(f.po) : f.po[i] = f.po[j] => i = j
  BY CfgAssumption DEF WellFormedCfg
<1>2. /\ Len(f.po) \in Nat
      /\ \A i \in 1..Len(f.po) : f.po[i] \in f.blocks
      /\ f.po \in [1..Len(f.po) -> f.blocks]
  BY <1>1
<1>3. \A i \in 1..Len(f.po) : Len(f.po) + 1 - i \in 1..Len(f.po)
  BY <1>2
<1>4. CASE Direction = "FORWARD"
  <2>1. TraversalOrder(f) = [i \in 1..Len(f.po) |-> f.po[Len(f.po) + 1 - i]]
    BY <1>4 DEF TraversalOrder
  <2>2. \A i \in 1..Len(f.po) : TraversalOrder(f)[i] = f.po[Len(f.po) + 1 - i]
    BY <2>1
  <2>3. TraversalOrder(f) \in [1..Len(f.po) -> f.blocks]
    BY <2>1, <1>2, <1>3
  <2>4. \A i, j \in 1..Len(f.po) : TraversalOrder(f)[i] = TraversalOrder(f)[j] => i = j
    <3> SUFFICES ASSUME NEW i \in 1..Len(f.po), NEW j \in 1..Len(f.po),
                        TraversalOrder(f)[i] = TraversalOrder(f)[j]
                 PROVE  i = j
      OBVIOUS
    <3>1. Len(f.po) + 1 - i = Len(f.po) + 1 - j
      BY <2>2, <1>1, <1>3
    <3> QED BY <3>1, <1>2
  <2>5. \A b \in Visited(f) : \E i \in 1..Len(f.po) : TraversalOrder(f)[i] = b
    <3> SUFFICES ASSUME NEW i \in 1..Len(f.po)
                 PROVE  \E j \in 1..Len(f.po) : TraversalOrder(f)[j] = f.po[i]
      BY DEF Visited
    <3>1. Len(f.po) + 1 - (Len(f.po) + 1 - i) = i
      BY <1>2
    <3> QED BY <3>1, <1>3, <2>2
  <2> QED BY <1>2, <1>3, <2>2, <2>3, <2>4, <2>5 DEF Visited
<1>5. CASE Direction = "BACKWARD"
  <2>1. TraversalOrder(f) = f.po
    BY <1>5 DEF TraversalOrder
  <2> QED BY <1>1, <1>2, <2>1 DEF Visited
<1> QED BY <1>4, <1>5, ParameterAssumption

\* A boundary block comes before every block that reads it.
LEMMA BoundaryFirst ==
    ASSUME NEW f \in Functions,
           NEW i \in 1..Len(f.po), NEW j \in 1..Len(f.po),
           TraversalOrder(f)[i] \in BoundaryBlocks(f),
           TraversalOrder(f)[i] \in Neighbors(f, TraversalOrder(f)[j])
    PROVE  i < j
<1>1. WellFormedCfg(f)
  BY CfgAssumption
<1>2. Len(f.po) \in Nat
  BY OrderIsEnumeration
<1>3. CASE Direction = "FORWARD"
  <2>1. Len(f.po) >= 1 /\ 1 \in 1..Len(f.po)
    BY <1>1, <1>2 DEF WellFormedCfg
  <2>2. TraversalOrder(f)[1] = f.entry
    BY <1>1, <1>2, <1>3, <2>1 DEF WellFormedCfg, TraversalOrder
  <2>3. i = 1
    BY <1>3, <2>1, <2>2, OrderIsEnumeration DEF BoundaryBlocks
  <2>4. Neighbors(f, f.entry) = {}
    BY <1>1, <1>3 DEF WellFormedCfg, Neighbors
  <2> QED BY <1>2, <2>2, <2>3, <2>4
<1>4. CASE Direction = "BACKWARD"
  BY <1>1, <1>4 DEF WellFormedCfg, TraversalOrder, BoundaryBlocks, Neighbors
<1> QED BY <1>3, <1>4, ParameterAssumption

-----------------------------------------------------------------------------
(* Typing. *)

\* What the loop reads and computes for the block at pos.
LEMMA BlockTypes ==
    ASSUME TypeOK, pos <= Len(fn.po)
    PROVE  /\ fn \in Functions
           /\ pos \in 1..Len(fn.po)
           /\ Block \in Visited(fn)
           /\ Block \in fn.blocks
           /\ Neighbors(fn, Block) \subseteq fn.blocks
           /\ BlockInput \in {Unsized} \cup SUBSET DomainOf(fn)
           /\ Bits(BlockInput) \subseteq DomainOf(fn)
           /\ TransferOutput.element \subseteq DomainOf(fn)
           /\ IsNeighborMap(fn, TransferOutput.neighborVals)
<1>1. fn \in Functions /\ WellFormedCfg(fn)
  BY CfgAssumption DEF TypeOK
<1>2. pos \in 1..Len(fn.po)
  BY <1>1, OrderIsEnumeration DEF TypeOK
<1>3. Block \in Visited(fn) /\ Block \in fn.blocks
  BY <1>1, <1>2, OrderIsEnumeration DEF Block
<1>4. Neighbors(fn, Block) \subseteq fn.blocks
  BY <1>1, <1>3 DEF Neighbors, WellFormedCfg
<1>5. InputSide[Block] \in {Unsized} \cup SUBSET DomainOf(fn)
  BY <1>3 DEF TypeOK, InputSide
<1>6. \A n \in fn.blocks : ShownTo(element, neighborVals, n, Block) \subseteq DomainOf(fn)
  BY DEF TypeOK, ShownTo, IsNeighborMap
<1>7. BlockInput \in {Unsized} \cup SUBSET DomainOf(fn)
  BY <1>4, <1>5, <1>6 DEF BlockInput, MeetInput, ApplyMeetOp
<1>8. Bits(BlockInput) \subseteq DomainOf(fn)
  BY <1>7 DEF Bits
<1>9. /\ TransferOutput.element \subseteq DomainOf(fn)
      /\ IsNeighborMap(fn, TransferOutput.neighborVals)
  BY <1>1, <1>3, <1>8, TransferAssumption DEF TransferOutput
<1> QED BY <1>1, <1>2, <1>3, <1>4, <1>7, <1>8, <1>9

\* The state before the loop is well typed.
LEMMA TypeInit == Init => TypeOK
<1> SUFFICES ASSUME Init PROVE TypeOK
  OBVIOUS
<1>1. fn \in Functions /\ Len(fn.po) \in Nat
  BY OrderIsEnumeration DEF Init
<1>2. \A b \in fn.blocks : /\ StartInput(fn, b) \in {Unsized} \cup SUBSET DomainOf(fn)
                           /\ StartOutput(fn, b) \in {Unsized} \cup SUBSET DomainOf(fn)
                           /\ StartElement(fn, b) \in SUBSET DomainOf(fn)
  BY <1>1, ParameterAssumption DEF StartInput, StartOutput, StartElement
<1>3. IsNeighborMap(fn, NoVals)
  BY DEF IsNeighborMap, NoVals
<1> QED BY <1>1, <1>2, <1>3 DEF Init, StartIn, StartOut, TypeOK

\* No step of the loop leaves the types.
LEMMA TypeStep == TypeOK /\ [Next]_vars => TypeOK'
<1> SUFFICES ASSUME TypeOK, [Next]_vars PROVE TypeOK'
  OBVIOUS
<1>1. CASE ProcessBlock
  <2>1. pos <= Len(fn.po) /\ fn' = fn /\ pc' = pc
    BY <1>1 DEF ProcessBlock
  <2>2. /\ in' \in [fn.blocks -> {Unsized} \cup SUBSET DomainOf(fn)]
        /\ out' \in [fn.blocks -> {Unsized} \cup SUBSET DomainOf(fn)]
        /\ element' \in [fn.blocks -> SUBSET DomainOf(fn)]
    BY <1>1, <2>1, BlockTypes DEF ProcessBlock, TypeOK
  <2>3. neighborVals' = [neighborVals EXCEPT ![Block] = TransferOutput.neighborVals]
    BY <1>1 DEF ProcessBlock
  <2>4. /\ neighborVals' = [b \in fn.blocks |-> neighborVals'[b]]
        /\ \A b \in fn.blocks : IsNeighborMap(fn, neighborVals'[b])
    BY <2>1, <2>3, BlockTypes DEF TypeOK
  <2>5. pos' \in 1..(Len(fn.po) + 1) /\ converged' \in BOOLEAN
    BY <1>1, <2>1, BlockTypes, OrderIsEnumeration DEF ProcessBlock, TypeOK
  <2> QED BY <2>1, <2>2, <2>4, <2>5, BlockTypes DEF TypeOK
<1>2. CASE EndSweep
  <2>1. /\ fn' = fn /\ in' = in /\ out' = out /\ element' = element
        /\ neighborVals' = neighborVals
    BY <1>2 DEF EndSweep
  <2>2. pos' \in 1..(Len(fn.po) + 1) /\ converged' \in BOOLEAN /\ pc' \in {"sweep", "done"}
    <3>1. Len(fn.po) \in Nat
      BY OrderIsEnumeration DEF TypeOK
    <3>2. CASE converged
      BY <1>2, <3>2 DEF EndSweep, TypeOK
    <3>3. CASE ~converged
      BY <1>2, <3>1, <3>3 DEF EndSweep, TypeOK
    <3> QED BY <3>2, <3>3
  <2> QED BY <2>1, <2>2 DEF TypeOK
<1>3. CASE UNCHANGED vars
  BY <1>3 DEF vars, TypeOK
<1> QED BY <1>1, <1>2, <1>3 DEF Next, Returned

(* run keeps its result well typed: no vector ever holds a bit outside the  *)
(* domain, whatever the function and the transfer function.                 *)
THEOREM TypeCorrect == Spec => []TypeOK
BY TypeInit, TypeStep, PTL DEF Spec

-----------------------------------------------------------------------------
(* The result is a fixpoint. *)

\* A step writes the meet into one side of the block and the transfer of it
\* into the other, whatever the direction.
LEMMA SidesStep ==
    ASSUME TypeOK, ProcessBlock
    PROVE  /\ InputSide' = [InputSide EXCEPT ![Block] = BlockInput]
           /\ OutputSide' = [OutputSide EXCEPT ![Block] = TransferOutput.element]
           /\ InputSide = [b \in fn.blocks |-> InputSide[b]]
           /\ OutputSide = [b \in fn.blocks |-> OutputSide[b]]
<1>1. CASE Direction = "FORWARD"
  BY <1>1 DEF ProcessBlock, InputSide, OutputSide, TypeOK
<1>2. CASE Direction = "BACKWARD"
  BY <1>2 DEF ProcessBlock, InputSide, OutputSide, TypeOK
<1> QED BY <1>1, <1>2, ParameterAssumption

\* A map without entries is NoVals.
LEMMA NoEntries ==
    ASSUME NEW f \in Functions, NEW m, IsNeighborMap(f, m),
           Cardinality(DOMAIN m) = Cardinality(DOMAIN NoVals)
    PROVE  m = NoVals
<1>1. IsFiniteSet(DOMAIN m)
  BY FS_Subset, CfgAssumption DEF WellFormedCfg, IsNeighborMap
<1>2. Cardinality(DOMAIN m) = 0
  BY FS_EmptySet DEF NoVals
<1>3. DOMAIN m = {}
  BY <1>1, <1>2, FS_EmptySet
<1> QED BY <1>3 DEF IsNeighborMap, NoVals

\* When converged is not cleared, the step leaves what the block offers its
\* readers as it was: for a computed block the element decides the phi values,
\* for an untouched one the count of entries was zero and still is.
LEMMA SilentStep ==
    ASSUME TypeOK, pos <= Len(fn.po), ~OutputChanged,
           \/ Computed(Block)
           \/ Untouched(Block) /\ Block \notin BoundaryBlocks(fn)
    PROVE  /\ TransferOutput.element = element[Block]
           /\ TransferOutput.neighborVals = neighborVals[Block]
<1>1. /\ fn \in Functions /\ Block \in fn.blocks
      /\ Bits(BlockInput) \in SUBSET DomainOf(fn)
      /\ IsNeighborMap(fn, TransferOutput.neighborVals)
  BY BlockTypes
<1>2. /\ TransferOutput.element = Bits(OutputSide[Block])
      /\ Cardinality(DOMAIN TransferOutput.neighborVals)
            = Cardinality(DOMAIN neighborVals[Block])
  BY DEF OutputChanged
<1>3. \A v \in SUBSET DomainOf(fn) : Bits(v) = v
  BY <1>1, ParameterAssumption DEF Bits
<1>4. CASE Computed(Block)
  <2>1. Bits(InputSide[Block]) \in SUBSET DomainOf(fn)
    <3>1. InputSide[Block] \in {Unsized} \cup SUBSET DomainOf(fn)
      BY <1>1 DEF TypeOK, InputSide
    <3> QED BY <3>1 DEF Bits
  <2>2. element[Block] \in SUBSET DomainOf(fn) /\ OutputSide[Block] = element[Block]
    BY <1>1, <1>4 DEF Computed, TypeOK
  <2>3. TransferOutput.element = element[Block]
    BY <1>2, <1>3, <2>2
  <2>4. /\ TransferFn(fn, Block, Bits(BlockInput)).element
             = TransferFn(fn, Block, Bits(InputSide[Block])).element
        /\ neighborVals[Block] = TransferFn(fn, Block, Bits(InputSide[Block])).neighborVals
    BY <1>4, <2>3 DEF Computed, TransferOutput
  <2>5. TransferFn(fn, Block, Bits(BlockInput)).neighborVals
             = TransferFn(fn, Block, Bits(InputSide[Block])).neighborVals
    BY <1>1, <2>1, <2>4, PhiValsAssumption
  <2> QED BY <2>3, <2>4, <2>5 DEF TransferOutput
<1>5. CASE Untouched(Block) /\ Block \notin BoundaryBlocks(fn)
  <2>1. OutputSide[Block] = InitCond(fn) /\ element[Block] = InitCond(fn)
    BY <1>5 DEF Untouched, StartOutput, StartElement
  <2>2. TransferOutput.element = element[Block]
    BY <1>1, <1>2, <1>3, <2>1, ParameterAssumption
  <2>3. TransferOutput.neighborVals = neighborVals[Block]
    BY <1>1, <1>2, <1>5, NoEntries DEF Untouched
  <2> QED BY <2>2, <2>3
<1> QED BY <1>4, <1>5

\* Before the loop every block is untouched and none has been passed.
LEMMA LoopInvariantInit == Init => LoopInvariant
<1> SUFFICES ASSUME Init PROVE LoopInvariant
  OBVIOUS
<1>1. TypeOK
  BY TypeInit
<1>2. \A b \in fn.blocks : Untouched(b)
  <2>1. CASE Direction = "FORWARD"
    BY <2>1 DEF Init, StartIn, StartOut, Untouched, InputSide, OutputSide
  <2>2. CASE Direction = "BACKWARD"
    BY <2>2 DEF Init, StartIn, StartOut, Untouched, InputSide, OutputSide
  <2> QED BY <2>1, <2>2, ParameterAssumption
<1>3. fn \in Functions /\ pos = 1 /\ pc = "sweep"
  BY DEF Init
<1>4. EveryBlockInOrder
  BY <1>2, <1>3, OrderIsEnumeration DEF EveryBlockInOrder
<1> QED BY <1>1, <1>3, <1>4 DEF LoopInvariant, PrefixSettled, ReturnsConverged

\* Processing the block at pos: it becomes computed, the others keep their
\* state, and, if the step is silent, the settled blocks stay settled because
\* none of them reads a start value the step has just replaced.
LEMMA LoopInvariantProcess ==
    ASSUME LoopInvariant, ProcessBlock
    PROVE  EveryBlockInOrder' /\ PrefixSettled' /\ ReturnsConverged'
<1> DEFINE order == TraversalOrder(fn)
           n == Len(fn.po)
<1>0. TypeOK /\ EveryBlockInOrder /\ PrefixSettled
  BY DEF LoopInvariant
<1>1. pos <= n /\ fn' = fn /\ pc = "sweep" /\ pc' = "sweep" /\ pos' = pos + 1
  BY DEF ProcessBlock
<1>2. fn \in Functions /\ pos \in 1..n /\ n \in Nat
  BY <1>0, <1>1, BlockTypes, OrderIsEnumeration
<1>3. PICK blk \in fn.blocks : blk = Block
  BY <1>0, <1>1, BlockTypes
<1>4. blk = order[pos] /\ blk \in Visited(fn)
  BY <1>0, <1>1, <1>3, BlockTypes DEF Block
<1>5. /\ InputSide'[blk] = BlockInput
      /\ OutputSide'[blk] = TransferOutput.element
      /\ element'[blk] = TransferOutput.element
      /\ neighborVals'[blk] = TransferOutput.neighborVals
  BY <1>0, <1>3, SidesStep DEF ProcessBlock, TypeOK
<1>6. ASSUME NEW b \in fn.blocks, b # blk
      PROVE  /\ InputSide'[b] = InputSide[b]
             /\ OutputSide'[b] = OutputSide[b]
             /\ element'[b] = element[b]
             /\ neighborVals'[b] = neighborVals[b]
  BY <1>0, <1>3, <1>6, SidesStep DEF ProcessBlock, TypeOK
<1>7. Computed(blk)'
  BY <1>1, <1>3, <1>5 DEF Computed, TransferOutput
<1>8. ASSUME NEW b \in fn.blocks, b # blk
      PROVE  (Untouched(b) => Untouched(b)') /\ (Computed(b) => Computed(b)')
  BY <1>1, <1>6, <1>8 DEF Computed, Untouched
<1>9. EveryBlockInOrder'
  <2>1. \A b \in Visited(fn) : Untouched(b)' \/ Computed(b)'
    BY <1>0, <1>2, <1>7, <1>8, OrderIsEnumeration DEF EveryBlockInOrder
  <2>2. \A i \in 1..n : i < pos' => Computed(order[i])'
    <3> SUFFICES ASSUME NEW i \in 1..n, i < pos' PROVE Computed(order[i])'
      BY <1>1
    <3>1. PICK b \in fn.blocks : b = order[i]
      BY <1>2, OrderIsEnumeration
    <3>2. order'[i] = b
      BY <1>1, <3>1
    <3>3. CASE b = blk
      BY <1>7, <3>2, <3>3 DEF Computed
    <3>4. CASE b # blk
      <4>1. i < pos
        BY <1>1, <1>2, <1>4, <3>1, <3>4
      <4>2. Computed(b)
        BY <1>0, <3>1, <4>1 DEF EveryBlockInOrder
      <4> QED BY <1>8, <3>2, <3>4, <4>2 DEF Computed
    <3> QED BY <3>3, <3>4
  <2>3. \A b \in fn.blocks \ Visited(fn) : Untouched(b)'
    BY <1>0, <1>4, <1>8 DEF EveryBlockInOrder
  <2> QED BY <1>1, <2>1, <2>2, <2>3 DEF EveryBlockInOrder
<1>10. PrefixSettled'
  <2> SUFFICES ASSUME converged', NEW i \in 1..n, i < pos'
               PROVE  Settled(order[i])'
    BY <1>1 DEF PrefixSettled
  <2>1. converged /\ ~OutputChanged
    BY DEF ProcessBlock
  <2>2. PICK b \in fn.blocks : b = order[i]
    BY <1>2, OrderIsEnumeration
  <2>3. InputSide'[b] = MeetInput(fn, element, neighborVals, b, InputSide'[b])
    <3>1. CASE b = blk
      BY <1>3, <1>5, <3>1 DEF BlockInput, MeetInput
    <3>2. CASE b # blk
      <4>1. i < pos
        BY <1>1, <1>2, <1>4, <2>2, <3>2
      <4>2. Settled(b)
        BY <1>0, <2>1, <2>2, <4>1 DEF PrefixSettled
      <4> QED BY <1>6, <3>2, <4>2 DEF Settled
    <3> QED BY <3>1, <3>2
  <2>4. blk \in Neighbors(fn, b)
           => element'[blk] = element[blk] /\ neighborVals'[blk] = neighborVals[blk]
    <3> SUFFICES ASSUME blk \in Neighbors(fn, b)
                 PROVE  element'[blk] = element[blk] /\ neighborVals'[blk] = neighborVals[blk]
      OBVIOUS
    <3>1. blk \notin BoundaryBlocks(fn)
      <4>1. ASSUME blk \in BoundaryBlocks(fn) PROVE FALSE
        <5>1. pos < i
          BY <1>2, <1>4, <2>2, <4>1, BoundaryFirst
        <5> QED BY <1>1, <1>2, <5>1
      <4> QED BY <4>1
    <3>2. Untouched(Block) \/ Computed(Block)
      BY <1>0, <1>3, <1>4 DEF EveryBlockInOrder
    <3> QED BY <1>0, <1>1, <1>3, <1>5, <2>1, <3>1, <3>2, SilentStep
  <2>5. Neighbors(fn, b) \subseteq fn.blocks
    BY <1>2, CfgAssumption DEF Neighbors, WellFormedCfg
  <2>6. \A m \in Neighbors(fn, b) :
           ShownTo(element', neighborVals', m, b) = ShownTo(element, neighborVals, m, b)
    BY <1>6, <2>4, <2>5 DEF ShownTo
  <2>7. MeetInput(fn, element', neighborVals', b, InputSide'[b])
           = MeetInput(fn, element, neighborVals, b, InputSide'[b])
    <3>1. {ShownTo(element', neighborVals', m, b) : m \in Neighbors(fn, b)}
             = {ShownTo(element, neighborVals, m, b) : m \in Neighbors(fn, b)}
      BY <2>6
    <3> QED BY <3>1 DEF MeetInput
  <2> QED BY <1>1, <2>2, <2>3, <2>7 DEF Settled
<1> QED BY <1>1, <1>9, <1>10 DEF ReturnsConverged

\* The end of a sweep changes no result; a new sweep starts with nothing passed.
LEMMA LoopInvariantEndSweep ==
    ASSUME LoopInvariant, EndSweep
    PROVE  EveryBlockInOrder' /\ PrefixSettled' /\ ReturnsConverged'
<1>1. /\ fn' = fn /\ in' = in /\ out' = out /\ element' = element
      /\ neighborVals' = neighborVals
  BY DEF EndSweep
<1>2. InputSide' = InputSide /\ OutputSide' = OutputSide
  BY <1>1 DEF InputSide, OutputSide
<1>3. fn \in Functions /\ Len(fn.po) \in Nat /\ pos \in 1..(Len(fn.po) + 1)
  BY OrderIsEnumeration DEF LoopInvariant, TypeOK
<1>4. ASSUME NEW b
      PROVE  (Untouched(b)' <=> Untouched(b)) /\ (Computed(b)' <=> Computed(b))
             /\ (Settled(b)' <=> Settled(b))
  BY <1>1, <1>2 DEF Untouched, Computed, Settled
<1>5. CASE converged
  <2>1. pc' = "done" /\ pos' = pos /\ converged' = converged
    BY <1>5 DEF EndSweep
  <2>2. pos = Len(fn.po) + 1
    BY <1>3 DEF EndSweep
  <2>3. EveryBlockInOrder'
    BY <1>1, <1>4, <2>1 DEF LoopInvariant, EveryBlockInOrder
  <2>4. PrefixSettled'
    BY <1>1, <1>4, <2>1 DEF LoopInvariant, PrefixSettled
  <2> QED BY <1>1, <1>5, <2>1, <2>2, <2>3, <2>4 DEF ReturnsConverged
<1>6. CASE ~converged
  <2>1. pc' = "sweep" /\ pos' = 1
    BY <1>6 DEF EndSweep
  <2>2. EveryBlockInOrder'
    BY <1>1, <1>3, <1>4, <2>1 DEF LoopInvariant, EveryBlockInOrder
  <2>3. PrefixSettled'
    BY <1>1, <1>3, <2>1 DEF PrefixSettled
  <2> QED BY <2>1, <2>2, <2>3 DEF ReturnsConverged
<1> QED BY <1>5, <1>6

\* Every step of run keeps the loop invariant.
LEMMA LoopInvariantStep == LoopInvariant /\ [Next]_vars => LoopInvariant'
<1> SUFFICES ASSUME LoopInvariant, [Next]_vars PROVE LoopInvariant'
  OBVIOUS
<1>1. TypeOK'
  BY TypeStep DEF LoopInvariant
<1>2. CASE ProcessBlock
  BY <1>1, <1>2, LoopInvariantProcess DEF LoopInvariant
<1>3. CASE EndSweep
  BY <1>1, <1>3, LoopInvariantEndSweep DEF LoopInvariant
<1>4. CASE UNCHANGED vars
  <2>1. InputSide' = InputSide /\ OutputSide' = OutputSide
    BY <1>4 DEF vars, InputSide, OutputSide
  <2>2. EveryBlockInOrder'
    BY <1>4, <2>1 DEF vars, LoopInvariant, EveryBlockInOrder, Untouched, Computed
  <2>3. PrefixSettled' /\ ReturnsConverged'
    BY <1>4, <2>1 DEF vars, LoopInvariant, PrefixSettled, ReturnsConverged, Settled
  <2> QED BY <1>1, <2>2, <2>3 DEF LoopInvariant
<1> QED BY <1>2, <1>3, <1>4 DEF Next, Returned

(* At every moment of run, a visited block has its start values or holds    *)
(* the transfer of its own input, and the blocks passed in a so far silent  *)
(* sweep are settled: the inductive invariant behind FixpointAtReturn.      *)
THEOREM LoopInvariantHolds == Spec => []LoopInvariant
BY LoopInvariantInit, LoopInvariantStep, PTL DEF Spec

\* At the return every visited block is computed and settled.
LEMMA LoopInvariantImpliesFixpoint == LoopInvariant => ResultIsFixpoint
<1> SUFFICES ASSUME LoopInvariant, pc = "done", NEW b \in Visited(fn) PROVE Stable(b)
  BY DEF ResultIsFixpoint
<1>1. fn \in Functions /\ Len(fn.po) \in Nat
  BY OrderIsEnumeration DEF LoopInvariant, TypeOK
<1>2. converged /\ pos = Len(fn.po) + 1
  BY DEF LoopInvariant, ReturnsConverged
<1>3. PICK i \in 1..Len(fn.po) : TraversalOrder(fn)[i] = b
  BY <1>1, OrderIsEnumeration
<1>4. i < pos
  BY <1>1, <1>2
<1>5. Computed(b) /\ Settled(b)
  BY <1>2, <1>3, <1>4 DEF LoopInvariant, EveryBlockInOrder, PrefixSettled
<1> QED BY <1>5 DEF Stable, Computed, Settled

(* The result run returns solves the data-flow equations, for every         *)
(* function, direction, meet and transfer function that satisfies the       *)
(* assumptions: the test for convergence of dataflow.cpp, which looks at    *)
(* the output set and at the number of phi entries only, misses no change.  *)
THEOREM FixpointAtReturn == Spec => []ResultIsFixpoint
BY LoopInvariantHolds, LoopInvariantImpliesFixpoint, PTL

-----------------------------------------------------------------------------
(* The result is the extremal fixpoint. *)

\* What a solution gives a block is typed.
LEMMA SolutionTypes ==
    ASSUME NEW f \in Functions, NEW S \in Solutions(f), NEW b \in f.blocks
    PROVE  /\ S[b] \in SUBSET DomainOf(f)
           /\ SolutionElement(f, S)[b] \in SUBSET DomainOf(f)
           /\ IsNeighborMap(f, SolutionVals(f, S)[b])
           /\ MeetOp = "INTERSECTION" => SolutionVals(f, S)[b] = NoVals
<1>1. S[b] \in SUBSET DomainOf(f)
  BY DEF Solutions
<1>2. /\ StartElement(f, b) \in SUBSET DomainOf(f)
      /\ IsNeighborMap(f, NoVals)
  BY ParameterAssumption DEF StartElement, IsNeighborMap, NoVals
<1>3. /\ TransferFn(f, b, S[b]).element \in SUBSET DomainOf(f)
      /\ IsNeighborMap(f, TransferFn(f, b, S[b]).neighborVals)
  BY <1>1, TransferAssumption
<1>4. MeetOp = "INTERSECTION" => TransferFn(f, b, S[b]).neighborVals = NoVals
  BY <1>1, MonotoneAssumption
<1> QED BY <1>1, <1>2, <1>3, <1>4 DEF SolutionElement, SolutionVals

\* The meet is monotone in what the neighbours show.
LEMMA MeetMonotone ==
    ASSUME NEW f \in Functions, NEW N, N # {},
           NEW x \in [N -> SUBSET DomainOf(f)], NEW y \in [N -> SUBSET DomainOf(f)],
           \A n \in N : Below(x[n], y[n])
    PROVE  Below(ApplyMeetOp(f, {x[n] : n \in N}), ApplyMeetOp(f, {y[n] : n \in N}))
BY DEF Below, ApplyMeetOp

\* The transfer function is monotone in either order.
LEMMA TransferMonotone ==
    ASSUME NEW f \in Functions, NEW b \in f.blocks,
           NEW i1 \in SUBSET DomainOf(f), NEW i2 \in SUBSET DomainOf(f), Below(i1, i2)
    PROVE  LET t1 == TransferFn(f, b, i1)
               t2 == TransferFn(f, b, i2)
           IN /\ Below(t1.element, t2.element)
              /\ MeetOp = "INTERSECTION" =>
                    t1.neighborVals = NoVals /\ t2.neighborVals = NoVals
              /\ \A p \in DOMAIN t1.neighborVals :
                    /\ p \in DOMAIN t2.neighborVals
                    /\ t1.neighborVals[p] \subseteq t2.neighborVals[p]
<1>1. CASE MeetOp = "UNION"
  BY <1>1, MonotoneAssumption DEF Below
<1>2. CASE MeetOp = "INTERSECTION"
  <2>1. i2 \subseteq i1
    BY <1>2 DEF Below
  <2>2. TransferFn(f, b, i2).element \subseteq TransferFn(f, b, i1).element
    BY <2>1, MonotoneAssumption
  <2>3. TransferFn(f, b, i1).neighborVals = NoVals /\ TransferFn(f, b, i2).neighborVals = NoVals
    BY <1>2, MonotoneAssumption
  <2>4. DOMAIN NoVals = {}
    BY DEF NoVals
  <2> QED BY <1>2, <2>2, <2>3, <2>4 DEF Below
<1> QED BY <1>1, <1>2, ParameterAssumption

\* The start values are on the near side of every solution.
LEMMA NearSideInit == Init => NearSide
<1> SUFFICES ASSUME Init PROVE NearSide
  OBVIOUS
<1>1. LoopInvariant
  BY LoopInvariantInit
<1>2. fn \in Functions /\ Len(fn.po) \in Nat /\ pos = 1
  BY OrderIsEnumeration DEF Init
<1>3. \A b \in fn.blocks : Untouched(b)
  <2>1. CASE Direction = "FORWARD"
    BY <2>1 DEF Init, StartIn, StartOut, Untouched, InputSide, OutputSide
  <2>2. CASE Direction = "BACKWARD"
    BY <2>2 DEF Init, StartIn, StartOut, Untouched, InputSide, OutputSide
  <2> QED BY <2>1, <2>2, ParameterAssumption
<1>4. \A b \in Visited(fn) : InputSide[b] = StartInput(fn, b)
  BY <1>2, <1>3, OrderIsEnumeration DEF Untouched
<1>5. ASSUME NEW S \in Solutions(fn), NEW i \in 1..Len(fn.po),
             TraversalOrder(fn)[i] \notin BoundaryBlocks(fn)
      PROVE  Near(S, TraversalOrder(fn)[i])
  <2>1. PICK b \in fn.blocks : b = TraversalOrder(fn)[i]
    BY <1>2, OrderIsEnumeration
  <2>2. element[b] = InitCond(fn) /\ neighborVals[b] = NoVals
    BY <1>3, <1>5, <2>1 DEF Untouched, StartElement
  <2>3. Below(InitCond(fn), SolutionElement(fn, S)[b])
    BY <1>2, SolutionTypes, StartAssumption DEF Below
  <2>4. DOMAIN NoVals = {}
    BY DEF NoVals
  <2> QED BY <2>1, <2>2, <2>3, <2>4 DEF Near
<1> QED BY <1>2, <1>4, <1>5 DEF NearSide

\* What the block at pos reads is on the near side of what a solution shows it:
\* a boundary block it reads has been processed, a block outside the order has
\* its start value in the solution too.
LEMMA ShownNear ==
    ASSUME LoopInvariant, NearSide, pos <= Len(fn.po),
           NEW S \in Solutions(fn), NEW m \in Neighbors(fn, Block)
    PROVE  /\ ShownTo(element, neighborVals, m, Block) \in SUBSET DomainOf(fn)
           /\ ShownTo(SolutionElement(fn, S), SolutionVals(fn, S), m, Block)
                 \in SUBSET DomainOf(fn)
           /\ Below(ShownTo(element, neighborVals, m, Block),
                    ShownTo(SolutionElement(fn, S), SolutionVals(fn, S), m, Block))
<1>1. /\ TypeOK /\ fn \in Functions /\ pos \in 1..Len(fn.po)
      /\ Block \in fn.blocks /\ m \in fn.blocks
  BY BlockTypes DEF LoopInvariant
<1>2. /\ SolutionElement(fn, S)[m] \in SUBSET DomainOf(fn)
      /\ IsNeighborMap(fn, SolutionVals(fn, S)[m])
      /\ MeetOp = "INTERSECTION" => SolutionVals(fn, S)[m] = NoVals
  BY <1>1, SolutionTypes
<1>3. element[m] \in SUBSET DomainOf(fn) /\ IsNeighborMap(fn, neighborVals[m])
  BY <1>1 DEF TypeOK
<1>4. Near(S, m)
  <2>1. CASE m \in Visited(fn)
    <3>1. PICK j \in 1..Len(fn.po) : TraversalOrder(fn)[j] = m
      BY <1>1, <2>1, OrderIsEnumeration
    <3>2. m \in BoundaryBlocks(fn) => j < pos
      BY <1>1, <3>1, BoundaryFirst DEF Block
    <3> QED BY <3>1, <3>2 DEF NearSide
  <2>2. CASE m \notin Visited(fn)
    <3>1. element[m] = StartElement(fn, m) /\ neighborVals[m] = NoVals
      BY <1>1, <2>2 DEF LoopInvariant, EveryBlockInOrder, Untouched
    <3>2. SolutionElement(fn, S)[m] = StartElement(fn, m)
      BY <1>1, <2>2 DEF SolutionElement
    <3>3. DOMAIN NoVals = {}
      BY DEF NoVals
    <3> QED BY <3>1, <3>2, <3>3 DEF Near, Below
  <2> QED BY <2>1, <2>2
<1>5. /\ ShownTo(element, neighborVals, m, Block) \in SUBSET DomainOf(fn)
      /\ ShownTo(SolutionElement(fn, S), SolutionVals(fn, S), m, Block) \in SUBSET DomainOf(fn)
  BY <1>2, <1>3 DEF ShownTo, IsNeighborMap
<1>6. CASE MeetOp = "UNION"
  BY <1>4, <1>5, <1>6 DEF Near, Below, ShownTo
<1>7. CASE MeetOp = "INTERSECTION"
  <2>1. neighborVals[m] = NoVals /\ SolutionVals(fn, S)[m] = NoVals
    BY <1>2, <1>4, <1>7 DEF Near
  <2>2. DOMAIN NoVals = {}
    BY DEF NoVals
  <2> QED BY <1>4, <1>5, <1>7, <2>1, <2>2 DEF Near, Below, ShownTo
<1> QED BY <1>5, <1>6, <1>7, ParameterAssumption

\* So is the input computed for it.
LEMMA InputNear ==
    ASSUME LoopInvariant, NearSide, pos <= Len(fn.po), NEW S \in Solutions(fn)
    PROVE  Below(Bits(BlockInput), S[Block])
<1> DEFINE N == Neighbors(fn, Block)
           x == [m \in N |-> ShownTo(element, neighborVals, m, Block)]
           y == [m \in N |-> ShownTo(SolutionElement(fn, S), SolutionVals(fn, S), m, Block)]
<1>1. fn \in Functions /\ Block \in Visited(fn) /\ Block \in fn.blocks
  BY BlockTypes DEF LoopInvariant
<1>2. S[Block] = MeetInput(fn, SolutionElement(fn, S), SolutionVals(fn, S), Block,
                           Bits(StartInput(fn, Block)))
  BY <1>1 DEF Solutions
<1>3. CASE N = {}
  <2>1. BlockInput = StartInput(fn, Block)
    BY <1>1, <1>3 DEF NearSide, BlockInput, MeetInput
  <2>2. S[Block] = Bits(StartInput(fn, Block))
    BY <1>2, <1>3 DEF MeetInput
  <2> QED BY <2>1, <2>2 DEF Below
<1>4. CASE N # {}
  <2>1. /\ x \in [N -> SUBSET DomainOf(fn)] /\ y \in [N -> SUBSET DomainOf(fn)]
        /\ \A m \in N : Below(x[m], y[m])
    BY ShownNear
  <2>2. Below(ApplyMeetOp(fn, {x[m] : m \in N}), ApplyMeetOp(fn, {y[m] : m \in N}))
    <3> HIDE DEF N, x, y
    <3> QED BY <1>1, <1>4, <2>1, MeetMonotone
  <2>3. BlockInput = ApplyMeetOp(fn, {x[m] : m \in N})
    <3>1. {x[m] : m \in N} = {ShownTo(element, neighborVals, m, Block) : m \in N}
      OBVIOUS
    <3> QED BY <1>4, <3>1 DEF BlockInput, MeetInput
  <2>4. S[Block] = ApplyMeetOp(fn, {y[m] : m \in N})
    <3>1. {y[m] : m \in N} =
             {ShownTo(SolutionElement(fn, S), SolutionVals(fn, S), m, Block) : m \in N}
      OBVIOUS
    <3> QED BY <1>2, <1>4, <3>1 DEF MeetInput
  <2>5. Bits(BlockInput) = BlockInput
    <3>1. BlockInput \in SUBSET DomainOf(fn)
      BY <2>1, <2>3 DEF ApplyMeetOp
    <3> QED BY <1>1, <3>1, ParameterAssumption DEF Bits
  <2> QED BY <2>2, <2>3, <2>4, <2>5
<1> QED BY <1>3, <1>4

\* Processing a block keeps every element on the near side.
LEMMA NearSideProcess ==
    ASSUME LoopInvariant, NearSide, ProcessBlock
    PROVE  NearSide'
<1> DEFINE order == TraversalOrder(fn)
           n == Len(fn.po)
<1>1. TypeOK /\ pos <= n /\ fn' = fn /\ pos' = pos + 1
  BY DEF LoopInvariant, ProcessBlock
<1>2. fn \in Functions /\ pos \in 1..n /\ n \in Nat
  BY <1>1, BlockTypes, OrderIsEnumeration
<1>3. PICK blk \in fn.blocks : blk = Block
  BY <1>1, BlockTypes
<1>4. blk = order[pos] /\ blk \in Visited(fn)
  BY <1>1, <1>3, BlockTypes DEF Block
<1>5. ASSUME NEW b \in Visited(fn), Neighbors(fn, b) = {}
      PROVE  InputSide'[b] = StartInput(fn, b)
  <2>1. InputSide[b] = StartInput(fn, b)
    BY <1>5 DEF NearSide
  <2>2. b \in fn.blocks
    BY <1>2, OrderIsEnumeration
  <2>3. CASE b = blk
    BY <1>1, <1>3, <1>5, <2>1, <2>2, <2>3, SidesStep DEF BlockInput, MeetInput
  <2>4. CASE b # blk
    BY <1>1, <1>3, <2>1, <2>2, <2>4, SidesStep
  <2> QED BY <2>3, <2>4
<1>6. ASSUME NEW S \in Solutions(fn), NEW i \in 1..n,
             i < pos' \/ order[i] \notin BoundaryBlocks(fn)
      PROVE  Near(S, order[i])'
  <2>1. PICK b \in fn.blocks : b = order[i]
    BY <1>2, OrderIsEnumeration
  <2>2. CASE b = blk
    <3>1. /\ element'[b] = TransferOutput.element
          /\ neighborVals'[b] = TransferOutput.neighborVals
      BY <1>1, <1>3, <2>2 DEF ProcessBlock, TypeOK
    <3>2. Below(Bits(BlockInput), S[b]) /\ Bits(BlockInput) \in SUBSET DomainOf(fn)
      BY <1>1, <1>3, <2>2, InputNear, BlockTypes
    <3>3. S[b] \in SUBSET DomainOf(fn)
      BY <1>2, SolutionTypes
    <3>4. TransferOutput = TransferFn(fn, b, Bits(BlockInput))
      BY <1>3, <2>2 DEF TransferOutput
    <3>5. /\ SolutionElement(fn, S)[b] = TransferFn(fn, b, S[b]).element
          /\ SolutionVals(fn, S)[b] = TransferFn(fn, b, S[b]).neighborVals
      BY <1>4, <2>2 DEF SolutionElement, SolutionVals
    <3>6. /\ Below(element'[b], SolutionElement(fn, S)[b])
          /\ MeetOp = "INTERSECTION" => neighborVals'[b] = NoVals
          /\ \A p \in DOMAIN neighborVals'[b] :
                /\ p \in DOMAIN SolutionVals(fn, S)[b]
                /\ neighborVals'[b][p] \subseteq SolutionVals(fn, S)[b][p]
      <4> DEFINE t1 == TransferFn(fn, b, Bits(BlockInput))
                 t2 == TransferFn(fn, b, S[b])
      <4>1. /\ Below(t1.element, t2.element)
            /\ MeetOp = "INTERSECTION" => t1.neighborVals = NoVals
            /\ \A p \in DOMAIN t1.neighborVals :
                  /\ p \in DOMAIN t2.neighborVals
                  /\ t1.neighborVals[p] \subseteq t2.neighborVals[p]
        BY <1>2, <3>2, <3>3, TransferMonotone
      <4>2. /\ element'[b] = t1.element /\ SolutionElement(fn, S)[b] = t2.element
            /\ neighborVals'[b] = t1.neighborVals
            /\ SolutionVals(fn, S)[b] = t2.neighborVals
        BY <3>1, <3>4, <3>5
      <4> HIDE DEF t1, t2
      <4> QED BY <4>1, <4>2
    <3> QED BY <1>1, <2>1, <3>6 DEF Near
  <2>3. CASE b # blk
    <3>1. i < pos \/ order[i] \notin BoundaryBlocks(fn)
      BY <1>1, <1>2, <1>4, <1>6, <2>1, <2>3
    <3>2. Near(S, b)
      BY <2>1, <3>1 DEF NearSide
    <3>3. element'[b] = element[b] /\ neighborVals'[b] = neighborVals[b]
      BY <1>1, <1>3, <2>3 DEF ProcessBlock, TypeOK
    <3> QED BY <1>1, <2>1, <3>2, <3>3 DEF Near
  <2> QED BY <2>2, <2>3
<1> QED BY <1>1, <1>5, <1>6 DEF NearSide

\* Every step of run does.
LEMMA NearSideStep == LoopInvariant /\ NearSide /\ [Next]_vars => NearSide'
<1> SUFFICES ASSUME LoopInvariant, NearSide, [Next]_vars PROVE NearSide'
  OBVIOUS
<1>1. CASE ProcessBlock
  BY <1>1, NearSideProcess
<1>2. CASE EndSweep \/ UNCHANGED vars
  <2>1. /\ fn' = fn /\ in' = in /\ out' = out /\ element' = element
        /\ neighborVals' = neighborVals /\ pos' \in {1, pos}
    BY <1>2 DEF EndSweep, vars
  <2>2. InputSide' = InputSide
    BY <2>1 DEF InputSide
  <2>3. fn \in Functions /\ Len(fn.po) \in Nat /\ pos \in 1..(Len(fn.po) + 1)
    BY OrderIsEnumeration DEF LoopInvariant, TypeOK
  <2>4. ASSUME NEW i \in 1..Len(fn.po), i < pos' PROVE i < pos
    BY <2>1, <2>3, <2>4
  <2>5. ASSUME NEW S, NEW b PROVE Near(S, b)' <=> Near(S, b)
    BY <2>1 DEF Near
  <2> QED BY <2>1, <2>2, <2>4, <2>5 DEF NearSide
<1> QED BY <1>1, <1>2 DEF Next, Returned

(* At every step the solver is on the near side of every solution of the    *)
(* equations.  With FixpointAtReturn: what run returns is itself a          *)
(* solution, and the least one (UNION) or the greatest one (INTERSECTION),  *)
(* whatever the post order LLVM happens to produce.                         *)
THEOREM NoOvershoot == Spec => []NeverOvershoots
<1>1. Init => LoopInvariant /\ NearSide
  BY LoopInvariantInit, NearSideInit
<1>2. LoopInvariant /\ NearSide /\ [Next]_vars => (LoopInvariant /\ NearSide)'
  BY LoopInvariantStep, NearSideStep
<1>3. NearSide => NeverOvershoots
  BY DEF NearSide, Near, NeverOvershoots
<1> QED BY <1>1, <1>2, <1>3, PTL DEF Spec
=============================================================================
