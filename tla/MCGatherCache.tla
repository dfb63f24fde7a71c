---------------------------- MODULE MCGatherCache ---------------------------
(***************************************************************************)
(* Two caches of one block above one tile of two lines of two words.       *)
(***************************************************************************)
EXTENDS GatherCache, Integers, FiniteSets, Bitwise, TLC

CONSTANT Capacity

FewBlocks(held) == Cardinality(held) < Capacity

AllPatterns == Ids

Symmetry == Permutations(Caches) \cup Permutations(Values)

\* The macros of abstract_mem.cc on numbers, for 3-bit ids.
TupleNr(x) == (x \div 64) % 8

FieldNr(x) == (x \div 8) % 8

ShuffleNr(x) == x ^^ (TupleNr(x) * 8)

PatternNr(x, p) == x ^^ ((FieldNr(x) & p) * 64)

NrOf(ids) == (IF 0 \in ids THEN 1 ELSE 0) + (IF 1 \in ids THEN 2 ELSE 0) + (IF 2 \in ids THEN 4 ELSE 0)

G3 == INSTANCE Gather WITH Bits <- 0..2, Tiles <- {0}

AddrOf(w) == NrOf(w.tuple) * 64 + NrOf(w.field) * 8

\* The bit sets of Gather are what the macros compute, for all words of a tile
\* and all patterns.
ASSUME MacrosAsSets ==
    \A w \in G3!Word, p \in G3!Ids :
        AddrOf(G3!GatherAddr(w, p)) = ShuffleNr(PatternNr(ShuffleNr(AddrOf(w)), NrOf(p)))
=============================================================================
