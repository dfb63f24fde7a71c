-------------------------- MODULE MCGatherHierarchy -------------------------
(***************************************************************************)
(* An L1 cache of one block and an L2 cache of two.                        *)
(***************************************************************************)
EXTENDS GatherHierarchy, Integers, FiniteSets

OneBlock(held) == Cardinality(held) < 1

TwoBlocks(held) == Cardinality(held) < 2

AllPatterns == Ids
=============================================================================
