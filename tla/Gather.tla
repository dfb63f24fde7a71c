------------------------------- MODULE Gather -------------------------------
(***************************************************************************)
(* Which word a gathered read returns: the macros SHUFFLE, PATTERN and     *)
(* UNSHUFFLE of gem5's mem/abstract_mem.cc, as the project changed it.     *)
(*                                                                         *)
(* Memory is made of tiles; a tile is a square of 8-byte words, each with  *)
(* a tuple id (its line) and a field id (its place in the line).  Ids and  *)
(* patterns are bit vectors, that is, sets of bit positions, so that ^ is  *)
(* the symmetric difference and & the intersection.                        *)
(***************************************************************************)

CONSTANTS Bits,          \* bit positions of FIELD_ID, TUPLE_ID and the pattern
          Tiles          \* the address bits above them

Ids == SUBSET Bits

Line == [tile : Tiles, tuple : Ids]

Word == [tile : Tiles, tuple : Ids, field : Ids]

LineOf(w) == [tile |-> w.tile, tuple |-> w.tuple]

WordOf(l, f) == [tile |-> l.tile, tuple |-> l.tuple, field |-> f]

XorIds(x, y) == (x \ y) \cup (y \ x)

Shuffle(w) == [w EXCEPT !.field = XorIds(w.field, w.tuple)]

Pattern(w, p) == [w EXCEPT !.tuple = XorIds(w.tuple, w.field \cap p)]

Unshuffle(w) == Shuffle(w)

\* Where doMemGather reads the word for address w of a request with pattern p.
GatherAddr(w, p) == Unshuffle(Pattern(Shuffle(w), p))

\* The reference: the bits of the pattern are exchanged between the two ids.
SwapBits(w, p) ==
    [tile |-> w.tile,
     tuple |-> (w.tuple \ p) \cup (w.field \cap p),
     field |-> (w.field \ p) \cup (w.tuple \cap p)]
=============================================================================
