--------------------------- MODULE GatherHierarchy --------------------------
(***************************************************************************)
(* The configuration gem5.sh runs: a processor, its L1 cache, an L2 cache  *)
(* and memory, in atomic mode.  The L2 cache answers the L1 cache's        *)
(* requests, which are for whole blocks, with the same                     *)
(* satisfyCpuSideRequest that answers a processor.                         *)
(*                                                                         *)
(* With one L1 cache nothing is ever shared, so every valid block is       *)
(* writable and UpgradeReq does not occur.                                 *)
(***************************************************************************)
EXTENDS Gather, TLC

CONSTANTS Values, Patterns,
          Room1(_), Room2(_)  \* whether a cache with these blocks has place

Plain == {}

Block == [line : Line, pattern : Ids]

BlockOf(w, p) == [line |-> LineOf(w), pattern |-> p]

Content == [Ids -> Values]

VARIABLES
    mem,                 \* AbstractMemory
    data1, data2,        \* blk->data of the valid blocks of L1 and of L2
    dirty1, dirty2,      \* the dirty ones
    last                 \* the latest request of the processor, with its answer

vars == <<mem, data1, data2, dirty1, dirty2, last>>

-----------------------------------------------------------------------------
\* A functional read below L2 is answered by memory; below L1, by L2 if its block
\* is dirty.
ReadBelow2(m, w, p) == m[GatherAddr(w, p)]

ReadBelow1(m, d2, own2, w, p) ==
    IF p = Plain /\ BlockOf(w, p) \in own2
    THEN d2[BlockOf(w, p)][w.field] ELSE ReadBelow2(m, w, p)

\* satisfyCpuSideRequest in L2, for a packet of the size of a block whose request
\* is for word w: the temporary packet has the request's size, so the first word
\* of the block becomes word w, and what follows the buffer becomes the rest.
Supplied(m, w, p) == {content \in Content : content[{}] = ReadBelow2(m, w, p)}

VictimsOf(room, data, b) ==
    IF b \in DOMAIN data \/ room THEN {{}} ELSE {{k} : k \in DOMAIN data}

\* Memory after the dirty ones of these blocks of L2 have been written back.
WrittenBack(m, d2, own2, blocks) ==
    [w \in Word |->
        IF BlockOf(w, Plain) \in blocks \cap own2 THEN d2[BlockOf(w, Plain)][w.field] ELSE m[w]]

Restricted(d, keep) == [k \in keep |-> d[k]]

\* access() in L2 for the write-back of a dirty victim of L1, if there is one; L2
\* may have to write back a victim of its own for it.
AcceptWriteback(m, d2, own2, blocks1, d1, own1) ==
    LET wb == blocks1 \cap own1
    IN IF wb = {} THEN {[m |-> m, d2 |-> d2, own2 |-> own2]}
       ELSE LET b == CHOOSE k \in wb : TRUE
            IN {[m |-> WrittenBack(m, d2, own2, v),
                 d2 |-> (b :> d1[b]) @@ Restricted(d2, DOMAIN d2 \ v),
                 own2 |-> (own2 \ v) \cup {b}] :
                v \in VictimsOf(Room2(DOMAIN d2), d2, b)}

-----------------------------------------------------------------------------
LoadHit(w, p) ==
    /\ BlockOf(w, p) \in DOMAIN data1
    /\ last' = [op |-> "load", word |-> w, pattern |-> p,
                val |-> ReadBelow1(mem, data2, dirty2, w, p)]
    /\ UNCHANGED <<mem, data1, data2, dirty1, dirty2>>

\* ReadReq to L2, which fills its own block from memory if it has to, passes on
\* ownership with the block, and then L1 answers and writes back its victim.
LoadMiss(w, p) ==
    LET b == BlockOf(w, p)
    IN /\ b \notin DOMAIN data1
       /\ \E v1 \in VictimsOf(Room1(DOMAIN data1), data1, b),
             v2 \in VictimsOf(Room2(DOMAIN data2), data2, b),
             fill \in Supplied(mem, w, p) :
            LET m == WrittenBack(mem, data2, dirty2, v2)
                d2 == (IF b \in DOMAIN data2 THEN b :> data2[b]
                       ELSE b :> [f \in Ids |-> mem[GatherAddr(WordOf(b.line, f), p)]])
                         @@ Restricted(data2, DOMAIN data2 \ v2)
                own2 == dirty2 \ (v2 \cup {b})
            IN \E low \in AcceptWriteback(m, d2, own2, v1, data1, dirty1) :
                 /\ last' = [op |-> "load", word |-> w, pattern |-> p,
                             val |-> ReadBelow1(m, d2, own2, w, p)]
                 /\ data1' = (b :> fill) @@ Restricted(data1, DOMAIN data1 \ v1)
                 /\ dirty1' = (dirty1 \ v1) \cup (dirty2 \cap {b})
                 /\ mem' = low.m
                 /\ data2' = low.d2
                 /\ dirty2' = low.own2

StoreHit(w, x) ==
    LET b == BlockOf(w, Plain)
    IN /\ b \in DOMAIN data1
       /\ data1' = [data1 EXCEPT ![b][w.field] = x]
       /\ data2' = [k \in DOMAIN data2 |->
                       IF k = b THEN [data2[k] EXCEPT ![w.field] = x] ELSE data2[k]]
       /\ mem' = [mem EXCEPT ![w] = x]
       /\ dirty1' = dirty1 \cup {b}
       /\ last' = [op |-> "store", word |-> w, val |-> x]
       /\ UNCHANGED dirty2

\* ReadExReq to L2, which gives up its copy.
StoreMiss(w, x) ==
    LET b == BlockOf(w, Plain)
    IN /\ b \notin DOMAIN data1
       /\ \E v1 \in VictimsOf(Room1(DOMAIN data1), data1, b),
             v2 \in VictimsOf(Room2(DOMAIN data2), data2, b),
             fill \in Supplied(mem, w, Plain) :
            LET m == [WrittenBack(mem, data2, dirty2, v2) EXCEPT ![w] = x]
                d2 == Restricted(data2, DOMAIN data2 \ (v2 \cup {b}))
            IN \E low \in AcceptWriteback(m, d2, dirty2 \ (v2 \cup {b}), v1, data1, dirty1) :
                 /\ data1' = (b :> [fill EXCEPT ![w.field] = x])
                                @@ Restricted(data1, DOMAIN data1 \ v1)
                 /\ dirty1' = (dirty1 \ v1) \cup {b}
                 /\ mem' = low.m
                 /\ data2' = low.d2
                 /\ dirty2' = low.own2
                 /\ last' = [op |-> "store", word |-> w, val |-> x]

Init ==
    /\ mem \in [Word -> Values]
    /\ data1 = <<>> /\ data2 = <<>>
    /\ dirty1 = {} /\ dirty2 = {}
    /\ last = [op |-> "none"]

Next ==
    \/ \E w \in Word, p \in Patterns : LoadHit(w, p) \/ LoadMiss(w, p)
    \/ \E w \in Word, x \in Values : StoreHit(w, x) \/ StoreMiss(w, x)

Spec == Init /\ [][Next]_vars
-----------------------------------------------------------------------------
(* What the comment of satisfyCpuSideRequest says, "functional              *)
(* write-through": memory has every store at once, so a write-back brings   *)
(* nothing new, and only a store of the processor changes a word.           *)
OnlyStoresChangeMemory ==
    [][\A u \in Word : mem'[u] # mem[u] => last'.op = "store" /\ last'.word = u]_vars
=============================================================================
