----------------------------- MODULE GatherCache ----------------------------
(***************************************************************************)
(* The caches of gem5 as the project changed them (mem/cache/cache_impl.hh)*)
(* above one memory (mem/abstract_mem.cc), connected by a coherent         *)
(* crossbar (mem/coherent_xbar.cc): one level of caches, atomic mode.  A   *)
(* block is tagged by its line and the pattern of the gather it answers    *)
(* (getCacheAddr puts the pattern above all address bits), so a gathered   *)
(* line and the lines its words come from are different blocks.  The       *)
(* coherence protocol keeps blocks with equal tags coherent; the words of  *)
(* a gathered block it knows nothing of.                                   *)
(*                                                                         *)
(* Left out: requests x86 processors do not make of ordinary memory        *)
(* (swaps, load-locked and store-conditional, uncacheable accesses).       *)
(***************************************************************************)
EXTENDS Gather

CONSTANTS Caches, Values,
          Patterns,      \* patterns that gathered loads use
          Room(_)        \* whether a cache that holds this set of blocks has
                         \* place for one more (tags->findVictim)

ASSUME PatternAssumption == Patterns \subseteq Ids

Plain == {}

Block == [line : Line, pattern : Ids]

BlockOf(w, p) == [line |-> LineOf(w), pattern |-> p]

VARIABLES
    mem,                 \* AbstractMemory: the words
    data,                \* blk->data of the valid blocks, pairs <<cache, block>>
    writable, dirty,     \* blk->status of the valid blocks: sets of such pairs
    last                 \* the answer to the latest request, if it was a load

vars == <<mem, data, writable, dirty, last>>

valid == DOMAIN data

Memory == INSTANCE SharedMemory

-----------------------------------------------------------------------------
\* The words of a block as memory holds them: doMemGather for a gathered one,
\* a copy of the line for another (the pattern is 0).
FromMemory(b) == [f \in Ids |-> mem[GatherAddr(WordOf(b.line, f), b.pattern)]]

Others(c) == Caches \ {c}

Holders(b) == {d \in Caches : <<d, b>> \in valid}

Owners(c, b) == {d \in Others(c) : <<d, b>> \in dirty}

-----------------------------------------------------------------------------
\* The data a ReadReq or ReadExReq of cache c comes back with: an owner answers in
\* place of memory.
Answers(c, b) ==
    LET owners == Owners(c, b)
    IN IF owners = {} THEN {FromMemory(b)} ELSE {data[<<d, b>>] : d \in owners}

\* What a functional read, sent by cache c towards memory, finds: the crossbar
\* asks the other caches first, and only one that owns the block declares it
\* done.  Block addresses carry the pattern and the packet's address does not,
\* so a gathered read never matches a block.
FunctionalRead(c, w, p) ==
    LET b == BlockOf(w, p)
        owners == Owners(c, b)
    IN IF p = Plain /\ owners # {}
       THEN {data[<<d, b>>][w.field] : d \in owners}
       ELSE {mem[GatherAddr(w, p)]}

\* Faulty form, for checking that the properties notice: a load is answered
\* from the block, as it was before the project's change.
SatisfyLoadFromBlock(c, w, p, fill) ==
    \E v \in {fill[w.field]} : last' = Memory!LoadAnswer(w, p, v)

\* satisfyCpuSideRequest for a load: the answer is what a functional read finds,
\* whatever the block holds.
SatisfyLoad(c, w, p, fill) ==
    \E v \in FunctionalRead(c, w, p) : last' = Memory!LoadAnswer(w, p, v)

-----------------------------------------------------------------------------
Held(c) == {x[2] : x \in {y \in valid : y[1] = c}}

\* The blocks that may have to make way in cache c: allocateBlock.
Victims(c) == IF Room(Held(c)) THEN {{}} ELSE {{b} : b \in Held(c)}

\* Memory after the dirty ones of some blocks of cache c have been written back.
WrittenBack(c, blocks) ==
    [w \in Word |->
        LET b == BlockOf(w, Plain)
        IN IF b \in blocks /\ <<c, b>> \in dirty THEN data[<<c, b>>][w.field] ELSE mem[w]]

\* The blocks in keep as they are, and block x with new content.
Filled(keep, x, fill) == [y \in keep \cup {x} |-> IF y = x THEN fill ELSE data[y]]

LoadHit(c, w, p) ==
    LET b == BlockOf(w, p)
    IN /\ <<c, b>> \in valid
       /\ SatisfyLoad(c, w, p, data[<<c, b>>])
       /\ UNCHANGED <<mem, data, writable, dirty>>

\* recvAtomic of a load that misses: ReadReq goes out, every other holder gives
\* up the right to write, an owner answers in place of memory; handleFill.
LoadMiss(c, w, p) ==
    LET b == BlockOf(w, p)
    IN /\ <<c, b>> \notin valid
       /\ \E blocks \in Victims(c), fill \in Answers(c, b) :
            /\ SatisfyLoad(c, w, p, fill)
            /\ writable' = (writable \ (({c} \X blocks) \cup (Caches \X {b})))
                              \cup (IF Holders(b) = {} THEN {<<c, b>>} ELSE {})
            /\ dirty' = dirty \ ({c} \X blocks)
            /\ data' = Filled(valid \ ({c} \X blocks), <<c, b>>, fill)
            /\ mem' = WrittenBack(c, blocks)

Load(c, w, p) == LoadHit(c, w, p) \/ LoadMiss(c, w, p)

-----------------------------------------------------------------------------
\* Faulty form, for checking that the properties notice: the store stays in the
\* block, as it did before the project's change.
WriteThroughNot(memory, w, v) == memory

\* The functional write that follows every store reaches memory.
WriteThrough(memory, w, v) == [memory EXCEPT ![w] = v]

\* Faulty form, for checking that the properties notice: an upgrade leaves the
\* other copies valid.
InvalidatedNot(c, b) == {}

\* The copies an UpgradeReq or ReadExReq takes away.
Invalidated(c, b) == Others(c) \X {b}

\* The blocks in keep, after a store to block <<c, b>> whose content was fill,
\* and after the functional write passed any copy of it in another cache.
Stored(keep, c, b, fill, f, v) ==
    [y \in keep \cup {<<c, b>>} |->
        CASE y = <<c, b>> -> [fill EXCEPT ![f] = v]
          [] y # <<c, b>> /\ y[2] = b -> [data[y] EXCEPT ![f] = v]
          [] OTHER -> data[y]]

StoreHit(c, w, v) ==
    LET b == BlockOf(w, Plain)
    IN /\ <<c, b>> \in writable
       /\ data' = Stored(valid, c, b, data[<<c, b>>], w.field, v)
       /\ mem' = WriteThrough(mem, w, v)
       /\ dirty' = dirty \cup {<<c, b>>}
       /\ last' = Memory!NoAnswer
       /\ UNCHANGED writable

\* A store to a block that is valid but shared: UpgradeReq.  No data moves, an
\* owner hands over ownership.
StoreUpgrade(c, w, v) ==
    LET b == BlockOf(w, Plain)
    IN /\ <<c, b>> \in valid \ writable
       /\ data' = Stored(valid \ Invalidated(c, b), c, b, data[<<c, b>>], w.field, v)
       /\ mem' = WriteThrough(mem, w, v)
       /\ writable' = (writable \ Invalidated(c, b)) \cup {<<c, b>>}
       /\ dirty' = (dirty \ Invalidated(c, b)) \cup {<<c, b>>}
       /\ last' = Memory!NoAnswer

\* A store to a block that is not valid: ReadExReq, answered by the owner or by
\* memory.
StoreMiss(c, w, v) ==
    LET b == BlockOf(w, Plain)
    IN /\ <<c, b>> \notin valid
       /\ \E blocks \in Victims(c), fill \in Answers(c, b) :
            LET gone == ({c} \X blocks) \cup Invalidated(c, b)
            IN /\ data' = Stored(valid \ gone, c, b, fill, w.field, v)
               /\ mem' = WriteThrough(WrittenBack(c, blocks), w, v)
               /\ writable' = (writable \ gone) \cup {<<c, b>>}
               /\ dirty' = (dirty \ gone) \cup {<<c, b>>}
               /\ last' = Memory!NoAnswer

Store(c, w, v) == StoreHit(c, w, v) \/ StoreUpgrade(c, w, v) \/ StoreMiss(c, w, v)

-----------------------------------------------------------------------------
\* memWriteback of a cache, when the simulator is drained: every dirty block is
\* sent out as a functional write, which other copies of it take in passing.
MemWriteback(c) ==
    /\ \E b \in Block : <<c, b>> \in dirty
    /\ mem' = WrittenBack(c, Held(c))
    /\ dirty' = dirty \ ({c} \X Block)
    /\ data' = [x \in valid |-> IF <<c, x[2]>> \in dirty THEN data[<<c, x[2]>>] ELSE data[x]]
    /\ UNCHANGED <<writable, last>>

\* memInvalidate, which the simulator calls after memWriteback: it asserts that
\* no block is dirty.
MemInvalidate(c) ==
    /\ Held(c) # {}
    /\ \A b \in Block : <<c, b>> \notin dirty
    /\ data' = [x \in valid \ ({c} \X Block) |-> data[x]]
    /\ writable' = writable \ ({c} \X Block)
    /\ UNCHANGED <<mem, dirty, last>>

Init ==
    /\ mem \in [Word -> Values]
    /\ data = [x \in {} |-> FromMemory(x)]
    /\ writable = {}
    /\ dirty = {}
    /\ last = Memory!NoAnswer

Next ==
    \E c \in Caches :
        \/ \E w \in Word, p \in Patterns : LoadHit(c, w, p)
        \/ \E w \in Word, p \in Patterns : LoadMiss(c, w, p)
        \/ \E w \in Word, v \in Values : StoreHit(c, w, v)
        \/ \E w \in Word, v \in Values : StoreUpgrade(c, w, v)
        \/ \E w \in Word, v \in Values : StoreMiss(c, w, v)
        \/ MemWriteback(c)
        \/ MemInvalidate(c)

Spec == Init /\ [][Next]_vars
-----------------------------------------------------------------------------
(* Properties. *)

\* Every variable has its type.
TypeOK ==
    /\ mem \in [Word -> Values]
    /\ valid \subseteq Caches \X Block
    /\ data \in [valid -> [Ids -> Values]]
    /\ writable \subseteq valid
    /\ dirty \subseteq valid

(* The protocol's own promise, for every tag: a cache that may write a      *)
(* block is the only one that holds it, and a block has at most one owner.  *)
SingleWriter ==
    \A b \in Block :
        /\ \A c, d \in Holders(b) : <<c, b>> \in writable => c = d
        /\ \A c, d \in Caches : {<<c, b>>, <<d, b>>} \subseteq dirty => c = d

(* Write-through keeps memory and every plain copy of a line equal, also    *)
(* copies of owners that have yet to be written back, and no gathered block *)
(* is ever dirty: its write-back would go to a line that it is not.         *)
CopiesAreMemory ==
    /\ \A x \in valid : x[2].pattern = Plain => data[x] = FromMemory(x[2])
    /\ \A x \in dirty : x[2].pattern = Plain

(* The caches together are one memory: every load, gathered or not, returns *)
(* the words the latest stores of all processors left there, and only a     *)
(* store changes memory.                                                    *)
OneMemory == Memory!Spec
=============================================================================
