---------------------------- MODULE GatherProofs ----------------------------
(***************************************************************************)
(* Proofs that the caches of GatherCache are one memory, for any number of *)
(* caches, tiles, bits and values and any replacement policy.              *)
(***************************************************************************)
EXTENDS GatherCache, TLAPS

-----------------------------------------------------------------------------
(* The word a gathered read returns. *)

(* doMemGather exchanges, between tuple and field id, the bits the pattern  *)
(* selects.                                                                 *)
THEOREM GatherSwaps ==
    ASSUME NEW w \in Word, NEW p \in Ids
    PROVE  GatherAddr(w, p) = SwapBits(w, p)
<1> DEFINE s == Shuffle(w)
           t == Pattern(s, p)
           u == Unshuffle(t)
<1>1. s = [tile |-> w.tile, tuple |-> w.tuple, field |-> XorIds(w.field, w.tuple)]
  BY DEF Word, Shuffle
<1>2. t = [tile |-> w.tile, tuple |-> XorIds(w.tuple, s.field \cap p), field |-> s.field]
  BY <1>1 DEF Pattern
<1>3. u = [tile |-> w.tile, tuple |-> t.tuple, field |-> XorIds(t.field, t.tuple)]
  BY <1>2 DEF Unshuffle, Shuffle
<1>4. t.tuple = (w.tuple \ p) \cup (w.field \cap p)
  BY <1>1, <1>2 DEF XorIds, Word, Ids
<1>5. XorIds(t.field, t.tuple) = (w.field \ p) \cup (w.tuple \cap p)
  BY <1>1, <1>2, <1>4 DEF XorIds, Word, Ids
<1> QED BY <1>3, <1>4, <1>5 DEF GatherAddr, SwapBits

\* So it stays in the tile, is its own inverse, and is the identity for pattern 0.
LEMMA GatherFacts ==
    ASSUME NEW w \in Word, NEW p \in Ids
    PROVE  /\ GatherAddr(w, p) \in Word
           /\ GatherAddr(GatherAddr(w, p), p) = w
           /\ GatherAddr(w, Plain) = w
<1>1. SwapBits(w, p) \in Word
  BY DEF SwapBits, Word, Ids
<1>2. SwapBits(SwapBits(w, p), p) = w
  BY DEF SwapBits, Word, Ids
<1>3. Plain \in Ids /\ SwapBits(w, Plain) = w
  BY DEF SwapBits, Word, Ids, Plain
<1> QED BY <1>1, <1>2, <1>3, GatherSwaps

-----------------------------------------------------------------------------
(* The invariant. *)

\* Copies agree with memory because of the write-through, which is safe because
\* no other copy is left to update; neither half is inductive without the other.
Inv == TypeOK /\ SingleWriter /\ CopiesAreMemory

LEMMA BlockFacts ==
    ASSUME NEW w \in Word, NEW p \in Ids
    PROVE  /\ BlockOf(w, p) \in Block
           /\ BlockOf(w, p).line = LineOf(w)
           /\ BlockOf(w, p).pattern = p
           /\ WordOf(LineOf(w), w.field) = w
           /\ w.field \in Ids
           /\ Plain \in Ids
BY DEF Word, Block, BlockOf, LineOf, Line, WordOf, Ids, Plain

LEMMA WordFacts ==
    ASSUME NEW l \in Line, NEW f \in Ids
    PROVE  /\ WordOf(l, f) \in Word
           /\ LineOf(WordOf(l, f)) = l
           /\ WordOf(l, f).field = f
BY DEF Word, LineOf, Line, WordOf

\* The words of a plain block are those of its line.
LEMMA PlainFromMemory ==
    ASSUME NEW b \in Block, b.pattern = Plain
    PROVE  FromMemory(b) = [f \in Ids |-> mem[WordOf(b.line, f)]]
<1>1. b.line \in Line
  BY DEF Block
<1>2. \A f \in Ids : GatherAddr(WordOf(b.line, f), b.pattern) = WordOf(b.line, f)
  BY <1>1, WordFacts, GatherFacts, Plain \in Ids DEF Plain, Ids
<1> QED BY <1>2 DEF FromMemory

LEMMA FromMemoryType ==
    ASSUME TypeOK, NEW b \in Block
    PROVE  FromMemory(b) \in [Ids -> Values]
<1>1. b.line \in Line /\ b.pattern \in Ids
  BY DEF Block
<1>2. \A f \in Ids : GatherAddr(WordOf(b.line, f), b.pattern) \in Word
  BY <1>1, WordFacts, GatherFacts
<1> QED BY <1>2 DEF FromMemory, TypeOK

\* A write-back of the code changes nothing: the block is what memory holds.
LEMMA WriteBackIsIdle ==
    ASSUME Inv, NEW c \in Caches, NEW blocks
    PROVE  WrittenBack(c, blocks) = mem
<1>1. ASSUME NEW w \in Word, <<c, BlockOf(w, Plain)>> \in dirty
      PROVE  data[<<c, BlockOf(w, Plain)>>][w.field] = mem[w]
  <2> DEFINE b == BlockOf(w, Plain)
  <2>1. b \in Block /\ b.line = LineOf(w) /\ b.pattern = Plain /\ w.field \in Ids
        /\ WordOf(LineOf(w), w.field) = w
    BY BlockFacts DEF Plain, Ids
  <2>2. data[<<c, b>>] = FromMemory(b)
    BY <1>1, <2>1 DEF Inv, TypeOK, CopiesAreMemory
  <2> QED BY <2>1, <2>2, PlainFromMemory
<1>2. mem = [w \in Word |-> mem[w]]
  BY DEF Inv, TypeOK
<1> QED BY <1>1, <1>2 DEF WrittenBack

\* An owner answers a miss with what memory would have answered.
LEMMA AnswerIsMemory ==
    ASSUME Inv, NEW c \in Caches, NEW b \in Block, NEW fill \in Answers(c, b)
    PROVE  fill = FromMemory(b)
<1>1. CASE Owners(c, b) = {}
  BY <1>1 DEF Answers
<1>2. CASE Owners(c, b) # {}
  <2>1. PICK d \in Owners(c, b) : fill = data[<<d, b>>]
    BY <1>2 DEF Answers
  <2>2. <<d, b>> \in dirty /\ <<d, b>> \in valid /\ b.pattern = Plain
    BY <2>1 DEF Owners, Inv, TypeOK, CopiesAreMemory
  <2> QED BY <2>1, <2>2 DEF Inv, CopiesAreMemory
<1> QED BY <1>1, <1>2

\* A functional read finds what memory holds, in an owner's block or there.
LEMMA FunctionalReadIsMemory ==
    ASSUME Inv, NEW c \in Caches, NEW w \in Word, NEW p \in Ids,
           NEW v \in FunctionalRead(c, w, p)
    PROVE  v = mem[GatherAddr(w, p)]
<1> DEFINE b == BlockOf(w, p)
<1>1. CASE p = Plain /\ Owners(c, b) # {}
  <2>1. PICK d \in Owners(c, b) : v = data[<<d, b>>][w.field]
    BY <1>1 DEF FunctionalRead
  <2>2. b \in Block /\ b.line = LineOf(w) /\ b.pattern = Plain /\ w.field \in Ids
        /\ WordOf(LineOf(w), w.field) = w
    BY <1>1, BlockFacts
  <2>3. data[<<d, b>>] = FromMemory(b)
    BY <2>1, <2>2 DEF Owners, Inv, TypeOK, CopiesAreMemory
  <2>4. GatherAddr(w, p) = w
    BY <1>1, GatherFacts
  <2> QED BY <2>1, <2>2, <2>3, <2>4, PlainFromMemory
<1>2. CASE ~(p = Plain /\ Owners(c, b) # {})
  BY <1>2 DEF FunctionalRead
<1> QED BY <1>1, <1>2

-----------------------------------------------------------------------------
(* Every step keeps the invariant. *)

LEMMA InitInv == Init => Inv
BY DEF Init, Inv, TypeOK, SingleWriter, CopiesAreMemory, Holders, valid

LEMMA NothingMoved ==
    ASSUME Inv, UNCHANGED <<mem, data, writable, dirty>>
    PROVE  Inv'
BY DEF Inv, TypeOK, SingleWriter, CopiesAreMemory, Holders, valid, FromMemory

\* A load that misses, once memory is known to stay as it is.
LEMMA LoadMissInv ==
    ASSUME Inv, NEW c \in Caches, NEW w \in Word, NEW p \in Patterns, LoadMiss(c, w, p)
    PROVE  Inv' /\ mem' = mem
<1> DEFINE b == BlockOf(w, p)
           x == <<c, b>>
<1>1. b \in Block
  BY BlockFacts, PatternAssumption
<1>2. PICK blocks \in Victims(c), fill \in Answers(c, b) :
         /\ writable' = (writable \ (({c} \X blocks) \cup (Caches \X {b})))
                           \cup (IF Holders(b) = {} THEN {x} ELSE {})
         /\ dirty' = dirty \ ({c} \X blocks)
         /\ data' = Filled(valid \ ({c} \X blocks), x, fill)
         /\ mem' = WrittenBack(c, blocks)
  BY DEF LoadMiss
<1>3. mem' = mem
  BY <1>2, WriteBackIsIdle
<1>4. fill = FromMemory(b) /\ fill \in [Ids -> Values]
  BY <1>1, AnswerIsMemory, FromMemoryType DEF Inv
<1>5. /\ valid' = (valid \ ({c} \X blocks)) \cup {x}
      /\ \A y \in valid' : data'[y] = IF y = x THEN fill ELSE data[y]
  BY <1>2 DEF Filled, valid
<1>6. \A y : FromMemory(y)' = FromMemory(y)
  BY <1>3 DEF FromMemory
<1>7. TypeOK'
  <2>1. valid' \subseteq Caches \X Block
    BY <1>1, <1>5 DEF Inv, TypeOK
  <2>2. data' \in [valid' -> [Ids -> Values]]
    BY <1>2, <1>4, <1>5 DEF Inv, TypeOK, Filled, valid
  <2>3. writable' \subseteq valid' /\ dirty' \subseteq valid'
    BY <1>2, <1>5 DEF Inv, TypeOK
  <2> QED BY <2>1, <2>2, <2>3, <1>3 DEF Inv, TypeOK
<1>8. SingleWriter'
  <2> SUFFICES ASSUME NEW k \in Block
               PROVE  /\ \A d, e \in Holders(k)' : <<d, k>> \in writable' => d = e
                      /\ \A d, e \in Caches : {<<d, k>>, <<e, k>>} \subseteq dirty' => d = e
    BY DEF SingleWriter
  <2>1. ASSUME NEW d \in Holders(k)', NEW e \in Holders(k)', <<d, k>> \in writable'
        PROVE  d = e
    <3>1. CASE k = b
      BY <3>1, <2>1, <1>2, <1>5 DEF Holders
    <3>2. CASE k # b
      <4>1. d \in Holders(k) /\ e \in Holders(k) /\ <<d, k>> \in writable
        BY <3>2, <2>1, <1>2, <1>5 DEF Holders
      <4> QED BY <4>1 DEF Inv, SingleWriter
    <3> QED BY <3>1, <3>2
  <2>2. \A d, e \in Caches : {<<d, k>>, <<e, k>>} \subseteq dirty' => d = e
    BY <1>2 DEF Inv, SingleWriter
  <2> QED BY <2>1, <2>2
<1>9. CopiesAreMemory'
  <2>1. ASSUME NEW y \in valid', y[2].pattern = Plain
        PROVE  data'[y] = FromMemory(y[2])'
    <3>1. CASE y = x
      BY <3>1, <1>4, <1>5, <1>6
    <3>2. CASE y # x
      BY <3>2, <2>1, <1>5, <1>6 DEF Inv, CopiesAreMemory
    <3> QED BY <3>1, <3>2
  <2>2. \A y \in dirty' : y[2].pattern = Plain
    BY <1>2 DEF Inv, CopiesAreMemory
  <2> QED BY <2>1, <2>2 DEF CopiesAreMemory
<1> QED BY <1>3, <1>7, <1>8, <1>9 DEF Inv

\* The three kinds of store have this in common: cache c ends up with the only
\* copy of the block, what else stays is in keep.
LEMMA StoreInv ==
    ASSUME Inv, NEW c \in Caches, NEW w \in Word, NEW v \in Values,
           NEW keep \in SUBSET valid,
           \A y \in keep : y[2] = BlockOf(w, Plain) => y[1] = c,
           data' = Stored(keep, c, BlockOf(w, Plain), FromMemory(BlockOf(w, Plain)), w.field, v),
           mem' = [mem EXCEPT ![w] = v],
           writable' = (writable \cap keep) \cup {<<c, BlockOf(w, Plain)>>},
           dirty' = (dirty \cap keep) \cup {<<c, BlockOf(w, Plain)>>}
    PROVE  Inv'
<1> DEFINE b == BlockOf(w, Plain)
           x == <<c, b>>
           fill == FromMemory(b)
<1>1. /\ b \in Block /\ b.line = LineOf(w) /\ b.pattern = Plain
      /\ w.field \in Ids /\ WordOf(LineOf(w), w.field) = w
  BY BlockFacts DEF Plain, Ids
<1>2. \A y \in keep : y \in Caches \X Block /\ (y # x => y[2] # b)
  BY DEF Inv, TypeOK
<1>3. /\ valid' = keep \cup {x}
      /\ data'[x] = [fill EXCEPT ![w.field] = v]
      /\ \A y \in keep : y # x => data'[y] = data[y]
  BY <1>2 DEF Stored, valid
<1>4. fill \in [Ids -> Values] /\ fill = [f \in Ids |-> mem[WordOf(b.line, f)]]
  BY <1>1, FromMemoryType, PlainFromMemory DEF Inv
<1>5. ASSUME NEW k \in Block, k.pattern = Plain
      PROVE  /\ FromMemory(k)' = [f \in Ids |-> mem'[WordOf(k.line, f)]]
             /\ k # b => FromMemory(k)' = FromMemory(k)
  <2>1. k.line \in Line
    BY DEF Block
  <2>2. \A f \in Ids : GatherAddr(WordOf(k.line, f), k.pattern) = WordOf(k.line, f)
                       /\ WordOf(k.line, f) \in Word
    BY <2>1, <1>5, WordFacts, GatherFacts DEF Plain, Ids
  <2>3. ASSUME k # b, NEW f \in Ids
        PROVE  WordOf(k.line, f) # w
    <3>1. k.line # b.line
      BY <2>3, <1>1, <1>5 DEF Block
    <3> QED BY <3>1, <2>1, <1>1, WordFacts
  <2>4. \A f \in Ids : k # b => mem'[WordOf(k.line, f)] = mem[WordOf(k.line, f)]
    BY <2>2, <2>3 DEF Inv, TypeOK
  <2> QED BY <2>2, <2>4 DEF FromMemory
<1>6. FromMemory(b)' = [fill EXCEPT ![w.field] = v]
  <2>1. \A f \in Ids : WordOf(b.line, f) \in Word /\ (WordOf(b.line, f) = w => f = w.field)
    BY <1>1, WordFacts DEF Block
  <2>2. \A f \in Ids : mem'[WordOf(b.line, f)] = IF f = w.field THEN v ELSE fill[f]
    BY <2>1, <1>1, <1>4 DEF Inv, TypeOK
  <2> QED BY <2>2, <1>1, <1>4, <1>5
<1>7. TypeOK'
  <2>1. mem' \in [Word -> Values]
    BY DEF Inv, TypeOK
  <2>2. valid' \subseteq Caches \X Block
    BY <1>1, <1>2, <1>3
  <2>3. \A y \in valid' : data'[y] \in [Ids -> Values]
    <3>1. data'[x] \in [Ids -> Values]
      BY <1>1, <1>3, <1>4
    <3>2. \A y \in keep : data[y] \in [Ids -> Values]
      BY DEF Inv, TypeOK
    <3> HIDE DEF x, b, fill
    <3> QED BY <1>3, <3>1, <3>2
  <2>4. data' = [y \in valid' |-> data'[y]]
    BY DEF Stored, valid
  <2>5. data' \in [valid' -> [Ids -> Values]]
    BY <2>3, <2>4
  <2> QED BY <2>1, <2>2, <2>5, <1>3 DEF TypeOK
<1>8. SingleWriter'
  <2> SUFFICES ASSUME NEW k \in Block
               PROVE  /\ \A d, e \in Holders(k)' : <<d, k>> \in writable' => d = e
                      /\ \A d, e \in Caches : {<<d, k>>, <<e, k>>} \subseteq dirty' => d = e
    BY DEF SingleWriter
  <2>1. CASE k = b
    <3>1. \A d \in Caches : <<d, k>> \in valid' => d = c
      BY <2>1, <1>3
    <3>2. dirty' \subseteq valid'
      BY <1>3
    <3> QED BY <3>1, <3>2 DEF Holders
  <2>2. CASE k # b
    <3>1. \A d \in Caches : /\ <<d, k>> \in valid' => <<d, k>> \in valid
                            /\ <<d, k>> \in writable' => <<d, k>> \in writable
                            /\ <<d, k>> \in dirty' => <<d, k>> \in dirty
      BY <2>2, <1>3
    <3> QED BY <3>1 DEF Holders, Inv, SingleWriter
  <2> QED BY <2>1, <2>2
<1>9. CopiesAreMemory'
  <2>1. ASSUME NEW y \in valid', y[2].pattern = Plain
        PROVE  data'[y] = FromMemory(y[2])'
    <3>1. CASE y = x
      BY <3>1, <1>3, <1>6
    <3>2. CASE y # x
      <4>1. y \in keep /\ y[2] \in Block /\ y[2] # b
        BY <3>2, <1>2, <1>3
      <4> QED BY <4>1, <3>2, <2>1, <1>3, <1>5 DEF Inv, CopiesAreMemory
    <3> QED BY <3>1, <3>2
  <2>2. \A y \in dirty' : y[2].pattern = Plain
    BY <1>1 DEF Inv, CopiesAreMemory
  <2> QED BY <2>1, <2>2 DEF CopiesAreMemory
<1> QED BY <1>7, <1>8, <1>9 DEF Inv

LEMMA StoresInv ==
    ASSUME Inv, NEW c \in Caches, NEW w \in Word, NEW v \in Values, Store(c, w, v)
    PROVE  Inv' /\ mem' = [mem EXCEPT ![w] = v]
<1> DEFINE b == BlockOf(w, Plain)
           x == <<c, b>>
<1>1. b \in Block /\ b.pattern = Plain
  BY BlockFacts DEF Plain, Ids
<1>2. \A y \in valid : y \in Caches \X Block
  BY DEF Inv, TypeOK
<1>3. x \in valid => data[x] = FromMemory(b)
  BY <1>1 DEF Inv, CopiesAreMemory
<1>4. CASE StoreHit(c, w, v)
  <2>1. \A y \in valid : y[2] = b => y[1] = c
    BY <1>1, <1>2, <1>4 DEF StoreHit, Inv, TypeOK, SingleWriter, Holders
  <2>2. writable = (writable \cap valid) \cup {x} /\ dirty = dirty \cap valid /\ x \in valid
    BY <1>4 DEF StoreHit, Inv, TypeOK
  <2>3. mem' = [mem EXCEPT ![w] = v]
    BY <1>4 DEF StoreHit, WriteThrough
  <2>4. data' = Stored(valid, c, b, FromMemory(b), w.field, v)
    BY <1>3, <1>4, <2>2 DEF StoreHit
  <2>5. writable' = (writable \cap valid) \cup {x} /\ dirty' = (dirty \cap valid) \cup {x}
    BY <1>4, <2>2 DEF StoreHit
  <2> QED BY <2>1, <2>3, <2>4, <2>5, StoreInv
<1>5. CASE StoreUpgrade(c, w, v)
  <2> DEFINE keep == valid \ Invalidated(c, b)
  <2>1. \A y \in keep : y[2] = b => y[1] = c
    BY <1>2 DEF Invalidated, Others
  <2>2. mem' = [mem EXCEPT ![w] = v]
    BY <1>5 DEF StoreUpgrade, WriteThrough
  <2>3. data' = Stored(keep, c, b, FromMemory(b), w.field, v)
    BY <1>3, <1>5 DEF StoreUpgrade
  <2>4. writable' = (writable \cap keep) \cup {x} /\ dirty' = (dirty \cap keep) \cup {x}
    BY <1>5 DEF StoreUpgrade, Inv, TypeOK
  <2> QED BY <2>1, <2>2, <2>3, <2>4, StoreInv
<1>6. CASE StoreMiss(c, w, v)
  <2>1. PICK blocks \in Victims(c), fill \in Answers(c, b) :
          LET gone == ({c} \X blocks) \cup Invalidated(c, b)
          IN /\ data' = Stored(valid \ gone, c, b, fill, w.field, v)
             /\ mem' = WriteThrough(WrittenBack(c, blocks), w, v)
             /\ writable' = (writable \ gone) \cup {x}
             /\ dirty' = (dirty \ gone) \cup {x}
    BY <1>6 DEF StoreMiss
  <2> DEFINE keep == valid \ (({c} \X blocks) \cup Invalidated(c, b))
  <2>2. \A y \in keep : y[2] = b => y[1] = c
    BY <1>2 DEF Invalidated, Others
  <2>3. mem' = [mem EXCEPT ![w] = v]
    BY <2>1, WriteBackIsIdle DEF WriteThrough
  <2>4. data' = Stored(keep, c, b, FromMemory(b), w.field, v)
    BY <2>1, <1>1, AnswerIsMemory
  <2>5. writable' = (writable \cap keep) \cup {x} /\ dirty' = (dirty \cap keep) \cup {x}
    BY <2>1 DEF Inv, TypeOK
  <2>6. keep \in SUBSET valid
    OBVIOUS
  <2> HIDE DEF keep
  <2> QED BY <2>2, <2>3, <2>4, <2>5, <2>6, StoreInv
<1> QED BY <1>4, <1>5, <1>6 DEF Store

LEMMA MemWritebackInv ==
    ASSUME Inv, NEW c \in Caches, MemWriteback(c)
    PROVE  Inv' /\ mem' = mem
<1>1. mem' = mem
  BY WriteBackIsIdle DEF MemWriteback
<1>2. /\ valid' = valid
      /\ \A x \in valid : data'[x] = IF <<c, x[2]>> \in dirty THEN data[<<c, x[2]>>] ELSE data[x]
      /\ data' = [x \in valid |-> data'[x]]
  BY DEF MemWriteback, valid
<1>3. \A b : FromMemory(b)' = FromMemory(b)
  BY <1>1 DEF FromMemory
<1>4. dirty' \subseteq dirty /\ writable' = writable
  BY DEF MemWriteback
<1>5. TypeOK'
  <2>1. \A x \in valid : data'[x] \in [Ids -> Values]
    BY <1>2 DEF Inv, TypeOK
  <2> QED BY <2>1, <1>1, <1>2, <1>4 DEF Inv, TypeOK
<1>6. SingleWriter'
  BY <1>2, <1>4 DEF Inv, SingleWriter, Holders
<1>7. CopiesAreMemory'
  <2>1. ASSUME NEW x \in valid, x[2].pattern = Plain
        PROVE  data'[x] = FromMemory(x[2])
    BY <2>1, <1>2 DEF Inv, TypeOK, CopiesAreMemory
  <2> QED BY <2>1, <1>2, <1>3, <1>4 DEF Inv, CopiesAreMemory
<1> QED BY <1>1, <1>5, <1>6, <1>7 DEF Inv

LEMMA MemInvalidateInv ==
    ASSUME Inv, NEW c \in Caches, MemInvalidate(c)
    PROVE  Inv'
<1>1. /\ valid' = valid \ ({c} \X Block)
      /\ \A x \in valid' : data'[x] = data[x]
      /\ data' = [x \in valid' |-> data'[x]]
      /\ writable' = writable \ ({c} \X Block)
      /\ mem' = mem /\ dirty' = dirty
  BY DEF MemInvalidate, valid
<1>2. dirty' \subseteq valid'
  BY <1>1 DEF MemInvalidate, Inv, TypeOK
<1>3. TypeOK'
  <2>1. \A x \in valid' : data'[x] \in [Ids -> Values]
    BY <1>1 DEF Inv, TypeOK
  <2> QED BY <2>1, <1>1, <1>2 DEF Inv, TypeOK
<1>4. SingleWriter'
  BY <1>1 DEF Inv, SingleWriter, Holders
<1>5. CopiesAreMemory'
  <2>1. \A b : FromMemory(b)' = FromMemory(b)
    BY <1>1 DEF FromMemory
  <2> QED BY <2>1, <1>1 DEF Inv, CopiesAreMemory
<1> QED BY <1>3, <1>4, <1>5 DEF Inv

LEMMA NextInv == Inv /\ [Next]_vars => Inv'
<1> SUFFICES ASSUME Inv, [Next]_vars PROVE Inv'
  OBVIOUS
<1>1. ASSUME NEW c \in Caches, NEW w \in Word, NEW p \in Patterns, LoadHit(c, w, p)
      PROVE  Inv'
  BY <1>1, NothingMoved DEF LoadHit
<1>2. ASSUME NEW c \in Caches, NEW w \in Word, NEW p \in Patterns, LoadMiss(c, w, p)
      PROVE  Inv'
  BY <1>2, LoadMissInv
<1>3. ASSUME NEW c \in Caches, NEW w \in Word, NEW v \in Values, Store(c, w, v)
      PROVE  Inv'
  BY <1>3, StoresInv
<1>4. ASSUME NEW c \in Caches, MemWriteback(c)
      PROVE  Inv'
  BY <1>4, MemWritebackInv
<1>5. ASSUME NEW c \in Caches, MemInvalidate(c)
      PROVE  Inv'
  BY <1>5, MemInvalidateInv
<1>6. CASE UNCHANGED vars
  BY <1>6, NothingMoved DEF vars
<1> QED BY <1>1, <1>2, <1>3, <1>4, <1>5, <1>6 DEF Next, Store

(* The inductive invariant of the caches and memory.                        *)
THEOREM InvHolds == Spec => []Inv
BY InitInv, NextInv, PTL DEF Spec

(* The protocol promise: whoever may write a block holds the only copy.     *)
THEOREM SingleWriterHolds == Spec => []SingleWriter
<1>1. Inv => SingleWriter
  BY DEF Inv
<1> QED BY <1>1, InvHolds, PTL

(* Write-through keeps every plain copy equal to memory.                    *)
THEOREM CopiesHold == Spec => []CopiesAreMemory
<1>1. Inv => CopiesAreMemory
  BY DEF Inv
<1> QED BY <1>1, InvHolds, PTL

-----------------------------------------------------------------------------
(* The refinement. *)

LEMMA SameAddresses ==
    /\ Memory!Word = Word
    /\ Memory!Ids = Ids
    /\ \A w, p : Memory!GatherAddr(w, p) = GatherAddr(w, p)
<1>1. Memory!Word = Word /\ Memory!Ids = Ids
  BY DEF Word, Ids, Memory!Word, Memory!Ids
<1>2. \A w : Memory!Shuffle(w) = Shuffle(w)
  BY DEF Shuffle, XorIds, Memory!Shuffle, Memory!XorIds
<1>3. \A w, p : Memory!Pattern(w, p) = Pattern(w, p)
  BY DEF Pattern, XorIds, Memory!Pattern, Memory!XorIds
<1> QED BY <1>1, <1>2, <1>3 DEF GatherAddr, Unshuffle, Memory!GatherAddr, Memory!Unshuffle

LEMMA LoadsAgree ==
    ASSUME Inv, NEW c \in Caches, NEW w \in Word, NEW p \in Patterns,
           LoadHit(c, w, p) \/ LoadMiss(c, w, p)
    PROVE  Memory!Load(w, p)
<1>1. p \in Ids
  BY PatternAssumption
<1>2. mem' = mem
  BY LoadMissInv DEF LoadHit
<1>3. \E v \in FunctionalRead(c, w, p) : last' = Memory!LoadAnswer(w, p, v)
  BY DEF LoadHit, LoadMiss, SatisfyLoad
<1> QED BY <1>1, <1>2, <1>3, FunctionalReadIsMemory, SameAddresses DEF Memory!Load

(* The caches are one memory: every load and gathered load, of any          *)
(* processor and whatever its cache holds, returns the latest stored words. *)
THEOREM CachesAreOneMemory == Spec => OneMemory
<1>1. Init => Memory!Init
  BY SameAddresses DEF Init, Memory!Init
<1>2. Inv /\ [Next]_vars => [Memory!Next]_(Memory!vars)
  <2> SUFFICES ASSUME Inv, [Next]_vars PROVE [Memory!Next]_(Memory!vars)
    OBVIOUS
  <2>1. ASSUME NEW c \in Caches, NEW w \in Word, NEW p \in Patterns,
               LoadHit(c, w, p) \/ LoadMiss(c, w, p)
        PROVE  Memory!Next
    BY <2>1, LoadsAgree, PatternAssumption, SameAddresses DEF Memory!Next
  <2>2. ASSUME NEW c \in Caches, NEW w \in Word, NEW v \in Values, Store(c, w, v)
        PROVE  Memory!Next
    <3>1. last' = Memory!NoAnswer
      BY <2>2 DEF Store, StoreHit, StoreUpgrade, StoreMiss
    <3> QED BY <2>2, <3>1, StoresInv, SameAddresses DEF Memory!Next, Memory!Store
  <2>3. ASSUME NEW c \in Caches, MemWriteback(c)
        PROVE  UNCHANGED Memory!vars
    BY <2>3, MemWritebackInv DEF MemWriteback, Memory!vars
  <2>4. ASSUME NEW c \in Caches, MemInvalidate(c)
        PROVE  UNCHANGED Memory!vars
    BY <2>4 DEF MemInvalidate, Memory!vars
  <2>5. CASE UNCHANGED vars
    BY <2>5 DEF vars, Memory!vars
  <2> QED BY <2>1, <2>2, <2>3, <2>4, <2>5 DEF Next, Store
<1> QED BY <1>1, <1>2, InvHolds, PTL DEF Spec, OneMemory, Memory!Spec
=============================================================================
