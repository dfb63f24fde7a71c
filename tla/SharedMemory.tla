---------------------------- MODULE SharedMemory ----------------------------
(***************************************************************************)
(* What the memory system promises the processors: one memory.  A store    *)
(* changes one word; a load returns the word it names as it is now; a      *)
(* gathered load with pattern p returns the word the pattern leads to.     *)
(***************************************************************************)
EXTENDS Gather

CONSTANT Values

VARIABLES mem,           \* the words
          last           \* the answer to the latest request, if it was a load

vars == <<mem, last>>

NoAnswer == [op |-> "none"]

LoadAnswer(w, p, v) == [op |-> "load", word |-> w, pattern |-> p, val |-> v]

Init == mem \in [Word -> Values] /\ last = NoAnswer

Load(w, p) ==
    /\ mem' = mem
    /\ last' = LoadAnswer(w, p, mem[GatherAddr(w, p)])

Store(w, v) ==
    /\ last' = NoAnswer
    /\ mem' = [mem EXCEPT ![w] = v]

Next == \E w \in Word : (\E p \in Ids : Load(w, p)) \/ (\E v \in Values : Store(w, v))

Spec == Init /\ [][Next]_vars
=============================================================================
