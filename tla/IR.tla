--------------------------------- MODULE IR ---------------------------------
(***************************************************************************)
(* The part of LLVM's IR the passes look at (external to the repository).  *)
(* A function is a record                                                  *)
(*   blocks, entry, succ, rets   its control-flow graph; rets are the      *)
(*                               blocks whose terminator is a return       *)
(*   po                          LLVM's post order of the reachable blocks *)
(*   args, named                 its arguments; the values with a name     *)
(*   code                        for each block its instructions           *)
(* and an instruction a record                                             *)
(*   id    the value it defines (the instruction itself)                   *)
(*   kind  "phi", "bin" (a binary operator), "load", "call" (anything with *)
(*         side effects) or "term"                                         *)
(*   op    the opcode of a binary operator                                 *)
(*   ops   the sequence of operands; <<>> for a phi                        *)
(*   inc   the pairs <<incoming block, value>> of a phi; {} for the others *)
(***************************************************************************)
EXTENDS Integers, Sequences, FiniteSets

Elements(s) == {s[i] : i \in DOMAIN s}

\* isa<Instruction>
InsnIds(f) == UNION {{insn.id : insn \in Elements(f.code[b])} : b \in f.blocks}

\* isa<Instruction> || isa<Argument>
Locals(f) == InsnIds(f) \cup f.args

IsPhi(insn) == insn.kind = "phi"

Preds(f, b) == {p \in f.blocks : b \in f.succ[p]}

-----------------------------------------------------------------------------
(* Reference notions on the graph, used only to state properties. *)

\* The blocks reachable from the set From by paths whose blocks, From's
\* included, satisfy Ok except for the last one.
ReachThrough(f, From, Ok) ==
    LET Closed(C) == /\ From \subseteq C
                     /\ \A c \in C \cap Ok : f.succ[c] \subseteq C
    IN {b \in f.blocks : \A C \in SUBSET f.blocks : Closed(C) => b \in C}

Reachable(f) == ReachThrough(f, {f.entry}, f.blocks)

\* d strictly dominates b: every path from the entry to b meets d before b.
StrictlyDominates(f, d, b) ==
    /\ d # b
    /\ b \notin ReachThrough(f, {f.entry}, f.blocks \ {d})
=============================================================================
