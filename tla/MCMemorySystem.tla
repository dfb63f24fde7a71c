--------------------------- MODULE MCMemorySystem ---------------------------
(***************************************************************************)
(* Two masters.  Each sends a read to the memory and a read over the       *)
(* bridge; the first also a writeback over the bridge, which needs no      *)
(* response.                                                               *)
(***************************************************************************)
EXTENDS MemorySystem

CONSTANTS cpu, dma

TwoMasters == {cpu, dma}

Pkt(m, d, r) == [from |-> m, to |-> d, response |-> r]

FivePackets ==
    {Pkt(m, d, TRUE) : m \in TwoMasters, d \in Slaves} \cup {Pkt(cpu, "bridge", FALSE)}
=============================================================================
