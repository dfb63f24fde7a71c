--------------------------- MODULE CoherentCaches ---------------------------
(***************************************************************************)
(* The first-level caches of gem5's timing mode with the repository's      *)
(* change to them: mem/cache/cache_impl.hh, mshr.cc and mshr_queue.cc on   *)
(* one CoherentXBar with one SimpleMemory.  Every store is also written    *)
(* through by a functional access, and every load is answered by a         *)
(* functional read, while the coherence protocol goes on as before.        *)
(*                                                                         *)
(* A block holds one word.  A miss waits in an MSHR, which the crossbar    *)
(* shows to the other caches (a snoop) when it goes out.  The cache or     *)
(* the memory that owns the block answers later.  A snoop that meets an    *)
(* MSHR in service is saved in it and handled after the answer.            *)
(*                                                                         *)
(* Latencies are left out: the responses waiting in a queue form a set     *)
(* and leave in any order, an MSHR or a writeback goes out at any time the *)
(* conflict rules of getNextMSHR allow, and the CPU takes a response at    *)
(* once.  The write buffer is never full.                                  *)
(***************************************************************************)
EXTENDS Integers, FiniteSets, Sequences, SequencesExt

CONSTANTS
    Ports,      \* the caches, in the order of the crossbar's snoopPorts
    Blocks,
    Values,     \* what a store may write
    Gone,       \* the data of what has none
    Frames,     \* blocks a cache can hold
    MaxRequests \* bound on the requests of all CPUs together

VARIABLES
    sys,        \* the caches, the queues and the memory
    left        \* requests the CPUs may still make

vars == <<sys, left>>

Caches == Range(Ports)

Invalid == [readable |-> FALSE, writable |-> FALSE, dirty |-> FALSE, data |-> Gone]

NoMSHR == [inService |-> FALSE, pendingDirty |-> FALSE, postInvalidate |-> FALSE,
           postDowngrade |-> FALSE, targets |-> <<>>, deferred |-> <<>>]

HasData(x) == x.data # Gone

\* An assertion of the code.
Check(s, p) == [s EXCEPT !.ok = @ /\ p]

-----------------------------------------------------------------------------
(* Targets of an MSHR: a CPU's load or store, or a saved snoop.  given is   *)
(* what the CPU stores, data what the packet holds now.                     *)

Target(store, v) == [cmd |-> IF store THEN "WriteReq" ELSE "LoadReq", from |-> Gone,
                     given |-> v, data |-> v]

SnoopTarget(pkt) == [cmd |-> pkt.cmd, from |-> pkt.from, given |-> Gone, data |-> Gone]

FromSnoop(t) == t.from # Gone

IsStore(t) == t.cmd = "WriteReq"

NeedsExclusive(targets) == \E i \in DOMAIN targets : IsStore(targets[i])

Request(cmd, c, b) ==
    [cmd |-> cmd, block |-> b, from |-> c, shared |-> FALSE, inhibit |-> FALSE]

Invalidates(pkt) == pkt.cmd \in {"ReadExReq", "UpgradeReq"}

\* makeTimingResponse: an upgrade is answered without data.
Response(pkt, data, invalidate) ==
    [block |-> pkt.block, to |-> pkt.from, shared |-> pkt.shared,
     inhibit |-> pkt.inhibit, invalidate |-> invalidate /\ pkt.cmd = "ReadReq",
     data |-> IF pkt.cmd = "UpgradeReq" THEN Gone ELSE data]

-----------------------------------------------------------------------------
(* Functional accesses.                                                     *)

Overwrite(x, v) == IF HasData(x) THEN [x EXCEPT !.data = v] ELSE x

OverwriteAll(seq, v) == [i \in DOMAIN seq |-> Overwrite(seq[i], v)]

OverwriteIn(pkts, b, v) == {IF p.block = b THEN Overwrite(p, v) ELSE p : p \in pkts}

\* Faulty form, for checking that the properties notice: the
\* responses that wait in the memory's queue are not updated.
WriteThroughNotQueued(s, c, b, v) ==
    LET Others(f, op(_)) == [d \in Caches |-> IF d = c THEN f[d] ELSE op(f[d])]
    IN [s EXCEPT
          !.mem[b] = v,
          !.blk = Others(@, LAMBDA f : [f EXCEPT ![b] = Overwrite(@, v)]),
          !.mshr = Others(@, LAMBDA f : [f EXCEPT
                       ![b].targets = OverwriteAll(@, v),
                       ![b].deferred = OverwriteAll(@, v)]),
          !.wbuf = Others(@, LAMBDA f : [f EXCEPT ![b] = Overwrite(@, v)]),
          !.snoopResp = Others(@, LAMBDA f : OverwriteIn(f, b, v))]

\* The functional write of satisfyCpuSideRequest: checkFunctional puts the
\* word into everything of another cache, or of the memory, that holds data
\* of the block, the stores that wait in an MSHR included.
WriteThrough(s, c, b, v) ==
    LET Others(f, op(_)) == [d \in Caches |-> IF d = c THEN f[d] ELSE op(f[d])]
    IN [s EXCEPT
          !.mem[b] = v,
          !.blk = Others(@, LAMBDA f : [f EXCEPT ![b] = Overwrite(@, v)]),
          !.mshr = Others(@, LAMBDA f : [f EXCEPT
                       ![b].targets = OverwriteAll(@, v),
                       ![b].deferred = OverwriteAll(@, v)]),
          !.wbuf = Others(@, LAMBDA f : [f EXCEPT ![b] = Overwrite(@, v)]),
          !.snoopResp = Others(@, LAMBDA f : OverwriteIn(f, b, v)),
          !.memResp = OverwriteIn(@, b, v)]


\* functionalAccess of a snooped cache, for a read: what it answers, or Gone.
FunctionalSnoop(s, d, b) ==
    LET blk == s.blk[d][b]
        m == s.mshr[d][b]
        stores == SelectSeq(m.targets \o m.deferred, IsStore)
        supplied == {p \in s.snoopResp[d] : p.block = b /\ HasData(p)}
    IN IF HasData(blk) /\ (blk.dirty \/ (m.inService /\ m.pendingDirty)) THEN blk.data
       ELSE IF stores # <<>> THEN Head(stores).data
       ELSE IF HasData(s.wbuf[d][b]) THEN s.wbuf[d][b].data
       ELSE IF supplied # {} THEN (CHOOSE p \in supplied : TRUE).data
       ELSE Gone

\* The functional read of satisfyCpuSideRequest: the first cache that answers,
\* or the memory and the responses that wait in it.
FunctionalRead(s, c, b) ==
    LET answers == SelectSeq([i \in DOMAIN Ports |->
                       IF Ports[i] = c THEN Gone ELSE FunctionalSnoop(s, Ports[i], b)],
                       LAMBDA v : v # Gone)
        waiting == {p \in s.memResp : p.block = b /\ HasData(p)}
    IN IF answers # <<>> THEN Head(answers)
       ELSE IF waiting # {} THEN (CHOOSE p \in waiting : TRUE).data
       ELSE s.mem[b]

PendingStores(s, c, b) ==
    {t.data : t \in UNION {{u \in Range(s.mshr[d][b].targets \o s.mshr[d][b].deferred) :
                                IsStore(u)} : d \in Caches \ {c}}}

\* Faulty form, for checking that the properties notice: a
\* store is performed with what the CPU gave.
SatisfyGiven(r, c, b, t) ==
    IF IsStore(t)
    THEN [s |-> WriteThrough(Check(r.s, r.blk.writable), c, b, t.given),
          blk |-> [r.blk EXCEPT !.data = t.given, !.dirty = TRUE]]
    ELSE r

\* satisfyCpuSideRequest for a target on a block, which may be tempBlock.
\* r is the system and that block.  stray remembers that a load was answered
\* with something that is neither in memory nor a store of another cache.
Satisfy(r, c, b, t) ==
    IF IsStore(t)
    THEN [s |-> WriteThrough(Check(r.s, r.blk.writable), c, b, t.data),
          blk |-> [r.blk EXCEPT !.data = t.data, !.dirty = TRUE]]
    ELSE [r EXCEPT !.s = [Check(r.s, HasData(r.blk)) EXCEPT
             !.stray = @ \/ FunctionalRead(r.s, c, b) \notin
                                {r.s.mem[b]} \cup PendingStores(r.s, c, b)]]

-----------------------------------------------------------------------------
(* Snoops.                                                                  *)

\* assertMemInhibit: only one answers.
Inhibit(s, pkt) == Check(s, ~pkt.inhibit)

\* doTimingSupplyResponse.
SupplyResponse(s, c, pkt, data, pendingInval) ==
    [Check(s, Invalidates(pkt) \/ pkt.shared) EXCEPT
        !.snoopResp[c] = @ \cup {Response(pkt, data, pendingInval)}]

\* Cache::handleSnoop.  r is the system, the block and the packet.
HandleSnoop(r, c, pendingInval) ==
    LET asked == [r.pkt EXCEPT !.shared = @ \/ ~Invalidates(r.pkt)]
        pkt == [asked EXCEPT !.inhibit = @ \/ r.blk.dirty]
    IN IF ~HasData(r.blk) THEN r
       ELSE [s |-> IF r.blk.dirty
                   THEN SupplyResponse(Inhibit(r.s, asked), c, pkt, r.blk.data, pendingInval)
                   ELSE r.s,
             blk |-> IF Invalidates(pkt) THEN Invalid ELSE [r.blk EXCEPT !.writable = FALSE],
             pkt |-> pkt]

\* Faulty form, for checking that the properties notice: the
\* memory is not told that this cache will answer.
DeferSnoopUninhibited(r, c) ==
    LET b == r.pkt.block
        m == r.s.mshr[c][b]
    IN IF m.postInvalidate THEN r
       ELSE [s |-> [r.s EXCEPT !.mshr[c][b] = [m EXCEPT
                       !.targets = IF m.pendingDirty \/ Invalidates(r.pkt)
                                   THEN Append(@, SnoopTarget(r.pkt)) ELSE @,
                       !.postInvalidate = Invalidates(r.pkt),
                       !.postDowngrade = @ \/ ~Invalidates(r.pkt)]],
             pkt |-> [r.pkt EXCEPT !.shared = @ \/ ~Invalidates(r.pkt)]]

\* MSHR::handleSnoop of an MSHR in service: the snoop is saved or ignored.
DeferSnoop(r, c) ==
    LET b == r.pkt.block
        m == r.s.mshr[c][b]
        saved == m.pendingDirty \/ Invalidates(r.pkt)
    IN IF m.postInvalidate THEN r
       ELSE [s |-> [(IF m.pendingDirty THEN Inhibit(r.s, r.pkt) ELSE r.s) EXCEPT
                       !.mshr[c][b] = [m EXCEPT
                           !.targets = IF saved THEN Append(@, SnoopTarget(r.pkt)) ELSE @,
                           !.postInvalidate = Invalidates(r.pkt),
                           !.postDowngrade = @ \/ ~Invalidates(r.pkt)]],
             pkt |-> [r.pkt EXCEPT !.inhibit = @ \/ m.pendingDirty,
                                   !.shared = @ \/ ~Invalidates(r.pkt)]]

\* The part of recvTimingSnoopReq about the write buffer.
SnoopWriteBuffer(r, c) ==
    LET b == r.pkt.block
        pkt == [r.pkt EXCEPT !.inhibit = TRUE, !.shared = @ \/ ~Invalidates(r.pkt)]
        supplied == SupplyResponse(Inhibit(r.s, r.pkt), c, pkt, r.s.wbuf[c][b].data, FALSE)
    IN IF ~HasData(r.s.wbuf[c][b]) THEN r
       ELSE [s |-> IF Invalidates(pkt) THEN [supplied EXCEPT !.wbuf[c][b].data = Gone]
                                       ELSE supplied,
             pkt |-> pkt]

\* Cache::recvTimingSnoopReq.  r is the system and the packet.
RecvTimingSnoopReq(r, c) ==
    LET b == r.pkt.block
        w == SnoopWriteBuffer(r, c)
        h == HandleSnoop([s |-> w.s, blk |-> w.s.blk[c][b], pkt |-> w.pkt], c, FALSE)
    IN IF r.s.mshr[c][b].inService THEN DeferSnoop(r, c)
       ELSE [s |-> [h.s EXCEPT !.blk[c][b] = h.blk], pkt |-> h.pkt]

\* CoherentXBar::forwardTiming: every cache but the source, in port order.
ForwardTiming(s, pkt) ==
    FoldLeft(LAMBDA r, c : IF c = pkt.from THEN r ELSE RecvTimingSnoopReq(r, c),
             [s |-> s, pkt |-> pkt], Ports)

-----------------------------------------------------------------------------
(* Requests of the CPU.                                                     *)

\* Faulty form, for checking that the properties notice: a
\* store is added behind a saved read that downgrades the block.
AllocateTargetDowngraded(m, t) ==
    IF m.inService /\ \/ m.deferred # <<>>
                      \/ m.postInvalidate
                      \/ IsStore(t) /\ ~m.pendingDirty
    THEN [m EXCEPT !.deferred = Append(@, t)]
    ELSE [m EXCEPT !.targets = Append(@, t)]

\* MSHR::allocateTarget: deferred when the answer on its way cannot serve it.
AllocateTarget(m, t) ==
    IF m.inService /\ \/ m.deferred # <<>>
                      \/ m.postInvalidate
                      \/ IsStore(t) /\ (~m.pendingDirty \/ m.postDowngrade)
    THEN [m EXCEPT !.deferred = Append(@, t)]
    ELSE [m EXCEPT !.targets = Append(@, t)]

\* access and recvTimingReq.
RecvTimingReq(s, c, b, t) ==
    LET blk == s.blk[c][b]
        m == s.mshr[c][b]
        hit == HasData(blk) /\ IF IsStore(t) THEN blk.writable ELSE blk.readable
        r == Satisfy([s |-> s, blk |-> blk], c, b, t)
        missed == IF m = NoMSHR /\ HasData(blk)
                  THEN [Check(s, IsStore(t) /\ ~blk.writable) EXCEPT
                           !.blk[c][b].readable = FALSE]
                  ELSE s
    IN IF hit THEN [r.s EXCEPT !.blk[c][b] = r.blk]
              ELSE [missed EXCEPT !.mshr[c][b] = AllocateTarget(m, t)]

CpuRequest(c, b) ==
    /\ left > 0
    /\ left' = left - 1
    /\ \/ sys' = RecvTimingReq(sys, c, b, Target(FALSE, Gone))
       \/ \E v \in Values : sys' = RecvTimingReq(sys, c, b, Target(TRUE, v))

-----------------------------------------------------------------------------
(* Requests to the crossbar.                                                *)

\* sendDeferredPacket lets a snoop response to the same block go first.
SnoopRespWaiting(s, c, b) == \E p \in s.snoopResp[c] : p.block = b

\* getBusPacket.
BusCommand(s, c, b) ==
    IF HasData(s.blk[c][b]) THEN "UpgradeReq"
    ELSE IF NeedsExclusive(s.mshr[c][b].targets) THEN "ReadExReq" ELSE "ReadReq"

\* MSHRQueue::markInService.
MarkInService(s, c, b, pendingDirtyResp) ==
    [s EXCEPT !.mshr[c][b].inService = TRUE,
              !.mshr[c][b].pendingDirty =
                  NeedsExclusive(s.mshr[c][b].targets) \/ pendingDirtyResp]

\* AbstractMemory::access of a miss, with no one inhibiting it.
MemoryRequest(s, pkt) ==
    [s EXCEPT !.memResp = @ \cup {Response(pkt, s.mem[pkt.block], FALSE)}]

\* sendDeferredPacket with a miss.  The snoops happen before the memory is
\* asked, and stay when the memory refuses (it refuses nothing inhibited).
SendMiss(c, b, accepted) ==
    LET m == sys.mshr[c][b]
        blk == sys.blk[c][b]
        asserted == Check(sys, HasData(blk) => NeedsExclusive(m.targets) /\ ~blk.writable)
        r == ForwardTiming(asserted, Request(BusCommand(sys, c, b), c, b))
    IN /\ m.targets # <<>>
       /\ ~m.inService
       /\ ~HasData(sys.wbuf[c][b])
       /\ ~SnoopRespWaiting(sys, c, b)
       /\ r.pkt.inhibit => accepted
       /\ sys' = IF ~accepted THEN r.s
                 ELSE MarkInService(IF r.pkt.inhibit THEN r.s ELSE MemoryRequest(r.s, r.pkt),
                                    c, b, ~r.pkt.shared /\ r.pkt.inhibit)
       /\ UNCHANGED left

\* sendDeferredPacket with a writeback, which no cache snoops.  A miss on the
\* same block waits for it.
SendWriteback(c, b) ==
    /\ HasData(sys.wbuf[c][b])
    /\ ~SnoopRespWaiting(sys, c, b)
    /\ sys' = [Check(sys, ~HasData(sys.blk[c][b])) EXCEPT
                  !.mem[b] = sys.wbuf[c][b].data,
                  !.wbuf[c][b].data = Gone]
    /\ UNCHANGED left

-----------------------------------------------------------------------------
(* Responses.                                                               *)

\* writebackBlk and allocateWriteBuffer.  A second entry for a block would
\* break the assertion of recvTimingSnoopReq.
Writeback(s, c, b, data) ==
    [Check(s, ~HasData(s.wbuf[c][b])) EXCEPT !.wbuf[c][b].data = data]

\* MSHR::handleFill: an exclusive answer serves the deferred stores as well.
SpliceDeferred(m, p) ==
    IF ~p.shared /\ ~m.postInvalidate /\ ~m.postDowngrade /\ NeedsExclusive(m.deferred)
    THEN [m EXCEPT !.targets = m.targets \o m.deferred, !.deferred = <<>>]
    ELSE m

\* MSHR::promoteDeferredTargets and markPending, or deallocate.
PromoteDeferred(m) == [NoMSHR EXCEPT !.targets = m.deferred]

\* findVictim: nothing, or a block that makes room.
Victims(s, c, b) ==
    LET held == {v \in Blocks : HasData(s.blk[c][v])}
    IN IF b \in held \/ Cardinality(held) < Frames THEN {Gone} ELSE held

\* A victim with a miss of its own cannot be replaced: tempBlock is used.
UsesTemp(s, c, victim) == victim # Gone /\ s.mshr[c][victim] # NoMSHR

\* allocateBlock.
AllocateBlock(s, c, victim) ==
    LET blk == s.blk[c][victim]
        freed == [s EXCEPT !.blk[c][victim] = Invalid]
    IN IF victim = Gone THEN s
       ELSE IF UsesTemp(s, c, victim)
       THEN Check(s, /\ ~blk.writable \/ blk.dirty
                     /\ NeedsExclusive(s.mshr[c][victim].targets))
       ELSE IF blk.dirty THEN Writeback(freed, c, victim, blk.data) ELSE freed

\* Cache::handleFill.
Fill(blk, p) ==
    [readable |-> TRUE,
     writable |-> blk.writable \/ ~p.shared,
     dirty |-> blk.dirty \/ (~p.shared /\ p.inhibit),
     data |-> IF HasData(p) THEN p.data ELSE blk.data]

\* One turn of the loop over the targets in recvTimingResp.
ServeTarget(r, c, p, m, t) ==
    LET pkt == Request(t.cmd, t.from, p.block)
        h == HandleSnoop([s |-> Check(r.s, p.invalidate => m.postInvalidate),
                          blk |-> r.blk, pkt |-> pkt], c, m.postInvalidate)
    IN IF FromSnoop(t) THEN [s |-> h.s, blk |-> h.blk] ELSE Satisfy(r, c, p.block, t)

\* Faulty form, for checking that the properties notice: a
\* pending downgrade is forgotten.
SettleWritable(blk, p, m) ==
    IF p.invalidate \/ m.postInvalidate THEN Invalid
    ELSE [blk EXCEPT !.readable = @ /\ m.deferred = <<>>]

\* After the loop: a pending invalidation or downgrade takes effect, and a
\* block with a miss to come is not read.
Settle(blk, p, m) ==
    IF p.invalidate \/ m.postInvalidate THEN Invalid
    ELSE [blk EXCEPT !.writable = @ /\ ~m.postDowngrade,
                     !.readable = @ /\ m.deferred = <<>>]

\* recvTimingResp, from the arrival of the response to the writebacks.
RecvTimingResp(s, c, p, victim) ==
    LET b == p.block
        old == s.mshr[c][b]
        m == SpliceDeferred(old, p)
        temp == UsesTemp(s, c, victim)
        arrived == Check(s, /\ old.inService
                            /\ m # old => ~NeedsExclusive(old.targets)
                            /\ HasData(p) \/ HasData(s.blk[c][b]))
        r == FoldLeft(LAMBDA x, t : ServeTarget(x, c, p, m, t),
                      [s |-> AllocateBlock(arrived, c, victim),
                       blk |-> Fill(s.blk[c][b], p)],
                      m.targets)
        blk == IF HasData(r.blk) THEN Settle(r.blk, p, m) ELSE Invalid
        done == [Check(r.s, HasData(r.blk) /\ ~HasData(blk) => ~temp) EXCEPT
                    !.mshr[c][b] = PromoteDeferred(m)]
    IN IF ~temp THEN [done EXCEPT !.blk[c][b] = blk]
       ELSE IF blk.dirty THEN Writeback(done, c, b, blk.data) ELSE done

MemResponse(p) ==
    /\ \E victim \in Victims(sys, p.to, p.block) :
          sys' = RecvTimingResp([sys EXCEPT !.memResp = @ \ {p}], p.to, p, victim)
    /\ UNCHANGED left

SnoopResponse(c, p) ==
    /\ \E victim \in Victims(sys, p.to, p.block) :
          sys' = RecvTimingResp([sys EXCEPT !.snoopResp[c] = @ \ {p}], p.to, p, victim)
    /\ UNCHANGED left

-----------------------------------------------------------------------------
Init ==
    /\ \E v \in Values :
          sys = [mem |-> [b \in Blocks |-> v],
                 blk |-> [c \in Caches |-> [b \in Blocks |-> Invalid]],
                 mshr |-> [c \in Caches |-> [b \in Blocks |-> NoMSHR]],
                 wbuf |-> [c \in Caches |-> [b \in Blocks |-> [data |-> Gone]]],
                 snoopResp |-> [c \in Caches |-> {}],
                 memResp |-> {},
                 ok |-> TRUE,
                 stray |-> FALSE]
    /\ left = MaxRequests

\* The CPUs have made their requests and everything is served.  Any other
\* state without a step is a deadlock.
Finished ==
    /\ left = 0
    /\ sys.memResp = {}
    /\ \A c \in Caches : sys.snoopResp[c] = {}
    /\ \A c \in Caches, b \in Blocks :
          sys.mshr[c][b] = NoMSHR /\ ~HasData(sys.wbuf[c][b])
    /\ UNCHANGED vars

Next ==
    \/ \E c \in Caches, b \in Blocks :
          \/ CpuRequest(c, b)
          \/ \E accepted \in BOOLEAN : SendMiss(c, b, accepted)
          \/ SendWriteback(c, b)
    \/ \E p \in sys.memResp : MemResponse(p)
    \/ \E c \in Caches : \E p \in sys.snoopResp[c] : SnoopResponse(c, p)
    \/ Finished

Spec == Init /\ [][Next]_vars

-----------------------------------------------------------------------------
(* No assertion of the caches, the MSHRs or the packets fails.              *)
AssertionsHold == sys.ok

(* When a cache may write a block no other cache has a valid copy, and at   *)
(* most one cache owns the block, in its frame or in its write buffer.      *)
SingleOwner ==
    \A c \in Caches, d \in Caches, b \in Blocks : c # d =>
        /\ sys.blk[c][b].writable => ~HasData(sys.blk[d][b])
        /\ sys.blk[c][b].dirty \/ HasData(sys.wbuf[c][b]) =>
               ~sys.blk[d][b].dirty /\ ~HasData(sys.wbuf[d][b])

\* The snoops of cache c that cache d has saved.
Owes(d, c, b) ==
    Cardinality({i \in DOMAIN sys.mshr[d][b].targets : sys.mshr[d][b].targets[i].from = c})

\* The answers to the miss of c on block b: waiting or owed.
AnswersComing(c, b) ==
    LET ours(pkts) == {p \in pkts : p.to = c /\ p.block = b}
        owing == {d \in Caches : sys.mshr[d][b].pendingDirty /\ Owes(d, c, b) > 0}
        sending == {d \in Caches : ours(sys.snoopResp[d]) # {}}
    IN Cardinality(ours(sys.memResp)) + Cardinality(sending) + Cardinality(owing)

(* A miss that went out has exactly one answer on its way: in the memory's  *)
(* queue, in a cache's queue, or owed by a cache that saved the snoop.      *)
OneAnswerComing ==
    \A c \in Caches, b \in Blocks :
        AnswersComing(c, b) = IF sys.mshr[c][b].inService THEN 1 ELSE 0

(* Write-through keeps every copy of a block, wherever it waits, equal to   *)
(* the memory.                                                              *)
CopiesAreMemory ==
    \A b \in Blocks :
        LET here(pkts) == {p \in pkts : p.block = b}
            copies == UNION {{sys.blk[c][b], sys.wbuf[c][b]} \cup here(sys.snoopResp[c]) :
                                c \in Caches} \cup here(sys.memResp)
        IN \A x \in copies : HasData(x) => x.data = sys.mem[b]

(* A waiting store whose data another cache's write-through has replaced is *)
(* lost: when its miss is served the memory keeps the other cache's value,  *)
(* as if the lost store had come first.                                     *)
LostStoresChangeNothing ==
    [][\A c \in Caches, b \in Blocks :
          LET m == sys.mshr[c][b]
              stores == {t \in Range(m.targets \o m.deferred) : IsStore(t)}
          IN m.inService /\ ~sys'.mshr[c][b].inService
                 /\ (\A t \in stores : t.data # t.given)
             => sys'.mem[b] = sys.mem[b]]_vars

=============================================================================
