---------------------------- MODULE MemorySystem ----------------------------
(***************************************************************************)
(* Timing-mode flow control in gem5: masters that send through packet      *)
(* queues (packet_queue.cc), a crossbar (xbar.cc, noncoherent_xbar.cc), a  *)
(* memory at the crossbar and another one behind a bridge (bridge.cc,      *)
(* simple_mem.cc).  A receiver that cannot take a packet refuses it and    *)
(* must call back; whoever is refused keeps the packet and waits.          *)
(*                                                                         *)
(* A call between components happens within the caller's step, so a        *)
(* handler is an operator from a state s of the whole system to the next   *)
(* one, and an action is an event the simulator services.  Ticks are left  *)
(* out: a scheduled event may come at any moment.                          *)
(***************************************************************************)
EXTENDS Integers, Sequences, FiniteSets, SequencesExt

CONSTANTS Masters,
          Packets,       \* records: who sends it, its destination, is there a response
          ReqLimit, RespLimit,    \* the bridge's req_size and resp_size
          None

Slaves == {"memory", "bridge"}        \* what the crossbar's requests go to
Memories == {"memory", "behind"}      \* behind: the one at the bridge

\* The crossbar has a layer for requests to each slave, and one for responses to
\* each master.
Layers == Slaves \cup Masters

VARIABLES sys,
          parity         \* of the number of events serviced, to state fairness

vars == <<sys, parity>>

\* An assertion of the code; ok remembers whether all have held.
Check(s, assertion) == [s EXCEPT !.ok = @ /\ assertion]

Yes(s) == [s |-> s, sent |-> TRUE]
No(s) == [s |-> s, sent |-> FALSE]

-----------------------------------------------------------------------------
(* BaseXBar::Layer. *)

\* occupyLayer
Occupy(s, x) ==
    [Check(s, s.layer[x].state = "BUSY" /\ ~s.layer[x].release)
        EXCEPT !.layer[x].release = TRUE]

\* Faulty form, for checking that the properties notice: a layer whose peer has
\* refused a packet takes another one.
RefusesBusyOnly(s, x) == s.layer[x].state = "BUSY"

\* The two outcomes of tryTiming, and which of them it is.
Refuses(s, x) == s.layer[x].state = "BUSY" \/ s.layer[x].peer # None

WaitForLayer(s, x, port) ==
    [Check(s, ~Contains(s.layer[x].waiting, port))
        EXCEPT !.layer[x].waiting = Append(@, port)]

MakeBusy(s, x) == [s EXCEPT !.layer[x].state = "BUSY"]

\* failedTiming
Failed(s, x, port) ==
    Occupy([Check(s, s.layer[x].peer = None) EXCEPT !.layer[x].peer = port], x)

\* retryWaiting, before and after it calls the port
StartRetry(s, x) ==
    [Check(s, s.layer[x].waiting # <<>> /\ s.layer[x].state = "IDLE")
        EXCEPT !.layer[x].state = "RETRY", !.layer[x].waiting = Tail(@)]

EndRetry(s, x) ==
    IF s.layer[x].state = "RETRY" THEN Occupy(MakeBusy(s, x), x) ELSE s

-----------------------------------------------------------------------------
(* SimpleMemory. *)

\* recvTimingReq
MemRecvReq(s, d, p) ==
    LET m == s.memory[d]
    IN CASE m.retryReq -> No(s)
         [] ~m.retryReq /\ m.isBusy -> No([s EXCEPT !.memory[d].retryReq = TRUE])
         [] OTHER ->
              Yes([s EXCEPT
                  !.memory[d].isBusy = TRUE,
                  !.memory[d].queue = IF p.response THEN Append(@, p) ELSE @,
                  !.memory[d].dequeueEvent = @ \/ (p.response /\ ~m.retryResp),
                  !.done = IF p.response THEN @ ELSE @ \cup {p}])

-----------------------------------------------------------------------------
(* The slave side of Bridge, and a response that comes from behind it. *)

\* recvTimingReq and schedTimingReq
BridgeRecvReq(s, p) ==
    LET b == s.bridge
        full == \/ Len(b.reqs) = ReqLimit
                \/ p.response /\ b.outstanding = RespLimit
        c == Check(s, ~b.retryReq)
    IN IF full THEN No([c EXCEPT !.bridge.retryReq = TRUE])
       ELSE Yes([Check(c, b.reqs = <<>> => ~b.reqEvent) EXCEPT
                    !.bridge.outstanding = IF p.response THEN @ + 1 ELSE @,
                    !.bridge.reqEvent = @ \/ b.reqs = <<>>,
                    !.bridge.reqs = Append(@, p)])

\* recvTimingResp and schedTimingResp
BridgeRecvResp(s, p) ==
    LET b == s.bridge
    IN Yes([Check(s, b.resps = <<>> => ~b.respEvent) EXCEPT
               !.bridge.respEvent = @ \/ b.resps = <<>>,
               !.bridge.resps = Append(@, p)])

-----------------------------------------------------------------------------
(* NoncoherentXBar. *)

RecvReq(s, p) ==
    IF p.to = "bridge" THEN BridgeRecvReq(s, p) ELSE MemRecvReq(s, "memory", p)

\* recvTimingReq
XBarRecvReq(s, p) ==
    IF Refuses(s, p.to) THEN No(WaitForLayer(s, p.to, p.from))
    ELSE LET r == RecvReq(MakeBusy(s, p.to), p)
         IN IF ~r.sent THEN No(Failed(r.s, p.to, p.from))
            ELSE Yes(Occupy([Check(r.s, p \notin s.routeTo) EXCEPT
                        !.routeTo = IF p.response THEN @ \cup {p} ELSE @], p.to))

\* recvTimingResp; the master takes every response.
XBarRecvResp(s, slave, p) ==
    LET c == Check(s, p \in s.routeTo)
    IN IF Refuses(s, p.from) THEN No(WaitForLayer(c, p.from, slave))
       ELSE Yes(Occupy([MakeBusy(c, p.from) EXCEPT
                   !.routeTo = @ \ {p}, !.done = @ \cup {p}], p.from))

-----------------------------------------------------------------------------
(* PacketQueue. *)

\* schedSendEvent
SchedSendEvent(s, m) ==
    IF s.queue[m].waitingOnRetry THEN Check(s, ~s.queue[m].sendEvent)
    ELSE [s EXCEPT !.queue[m].sendEvent = TRUE]

\* sendDeferredPacket
SendDeferredPacket(s, m) ==
    LET list == s.queue[m].list
        c == Check(s, ~s.queue[m].waitingOnRetry /\ list # <<>>)
        r == XBarRecvReq([c EXCEPT !.queue[m].list = Tail(@)], Head(list))
    IN CASE ~r.sent -> [r.s EXCEPT !.queue[m].waitingOnRetry = TRUE,
                                   !.queue[m].list = <<Head(list)>> \o @]
         [] r.sent /\ Len(list) > 1 -> SchedSendEvent(r.s, m)
         [] OTHER -> r.s

\* retry
QueueRetry(s, m) ==
    SendDeferredPacket([Check(s, s.queue[m].waitingOnRetry) EXCEPT
                           !.queue[m].waitingOnRetry = FALSE], m)

-----------------------------------------------------------------------------
(* Calling back. *)

\* retryWaiting of the layer for requests to slave d
RetryReqLayer(s, d) ==
    EndRetry(QueueRetry(StartRetry(s, d), Head(s.layer[d].waiting)), d)

\* Faulty form, for checking that the properties notice: a retry that comes while
\* the layer is busy is forgotten.
LayerRecvRetryIdleOnly(s, d) ==
    LET l == s.layer[d]
        c == [Check(s, l.peer # None) EXCEPT !.layer[d].peer = None]
    IN IF l.state = "IDLE"
       THEN RetryReqLayer([c EXCEPT !.layer[d].waiting = <<l.peer>> \o @], d)
       ELSE Check(c, l.state = "BUSY")

\* recvRetry
LayerRecvRetry(s, d) ==
    LET l == s.layer[d]
        c == [Check(s, l.peer # None) EXCEPT
                 !.layer[d].waiting = <<l.peer>> \o @, !.layer[d].peer = None]
    IN IF l.state = "IDLE" THEN RetryReqLayer(c, d) ELSE Check(c, l.state = "BUSY")

\* The end of the two trySendTiming: the bridge calls back the crossbar.
RetryStalledReq(s) ==
    IF s.bridge.retryReq
    THEN LayerRecvRetry([s EXCEPT !.bridge.retryReq = FALSE], "bridge")
    ELSE s

\* BridgeMasterPort::trySendTiming
TrySendReq(s) ==
    LET reqs == s.bridge.reqs
        r == MemRecvReq(Check(s, reqs # <<>>), "behind", Head(reqs))
    IN IF ~r.sent THEN r.s
       ELSE RetryStalledReq([Check(r.s, Len(reqs) > 1 => ~s.bridge.reqEvent) EXCEPT
                !.bridge.reqs = Tail(@), !.bridge.reqEvent = Len(reqs) > 1])

\* Faulty form, for checking that the properties notice: the reservation is kept.
TrySendRespKeep(s) ==
    LET resps == s.bridge.resps
        r == XBarRecvResp(Check(s, resps # <<>>), "bridge", Head(resps))
        sent == [r.s EXCEPT !.bridge.resps = Tail(@), !.bridge.respEvent = Len(resps) > 1]
    IN CASE ~r.sent -> r.s
         [] r.sent /\ Len(s.bridge.reqs) = ReqLimit -> sent
         [] OTHER -> RetryStalledReq(sent)

\* BridgeSlavePort::trySendTiming
TrySendResp(s) ==
    LET resps == s.bridge.resps
        r == XBarRecvResp(Check(s, resps # <<>>), "bridge", Head(resps))
        sent == [Check(r.s, /\ s.bridge.outstanding # 0
                            /\ Len(resps) > 1 => ~s.bridge.respEvent) EXCEPT
                    !.bridge.resps = Tail(@), !.bridge.respEvent = Len(resps) > 1,
                    !.bridge.outstanding = @ - 1]
    IN CASE ~r.sent -> r.s
         [] r.sent /\ Len(s.bridge.reqs) = ReqLimit -> sent
         [] OTHER -> RetryStalledReq(sent)

\* Faulty form, for checking that the properties notice: the next response is not
\* scheduled.
DequeueOne(s, d) ==
    LET queue == s.memory[d].queue
        c == Check(s, queue # <<>>)
        r == IF d = "memory" THEN XBarRecvResp(c, d, Head(queue))
                             ELSE BridgeRecvResp(c, Head(queue))
    IN IF ~r.sent THEN [r.s EXCEPT !.memory[d].retryResp = TRUE]
       ELSE [r.s EXCEPT !.memory[d].retryResp = FALSE, !.memory[d].queue = Tail(@)]

\* SimpleMemory::dequeue
Dequeue(s, d) ==
    LET queue == s.memory[d].queue
        c == Check(s, queue # <<>>)
        r == IF d = "memory" THEN XBarRecvResp(c, d, Head(queue))
                             ELSE BridgeRecvResp(c, Head(queue))
    IN IF ~r.sent THEN [r.s EXCEPT !.memory[d].retryResp = TRUE]
       ELSE [r.s EXCEPT !.memory[d].retryResp = FALSE,
                        !.memory[d].queue = Tail(@),
                        !.memory[d].dequeueEvent = @ \/ Len(queue) > 1]

\* SimpleMemory::release
Release(s, d) ==
    LET m == s.memory[d]
        c == [Check(s, m.isBusy) EXCEPT !.memory[d].isBusy = FALSE,
                                        !.memory[d].retryReq = FALSE]
    IN CASE ~m.retryReq -> c
         [] m.retryReq /\ d = "memory" -> LayerRecvRetry(c, d)
         [] OTHER -> TrySendReq(c)

\* recvRespRetry of the bridge's slave port or of the memory
RespRetry(s, slave) ==
    IF slave = "bridge" THEN TrySendResp(s)
    ELSE Dequeue(Check(s, s.memory[slave].retryResp), slave)

\* retryWaiting of the layer for responses to master m
RetryRespLayer(s, m) ==
    EndRetry(RespRetry(StartRetry(s, m), Head(s.layer[m].waiting)), m)

\* releaseLayer
ReleaseLayer(s, x) ==
    LET l == s.layer[x]
        c == [Check(s, l.state = "BUSY") EXCEPT !.layer[x].state = "IDLE"]
    IN CASE l.waiting = <<>> \/ l.peer # None -> c
         [] l.waiting # <<>> /\ l.peer = None /\ x \in Slaves -> RetryReqLayer(c, x)
         [] OTHER -> RetryRespLayer(c, x)

-----------------------------------------------------------------------------
Init ==
    /\ parity = 0
    /\ sys = [queue |-> [m \in Masters |->
                            [list |-> <<>>, waitingOnRetry |-> FALSE, sendEvent |-> FALSE]],
              layer |-> [x \in Layers |->
                            [state |-> "IDLE", waiting |-> <<>>, peer |-> None,
                             release |-> FALSE]],
              bridge |-> [reqs |-> <<>>, reqEvent |-> FALSE, retryReq |-> FALSE,
                          resps |-> <<>>, respEvent |-> FALSE, outstanding |-> 0],
              memory |-> [d \in Memories |->
                             [queue |-> <<>>, dequeueEvent |-> FALSE, isBusy |-> FALSE,
                              retryReq |-> FALSE, retryResp |-> FALSE]],
              routeTo |-> {},     \* the requests the crossbar owes a response
              issued |-> {}, done |-> {},
              ok |-> TRUE]        \* no assertion has failed

\* schedSendTiming: the place in the list follows from the packet's tick, which
\* may be any; only a packet that comes first needs the event.
Issue(p, i) ==
    LET list == sys.queue[p.from].list
        s == [sys EXCEPT !.queue[p.from].list = InsertAt(@, i, p), !.issued = @ \cup {p}]
    IN /\ p \notin sys.issued
       /\ i \in 1..(Len(list) + 1)
       /\ sys' = IF i = 1 THEN SchedSendEvent(s, p.from) ELSE s
       /\ UNCHANGED parity

SendEvent(m) ==
    /\ sys.queue[m].sendEvent
    /\ sys' = SendDeferredPacket([sys EXCEPT !.queue[m].sendEvent = FALSE], m)

ReleaseEvent(x) ==
    /\ sys.layer[x].release
    /\ sys' = ReleaseLayer([sys EXCEPT !.layer[x].release = FALSE], x)

BridgeReqEvent ==
    /\ sys.bridge.reqEvent
    /\ sys' = TrySendReq([sys EXCEPT !.bridge.reqEvent = FALSE])

BridgeRespEvent ==
    /\ sys.bridge.respEvent
    /\ sys' = TrySendResp([sys EXCEPT !.bridge.respEvent = FALSE])

\* SimpleMemory's releaseEvent is scheduled exactly while isBusy holds.
MemReleaseEvent(d) ==
    /\ sys.memory[d].isBusy
    /\ sys' = Release(sys, d)

MemDequeueEvent(d) ==
    /\ sys.memory[d].dequeueEvent
    /\ sys' = Dequeue([sys EXCEPT !.memory[d].dequeueEvent = FALSE], d)

Event ==
    /\ parity' = 1 - parity
    /\ \/ \E m \in Masters : SendEvent(m)
       \/ \E x \in Layers : ReleaseEvent(x)
       \/ BridgeReqEvent
       \/ BridgeRespEvent
       \/ \E d \in Memories : MemReleaseEvent(d)
       \/ \E d \in Memories : MemDequeueEvent(d)

Next ==
    \/ \E p \in Packets : \E i \in 1..(Len(sys.queue[p.from].list) + 1) : Issue(p, i)
    \/ Event

\* Some event is scheduled.
Scheduled ==
    \/ \E m \in Masters : sys.queue[m].sendEvent
    \/ \E x \in Layers : sys.layer[x].release
    \/ sys.bridge.reqEvent \/ sys.bridge.respEvent
    \/ \E d \in Memories : sys.memory[d].isBusy \/ sys.memory[d].dequeueEvent

\* Of the steps of Next, those of Event.
Serviced == Scheduled /\ parity' = 1 - parity

\* The simulator goes on servicing events while one is scheduled.
Spec == Init /\ [][Next]_vars /\ WF_parity(Serviced)
-----------------------------------------------------------------------------
(* Properties. *)

(* No assertion of the handlers fails, however the events fall: no port     *)
(* waits twice, nobody is called back who did not wait, no event is         *)
(* scheduled twice, no request comes to a bridge that stalls another one.   *)
AssertionsHold == sys.ok

(* "We are guaranteed to have space for the response" (recvTimingResp of    *)
(* the bridge): the count of reservations is exactly the requests that are  *)
(* behind the slave port and owed a response, and within the limit.         *)
ReservationsAreExact ==
    LET owed == {p \in Range(sys.bridge.reqs) : p.response}
                    \cup Range(sys.memory["behind"].queue) \cup Range(sys.bridge.resps)
    IN sys.bridge.outstanding = Cardinality(owed) /\ Cardinality(owed) <= RespLimit

(* Whoever was refused will be called back: a waiting master is known to    *)
(* exactly one layer, a layer with ports that wait is going to be released  *)
(* or waits for its peer, the peer knows, and what the peer waits for is    *)
(* under way.                                                               *)
NoLostRetry ==
    LET Waits(x) == Range(sys.layer[x].waiting) \cup ({sys.layer[x].peer} \ {None})
    IN /\ \A m \in Masters :
             Cardinality({d \in Slaves : m \in Waits(d)}) =
                IF sys.queue[m].waitingOnRetry THEN 1 ELSE 0
       /\ \A x \in Layers : sys.layer[x].waiting # <<>> =>
             sys.layer[x].release \/ sys.layer[x].peer # None
       /\ sys.layer["memory"].peer # None <=> sys.memory["memory"].retryReq
       /\ sys.layer["bridge"].peer # None <=> sys.bridge.retryReq
       /\ sys.bridge.retryReq => sys.bridge.reqs # <<>> \/ sys.bridge.outstanding > 0
       /\ sys.bridge.reqs # <<>> => sys.bridge.reqEvent \/ sys.memory["behind"].retryReq
       /\ \A d \in Memories : sys.memory[d].retryReq => sys.memory[d].isBusy

(* Every request is carried out and every response delivered: nobody waits  *)
(* for ever, although memories and bridge refuse what they cannot take.     *)
(* There are finitely many packets, and one that is done stays done: it is   *)
(* enough that again and again all that were issued are done.               *)
EveryRequestIsServed == []<>(sys.issued = sys.done)
=============================================================================
