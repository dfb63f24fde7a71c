----------------------------- MODULE EventQueue -----------------------------
(***************************************************************************)
(* gem5's event queue, sim/eventq.cc and sim/eventq_impl.hh, in one thread.*)
(* The queue is a list of bins linked by nextBin, one for each time and    *)
(* priority; a bin is a stack linked by nextInBin.  Only the top event of  *)
(* a bin has a nextBin that means something: the others are stale until    *)
(* they come to the top.                                                   *)
(***************************************************************************)
EXTENDS Integers, Sequences, FiniteSets, SequencesExt

CONSTANTS Events, priority, Null,
          MaxTick        \* bound on the times that are asked for

VARIABLES head, nextBin, nextInBin,
          when,          \* Event::_when
          scheduled,     \* the events with the flag Scheduled
          squashed,      \* the events with the flag Squashed
          curTick,
          panic          \* remove() has not found its event

vars == <<head, nextBin, nextInBin, when, scheduled, squashed, curTick, panic>>

\* Faulty form, for checking that the properties notice: the greater priority
\* goes first.
LessReversed(w, e, f) == w[e] < w[f] \/ (w[e] = w[f] /\ priority[e] > priority[f])

\* operator< and operator== on events, for times w.
Less(w, e, f) == w[e] < w[f] \/ (w[e] = w[f] /\ priority[e] < priority[f])

Same(w, e, f) == w[e] = w[f] /\ priority[e] = priority[f]

Links == [head |-> head, nextBin |-> nextBin, nextInBin |-> nextInBin]

-----------------------------------------------------------------------------
\* The loop of insert() and remove(): the last bin before event e, starting at
\* bin prev, which is before it.
RECURSIVE LastBefore(_, _, _, _)
LastBefore(q, w, e, prev) ==
    LET curr == q.nextBin[prev]
    IN IF curr # Null /\ Less(w, curr, e) THEN LastBefore(q, w, e, curr) ELSE prev

\* insertBefore: event e on top of bin curr, or in a bin of its own before it.
InsertBefore(q, w, e, curr) ==
    IF curr = Null \/ Less(w, e, curr)
    THEN [q EXCEPT !.nextBin[e] = curr, !.nextInBin[e] = Null]
    ELSE [q EXCEPT !.nextBin[e] = q.nextBin[curr], !.nextInBin[e] = curr]

Insert(q, w, e) ==
    IF q.head = Null \/ Less(w, e, q.head) \/ Same(w, e, q.head)
    THEN [InsertBefore(q, w, e, q.head) EXCEPT !.head = e]
    ELSE LET prev == LastBefore(q, w, e, q.head)
         IN [InsertBefore(q, w, e, q.nextBin[prev]) EXCEPT !.nextBin[prev] = e]

\* The event above e in the bin with top event top; Null if there is none.
RECURSIVE Above(_, _, _)
Above(q, e, top) ==
    CASE top = Null -> Null
      [] top # Null /\ q.nextInBin[top] = e -> top
      [] OTHER -> Above(q, e, q.nextInBin[top])

\* removeItem: the links, and the new top of the bin, after e is taken out; found
\* is FALSE where the code panics.
RemoveItem(q, e, top) ==
    LET next == q.nextInBin[top]
        up == Above(q, e, top)
    IN CASE e = top /\ next = Null -> [q |-> q, top |-> q.nextBin[top], found |-> TRUE]
         [] e = top /\ next # Null ->
                [q |-> [q EXCEPT !.nextBin[next] = q.nextBin[top]], top |-> next, found |-> TRUE]
         [] e # top /\ up # Null ->
                [q |-> [q EXCEPT !.nextInBin[up] = q.nextInBin[e]], top |-> top, found |-> TRUE]
         [] OTHER -> [q |-> q, top |-> top, found |-> FALSE]

RemoveEvent(q, w, e) ==
    CASE q.head = Null -> [q |-> q, found |-> FALSE]
      [] q.head # Null /\ Same(w, q.head, e) ->
             LET r == RemoveItem(q, e, q.head)
             IN [q |-> [r.q EXCEPT !.head = r.top], found |-> r.found]
      [] OTHER ->
             LET prev == LastBefore(q, w, e, q.head)
                 curr == q.nextBin[prev]
             IN IF curr = Null \/ ~Same(w, curr, e) THEN [q |-> q, found |-> FALSE]
                ELSE LET r == RemoveItem(q, e, curr)
                     IN [q |-> [r.q EXCEPT !.nextBin[prev] = r.top], found |-> r.found]

-----------------------------------------------------------------------------
Relink(q) == head' = q.head /\ nextBin' = q.nextBin /\ nextInBin' = q.nextInBin

Init ==
    /\ head = Null
    /\ nextBin = [e \in Events |-> Null]
    /\ nextInBin = [e \in Events |-> Null]
    /\ when = [e \in Events |-> 0]
    /\ scheduled = {}
    /\ squashed = {}
    /\ curTick = 0
    /\ panic = FALSE

Schedule(e, t) ==
    /\ t >= curTick
    /\ e \notin scheduled
    /\ when' = [when EXCEPT ![e] = t]
    /\ Relink(Insert(Links, when', e))
    /\ scheduled' = scheduled \cup {e}
    /\ UNCHANGED <<squashed, curTick, panic>>

Deschedule(e) ==
    /\ e \in scheduled
    /\ LET r == RemoveEvent(Links, when, e)
       IN Relink(r.q) /\ panic' = ~r.found
    /\ scheduled' = scheduled \ {e}
    /\ squashed' = squashed \ {e}
    /\ UNCHANGED <<when, curTick>>

\* Faulty form, for checking that the properties notice: the new time is set
\* before the event is looked for.
RescheduleTimeFirst(e, t) ==
    /\ t >= curTick
    /\ e \in scheduled
    /\ when' = [when EXCEPT ![e] = t]
    /\ LET r == RemoveEvent(Links, when', e)
       IN Relink(Insert(r.q, when', e)) /\ panic' = ~r.found
    /\ squashed' = squashed \ {e}
    /\ scheduled' = scheduled \cup {e}
    /\ UNCHANGED curTick

\* reschedule() of a scheduled event; of another, with always set, it is Schedule
\* with the flag Squashed cleared.
Reschedule(e, t) ==
    /\ t >= curTick
    /\ e \in scheduled
    /\ when' = [when EXCEPT ![e] = t]
    /\ LET r == RemoveEvent(Links, when, e)
       IN Relink(Insert(r.q, when', e)) /\ panic' = ~r.found
    /\ squashed' = squashed \ {e}
    /\ scheduled' = scheduled \cup {e}
    /\ UNCHANGED curTick

Squash(e) ==
    /\ e \in scheduled \ squashed
    /\ squashed' = squashed \cup {e}
    /\ UNCHANGED <<head, nextBin, nextInBin, when, scheduled, curTick, panic>>

\* serviceOne.  What process() does to the queue are further actions.
ServiceOne ==
    /\ head # Null
    /\ LET next == nextInBin[head]
       IN IF next # Null
          THEN /\ nextBin' = [nextBin EXCEPT ![next] = nextBin[head]]
               /\ head' = next
          ELSE /\ nextBin' = nextBin
               /\ head' = nextBin[head]
    /\ scheduled' = scheduled \ {head}
    /\ squashed' = squashed \ {head}
    /\ curTick' = IF head \in squashed THEN curTick ELSE when[head]
    /\ UNCHANGED <<nextInBin, when, panic>>

\* The end of serviceEvents(t): no event is due.
ServiceEventsEnd(t) ==
    /\ t > curTick
    /\ \A e \in {head} \ {Null} : when[e] > t
    /\ curTick' = t
    /\ UNCHANGED <<head, nextBin, nextInBin, when, scheduled, squashed, panic>>

Next ==
    \/ \E e \in Events, t \in 0..MaxTick : Schedule(e, t)
    \/ \E e \in Events, t \in 0..MaxTick : Reschedule(e, t)
    \/ \E e \in Events : Deschedule(e)
    \/ \E e \in Events : Squash(e)
    \/ ServiceOne
    \/ \E t \in 0..MaxTick : ServiceEventsEnd(t)

Spec == Init /\ [][Next]_vars
-----------------------------------------------------------------------------
(* Properties. *)

\* The first n events below e in its bin, e first; and the first n bins from top.
RECURSIVE BinOf(_, _)
BinOf(e, n) ==
    IF e = Null \/ n = 0 THEN <<>> ELSE <<e>> \o BinOf(nextInBin[e], n - 1)

RECURSIVE Tops(_, _)
Tops(top, n) ==
    IF top = Null \/ n = 0 THEN <<>> ELSE <<top>> \o Tops(nextBin[top], n - 1)

Enough == Cardinality(Events) + 1

\* The events in the order in which the links give them.
Listed == FlattenSeq([i \in DOMAIN Tops(head, Enough) |->
                         BinOf(Tops(head, Enough)[i], Enough)])

(* What debugVerify() tests, and that nothing is lost: following the links  *)
(* from head meets every scheduled event once and no other, times and       *)
(* priorities ascend from bin to bin and are equal in a bin, remove() never *)
(* panics, and the next event is not in the past, which simulate() asserts  *)
(* before it services one.                                                  *)
QueueIsWellFormed ==
    LET tops == Tops(head, Enough)
    IN /\ Len(Listed) = Cardinality(scheduled)
       /\ Range(Listed) = scheduled
       /\ \A i, j \in DOMAIN tops : i < j => Less(when, tops[i], tops[j])
       /\ \A top \in Range(tops) :
             \A e \in Range(BinOf(top, Enough)) : Same(when, top, e)
       /\ ~panic
       /\ head # Null => curTick <= when[head]

\* e is above f when it is met first on the way down their bin.
Order == INSTANCE EventOrder WITH
    Ticks <- 0..MaxTick,
    pending <- scheduled,
    above <- {x \in scheduled \X scheduled :
                 x[2] \in Range(Tail(BinOf(x[1], Enough)))}

(* The linked bins are an event queue in the sense of EventOrder: what is   *)
(* serviced is the least event by time and priority, the latest one first.  *)
ServicedInOrder == Order!Spec
=============================================================================
