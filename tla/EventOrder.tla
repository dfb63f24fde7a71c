----------------------------- MODULE EventOrder -----------------------------
(***************************************************************************)
(* What gem5's event queue promises: of the scheduled events, the one with *)
(* the least time and priority is serviced next, the latest scheduled one  *)
(* if there are several, and time moves to it.                             *)
(***************************************************************************)
EXTENDS Integers

CONSTANTS Events,
          priority,      \* Event::_priority, a function
          Ticks          \* the times

\* Times and priorities are numbers: the type int of the code.
Numbers == Ticks \subseteq Int /\ 0 \in Ticks /\ priority \in [Events -> Int]

VARIABLES
    pending,             \* the scheduled events
    squashed,            \* those of them that will be dropped when their turn comes
    when,                \* Event::_when
    above,               \* <<e, f>>: e and f have the same time and priority, e came later
    curTick

vars == <<pending, squashed, when, above, curTick>>

SameKey(w, e, f) == w[e] = w[f] /\ priority[e] = priority[f]

Before(w, e, f) == w[e] < w[f] \/ (w[e] = w[f] /\ priority[e] < priority[f])

\* e goes before f.
Precedes(e, f) == Before(when, e, f) \/ <<e, f>> \in above

Without(e) == {x \in above : e \notin {x[1], x[2]}}

Init ==
    /\ pending = {}
    /\ squashed = {}
    /\ when \in [Events -> {0}]
    /\ above = {}
    /\ curTick = 0

\* Scheduling an event, for the first time or again.
Put(e, t) ==
    /\ t >= curTick
    /\ when' = [when EXCEPT ![e] = t]
    /\ pending' = pending \cup {e}
    /\ above' = Without(e) \cup ({e} \X {f \in pending \ {e} : SameKey(when', e, f)})
    /\ squashed' = squashed \ {e}
    /\ UNCHANGED curTick

Deschedule(e) ==
    /\ e \in pending
    /\ pending' = pending \ {e}
    /\ squashed' = squashed \ {e}
    /\ above' = Without(e)
    /\ UNCHANGED <<when, curTick>>

Squash(e) ==
    /\ e \in pending
    /\ squashed' = squashed \cup {e}
    /\ UNCHANGED <<pending, when, above, curTick>>

Service(e) ==
    /\ e \in pending
    /\ \A f \in pending \ {e} : Precedes(e, f)
    /\ pending' = pending \ {e}
    /\ squashed' = squashed \ {e}
    /\ above' = Without(e)
    /\ curTick' = IF e \in squashed THEN curTick ELSE when[e]
    /\ UNCHANGED when

\* Time passes without an event.
Idle(t) ==
    /\ t >= curTick
    /\ \A e \in pending : when[e] > t
    /\ curTick' = t
    /\ UNCHANGED <<pending, squashed, when, above>>

Next ==
    \/ \E e \in Events, t \in Ticks : Put(e, t)
    \/ \E e \in Events : Deschedule(e) \/ Squash(e) \/ Service(e)
    \/ \E t \in Ticks : Idle(t)

Spec == Init /\ [][Next]_vars
=============================================================================
