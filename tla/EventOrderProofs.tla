-------------------------- MODULE EventOrderProofs --------------------------
(***************************************************************************)
(* What follows from the promise of the event queue, for any events, times *)
(* and priorities.                                                         *)
(***************************************************************************)
EXTENDS EventOrder, TLAPS

TypeOK ==
    /\ pending \subseteq Events
    /\ squashed \subseteq pending
    /\ when \in [Events -> Ticks]
    /\ above \subseteq pending \X pending
    /\ curTick \in Ticks

\* above orders the events of equal time and priority, and only them.
AboveIsOrder ==
    /\ \A e, f \in pending :
          /\ <<e, f>> \in above => e # f /\ SameKey(when, e, f) /\ <<f, e>> \notin above
          /\ e # f /\ SameKey(when, e, f) => <<e, f>> \in above \/ <<f, e>> \in above
    /\ \A e, f, g \in pending :
          <<e, f>> \in above /\ <<f, g>> \in above => <<e, g>> \in above

\* No scheduled event is in the past.
NothingIsPast == \A e \in pending : when[e] >= curTick

Inv == TypeOK /\ AboveIsOrder /\ NothingIsPast

\* The scheduled events are in one strict total order, in which they are serviced.
TotalOrder ==
    /\ \A e \in pending : ~Precedes(e, e)
    /\ \A e, f \in pending : e # f => Precedes(e, f) \/ Precedes(f, e)
    /\ \A e, f, g \in pending : Precedes(e, f) /\ Precedes(f, g) => Precedes(e, g)

-----------------------------------------------------------------------------
\* Nothing is scheduled at the start.
LEMMA InitInv == Numbers /\ Init => Inv
BY DEF Numbers, Init, Inv, TypeOK, AboveIsOrder, NothingIsPast

\* Scheduling puts the event ahead of its equals and moves no other.
LEMMA PutInv ==
  ASSUME Numbers, Inv, NEW e \in Events, NEW t \in Ticks, Put(e, t)
  PROVE  Inv'
<1> USE DEF Numbers, Inv
<1>1. TypeOK'
  BY DEF TypeOK, Put, Without
<1>2. AboveIsOrder'
  <2>1. \A f \in pending \ {e} : when'[f] = when[f]
    BY DEF Put, TypeOK
  <2>2. \A f, g \in pending \ {e} : /\ SameKey(when', f, g) <=> SameKey(when, f, g)
                                    /\ <<f, g>> \in above' <=> <<f, g>> \in above
    BY <2>1 DEF Put, Without, SameKey
  <2>3. \A f \in pending' : /\ <<f, e>> \notin above'
                            /\ <<e, f>> \in above' <=> f # e /\ SameKey(when', e, f)
    BY DEF Put, Without
  <2>4. \A f \in pending' : f = e \/ f \in pending \ {e}
    BY DEF Put
  <2>5. \A f, g \in pending' :
           /\ <<f, g>> \in above' => f # g /\ SameKey(when', f, g) /\ <<g, f>> \notin above'
           /\ f # g /\ SameKey(when', f, g) => <<f, g>> \in above' \/ <<g, f>> \in above'
    <3> SUFFICES ASSUME NEW f \in pending', NEW g \in pending'
                 PROVE  /\ <<f, g>> \in above' => f # g /\ SameKey(when', f, g) /\ <<g, f>> \notin above'
                        /\ f # g /\ SameKey(when', f, g) => <<f, g>> \in above' \/ <<g, f>> \in above'
      OBVIOUS
    <3>1. SameKey(when', f, g) <=> SameKey(when', g, f)
      BY DEF SameKey
    <3>2. CASE f = e \/ g = e
      BY <2>3, <3>1, <3>2
    <3>3. CASE f # e /\ g # e
      BY <2>2, <2>4, <3>3 DEF AboveIsOrder
    <3> QED BY <3>2, <3>3
  <2>6. \A f, g, h \in pending' :
           <<f, g>> \in above' /\ <<g, h>> \in above' => <<f, h>> \in above'
    <3> SUFFICES ASSUME NEW f \in pending', NEW g \in pending', NEW h \in pending',
                        <<f, g>> \in above', <<g, h>> \in above'
                 PROVE  <<f, h>> \in above'
      OBVIOUS
    <3>1. g # e /\ h # e
      BY <2>3
    <3>2. CASE f = e
      <4>1. SameKey(when', e, g) /\ SameKey(when', g, h)
        BY <2>3, <2>5, <3>2
      <4> QED BY <2>3, <3>1, <3>2, <4>1 DEF SameKey
    <3>3. CASE f # e
      BY <2>2, <2>4, <3>1, <3>3 DEF AboveIsOrder
    <3> QED BY <3>2, <3>3
  <2> QED BY <2>5, <2>6 DEF AboveIsOrder
<1>3. NothingIsPast'
  BY DEF Put, NothingIsPast, TypeOK
<1> QED BY <1>1, <1>2, <1>3

\* Taking an event out leaves the others in order.
LEMMA TakenOut ==
  ASSUME Inv, NEW e \in pending, pending' = pending \ {e}, squashed' = squashed \ {e},
         above' = Without(e), when' = when
  PROVE  /\ (pending \subseteq Events /\ squashed \subseteq pending /\ when \in [Events -> Ticks])'
         /\ (above \subseteq pending \X pending)'
         /\ AboveIsOrder'
<1>1. \A f, g \in pending' : <<f, g>> \in above' <=> <<f, g>> \in above
  BY DEF Without
<1>2. AboveIsOrder'
  BY <1>1 DEF AboveIsOrder, Inv, SameKey
<1> QED BY <1>2 DEF Inv, TypeOK, Without

\* Every step keeps the invariant.
LEMMA NextInv == Numbers /\ Inv /\ [Next]_vars => Inv'
<1> SUFFICES ASSUME Numbers, Inv, [Next]_vars PROVE Inv'
  OBVIOUS
<1>1. ASSUME NEW e \in Events, NEW t \in Ticks, Put(e, t) PROVE Inv'
  BY <1>1, PutInv
<1>2. ASSUME NEW e \in Events, Deschedule(e) PROVE Inv'
  BY <1>2, TakenOut DEF Deschedule, Inv, TypeOK, NothingIsPast
<1>3. ASSUME NEW e \in Events, Squash(e) PROVE Inv'
  BY <1>3 DEF Squash, Inv, TypeOK, AboveIsOrder, NothingIsPast, SameKey
<1>4. ASSUME NEW e \in Events, Service(e) PROVE Inv'
  <2>1. e \in pending /\ curTick' \in Ticks
    BY <1>4 DEF Service, Inv, TypeOK
  <2>2. \A f \in pending \ {e} : when[f] >= when[e]
    <3> SUFFICES ASSUME NEW f \in pending \ {e} PROVE when[f] >= when[e]
      OBVIOUS
    <3>1. when[e] \in Int /\ when[f] \in Int
      BY <2>1 DEF Inv, TypeOK, Numbers
    <3>2. CASE Before(when, e, f)
      BY <3>1, <3>2 DEF Before
    <3>3. CASE <<e, f>> \in above
      <4>1. SameKey(when, e, f)
        BY <2>1, <3>3 DEF Inv, AboveIsOrder
      <4> QED BY <3>1, <4>1 DEF SameKey
    <3> QED BY <1>4, <3>2, <3>3 DEF Service, Precedes
  <2>3. NothingIsPast'
    BY <1>4, <2>1, <2>2 DEF Service, Inv, NothingIsPast, TypeOK
  <2> QED BY <1>4, <2>1, <2>3, TakenOut DEF Service, Inv, TypeOK
<1>5. ASSUME NEW t \in Ticks, Idle(t) PROVE Inv'
  <2>1. TypeOK' /\ AboveIsOrder'
    BY <1>5 DEF Idle, Inv, TypeOK, AboveIsOrder, SameKey
  <2>2. NothingIsPast'
    <3>1. \A e \in pending : when[e] \in Int /\ when[e] > t
      BY <1>5 DEF Idle, Inv, TypeOK, Numbers
    <3>2. t \in Int
      BY DEF Numbers
    <3>3. \A e \in pending : when[e] >= t
      BY <3>1, <3>2
    <3> QED BY <1>5, <3>3 DEF Idle, NothingIsPast
  <2> QED BY <2>1, <2>2 DEF Inv
<1>6. CASE UNCHANGED vars
  BY <1>6 DEF vars, Inv, TypeOK, AboveIsOrder, NothingIsPast, SameKey
<1> QED BY <1>1, <1>2, <1>3, <1>4, <1>5, <1>6 DEF Next

\* The invariant holds in every reachable state.
THEOREM InvHolds == ASSUME Numbers PROVE Spec => []Inv
<1>1. Init => Inv
  BY InitInv
<1>2. Inv /\ [Next]_vars => Inv'
  BY NextInv
<1> QED BY <1>1, <1>2, PTL DEF Spec

\* The queue determines which event is next: simulation is deterministic whatever
\* the events, their times and their priorities.
THEOREM OrderIsTotal == ASSUME Numbers PROVE Spec => []TotalOrder
<1>1. Inv => TotalOrder
  <2> SUFFICES ASSUME Inv PROVE TotalOrder
    OBVIOUS
  <2> USE DEF Inv, TypeOK, Numbers
  <2>1. \A e \in pending : when[e] \in Int /\ priority[e] \in Int
    OBVIOUS
  <2>2. \A e \in pending : ~Precedes(e, e)
    BY <2>1 DEF Precedes, Before, AboveIsOrder
  <2>3. ASSUME NEW e \in pending, NEW f \in pending, e # f
        PROVE  Precedes(e, f) \/ Precedes(f, e)
    <3>1. CASE SameKey(when, e, f)
      BY <2>3, <3>1 DEF AboveIsOrder, Precedes
    <3>2. CASE ~SameKey(when, e, f)
      <4>1. Before(when, e, f) \/ Before(when, f, e)
        BY <2>1, <3>2 DEF SameKey, Before
      <4> QED BY <4>1 DEF Precedes
    <3> QED BY <3>1, <3>2
  <2>4. ASSUME NEW e \in pending, NEW f \in pending, NEW g \in pending,
               Precedes(e, f), Precedes(f, g)
        PROVE  Precedes(e, g)
    <3>1. /\ Before(when, e, f) \/ (<<e, f>> \in above /\ SameKey(when, e, f))
          /\ Before(when, f, g) \/ (<<f, g>> \in above /\ SameKey(when, f, g))
      BY <2>4 DEF Precedes, AboveIsOrder
    <3>2. CASE <<e, f>> \in above /\ <<f, g>> \in above
      BY <3>2 DEF AboveIsOrder, Precedes
    <3>3. CASE Before(when, e, f) \/ Before(when, f, g)
      <4>1. Before(when, e, g)
        BY <2>1, <3>1, <3>3 DEF Before, SameKey
      <4> QED BY <4>1 DEF Precedes
    <3> QED BY <3>1, <3>2, <3>3
  <2> QED BY <2>2, <2>3, <2>4 DEF TotalOrder
<1>2. Spec => []Inv
  BY InvHolds
<1> QED BY <1>1, <1>2, PTL

\* Time never goes backwards, which debugVerify() reports as "time goes backwards!".
THEOREM TimeMovesForward == ASSUME Numbers PROVE Spec => [][curTick' >= curTick]_vars
<1>1. Inv /\ [Next]_vars => [curTick' >= curTick]_vars
  BY DEF Inv, TypeOK, NothingIsPast, Next, Put, Deschedule, Squash, Service, Idle, vars, Numbers
<1>2. Spec => []Inv
  BY InvHolds
<1> QED BY <1>1, <1>2, PTL DEF Spec
=============================================================================
