---------------------------- MODULE LatencyProofs ----------------------------
(***************************************************************************)
(* Proofs about the latency cascade, for every graph, every slowdown and   *)
(* every depth limit.                                                      *)
(***************************************************************************)
EXTENDS LatencyCascade, CascadeRulesProofs, SequenceTheorems, FiniteSetTheorems, TLAPS

\* The response time of the slow component is a number of milliseconds.
LEMMA SlowLatencyNat ==
  ASSUME graph \in LatencyGraph, NEW s \in Component
  PROVE  SlowLatency(s) \in Nat
<1>1. graph.timeout[s] \in Nat
  BY DEF LatencyGraph
<1>2. \A n \in Nat, m \in Nat : n * m \in Nat
  OBVIOUS
<1>3. \A n \in Nat : n \div 10 \in Nat
  OBVIOUS
<1>4. graph.timeout[s] * Multiplier \in Nat
  BY <1>1, <1>2, LimitsAssumption
<1>5. QED
  BY <1>3, <1>4 DEF SlowLatency

\* The worse of two health states.
LEMMA MaxHealthCases ==
  ASSUME NEW h \in Health
  PROVE  MaxHealth("degraded", h) = IF h = "healthy" THEN "degraded" ELSE h
BY RankOrder DEF MaxHealth, Health

\* What is left when the first element is taken off a sequence.
LEMMA TailFacts ==
  ASSUME NEW S, NEW q \in Seq(S), q # << >>
  PROVE  /\ Head(q) \in S /\ Head(q) = q[1]
         /\ Tail(q) \in Seq(S)
         /\ Len(q) \in Nat \ {0} /\ Len(Tail(q)) = Len(q) - 1
         /\ \A i \in 1 .. Len(Tail(q)) : i + 1 \in 1 .. Len(q) /\ Tail(q)[i] = q[i + 1]
OBVIOUS

\* What a visit to the next dependent is about.
LEMMA VisitFacts ==
  ASSUME TypeOK, NEW d \in Component, Visiting(d)
  PROVE  /\ at \in Entry /\ at.comp \in Component
         /\ at.latency \in Nat /\ at.depth \in Nat
         /\ graph.latency[<<d, at.comp>>] \in Nat
         /\ Arriving(d) \in Nat /\ Arriving(d) >= at.latency
         /\ Tail(todo) \in Seq(Component)
         /\ \A i \in 1 .. Len(Tail(todo)) : i + 1 \in 1 .. Len(todo) /\ Tail(todo)[i] = todo[i + 1]
         /\ 1 \in 1 .. Len(todo) /\ d = todo[1]
<1>1. /\ at \in Entry /\ at.comp \in Component /\ graph \in LatencyGraph
      /\ todo \in Seq(Component) /\ todo # << >> /\ d = Head(todo)
  BY DEF TypeOK, Visiting
<1>2. at.latency \in Nat /\ at.depth \in Nat
  BY <1>1 DEF Entry
<1>3. graph.latency[<<d, at.comp>>] \in Nat
  BY <1>1 DEF LatencyGraph
<1>4. Arriving(d) \in Nat /\ Arriving(d) >= at.latency
  BY <1>2, <1>3 DEF Arriving
<1>5. QED
  BY <1>1, <1>2, <1>3, <1>4, TailFacts

\* The entry taken off the queue.
LEMMA FrontFacts ==
  ASSUME TypeOK, Popping
  PROVE  /\ Front \in Entry /\ Front.comp \in Component
         /\ Front.latency \in Nat /\ Front.depth \in Nat
         /\ Front = queue[1] /\ 1 \in 1 .. Len(queue)
         /\ Tail(queue) \in Seq(Entry)
         /\ DOMAIN Tail(queue) = 1 .. Len(Tail(queue))
         /\ DOMAIN queue = 1 .. Len(queue)
         /\ Len(queue) \in Nat /\ Len(Tail(queue)) = Len(queue) - 1
         /\ \A i \in 1 .. Len(Tail(queue)) :
              i + 1 \in 1 .. Len(queue) /\ Tail(queue)[i] = queue[i + 1]
         /\ graph.dependents[Front.comp] \in Seq(Component)
<1>1. /\ queue \in Seq(Entry) /\ queue # << >> /\ graph \in LatencyGraph
      /\ \A i \in DOMAIN queue : queue[i].comp \in Component
  BY DEF TypeOK, Popping
<1>2. /\ Front \in Entry /\ Front = queue[1] /\ 1 \in 1 .. Len(queue)
      /\ DOMAIN queue = 1 .. Len(queue)
  BY <1>1, TailFacts DEF Front
<1>3. Front.comp \in Component
  BY <1>1, <1>2
<1>4. graph.dependents[Front.comp] \in Seq(Component)
  BY <1>1, <1>3 DEF LatencyGraph
<1>5. Front.latency \in Nat /\ Front.depth \in Nat
  BY <1>2 DEF Entry
<1>6. DOMAIN Tail(queue) = 1 .. Len(Tail(queue))
  BY <1>1
<1>7. QED
  BY <1>1, <1>2, <1>3, <1>4, <1>5, <1>6, TailFacts

\* The queue with an entry added.
LEMMA QueuedFacts ==
  ASSUME queue \in Seq(Entry), NEW e \in Entry
  PROVE  /\ Append(queue, e) \in Seq(Entry)
         /\ Len(queue) \in Nat
         /\ Len(Append(queue, e)) = Len(queue) + 1
         /\ DOMAIN queue = 1 .. Len(queue)
         /\ DOMAIN Append(queue, e) = 1 .. Len(queue) + 1
         /\ \A i \in 1 .. Len(queue) : Append(queue, e)[i] = queue[i]
         /\ Append(queue, e)[Len(queue) + 1] = e
OBVIOUS

-----------------------------------------------------------------------------
\* The initial states are well typed, and every step keeps them so.
LEMMA TypeInit == Init => TypeOK
<1>1. \A g \in Graphs : g \in LatencyGraph
  BY GraphsAssumption
<1>2. NoEffect \in Effect
  BY DEF NoEffect, Effect, Health
<1>3. [comp |-> Unknown, latency |-> 0, depth |-> 0] \in Entry
  BY DEF Entry
<1>4. QED
  BY <1>1, <1>2, <1>3 DEF Init, TypeOK

LEMMA TypeStep == TypeOK /\ [Next]_vars => TypeOK'
<1> SUFFICES ASSUME TypeOK, [Next]_vars PROVE TypeOK'
  OBVIOUS
<1>1. ASSUME NEW s \in Slow, Start(s) PROVE TypeOK'
  <2>1. s \in Component /\ SlowLatency(s) \in Nat
    BY <1>1, SlowLatencyNat DEF Start, TypeOK
  <2>2. [health |-> "degraded", latency |-> SlowLatency(s)] \in Effect
    BY <2>1 DEF Effect, Health
  <2>3. [comp |-> s, latency |-> SlowLatency(s), depth |-> 0] \in Entry
    BY <2>1 DEF Entry
  <2>4. graph.dependents[s] \in Seq(Component)
    BY <2>1 DEF TypeOK, LatencyGraph
  <2>5. QED
    BY <1>1, <2>1, <2>2, <2>3, <2>4 DEF Start, TypeOK
<1>2. ASSUME NEW s \in Slow, StartUnknown(s) PROVE TypeOK'
  BY <1>2 DEF StartUnknown, TypeOK
<1>3. ASSUME NEW d \in Component, PassOver(d) PROVE TypeOK'
  BY <1>3, VisitFacts DEF PassOver, TypeOK
<1>4. ASSUME NEW d \in Component, Trip(d) PROVE TypeOK'
  <2>1. effects[d] \in Effect /\ effects[d].health \in Health
    BY DEF TypeOK, Effect
  <2>2. MaxHealth("degraded", effects[d].health) \in Health
    BY <2>1, MaxHealthCases DEF Health
  <2>3. [health |-> MaxHealth("degraded", effects[d].health),
         latency |-> Arriving(d)] \in Effect
    BY <1>4, <2>2, VisitFacts DEF Trip, Effect
  <2>4. QED
    BY <1>4, <2>3, VisitFacts DEF Trip, TypeOK
<1>5. ASSUME NEW d \in Component, Wait(d) PROVE TypeOK'
  <2> DEFINE e == [comp |-> d, latency |-> Arriving(d), depth |-> at.depth + 1]
  <2>1. e \in Entry /\ e.comp \in Component
    <3>1. Visiting(d)
      BY <1>5 DEF Wait
    <3>2. Arriving(d) \in Nat /\ at.depth \in Nat
      BY <3>1, VisitFacts
    <3>3. at.depth + 1 \in Nat
      BY <3>2
    <3>4. QED
      BY <3>2, <3>3 DEF Entry
  <2> HIDE DEF e
  <2>2. queue' = Append(queue, e) /\ queue \in Seq(Entry)
    BY <1>5 DEF Wait, TypeOK, e
  <2>3. queue' \in Seq(Entry)
    BY <2>1, <2>2, QueuedFacts
  <2>4. ASSUME NEW i \in DOMAIN queue' PROVE queue'[i].comp \in Component
    <3>1. i \in 1 .. Len(queue) \/ i = Len(queue) + 1
      BY <2>1, <2>2, QueuedFacts
    <3>2. QED
      BY <2>1, <2>2, <3>1, QueuedFacts DEF TypeOK
  <2>5. QED
    BY <1>5, <2>3, <2>4, VisitFacts DEF Wait, TypeOK
<1>6. ASSUME Drop \/ Tolerate PROVE TypeOK'
  <2>1. Popping /\ queue' = Tail(queue) /\ UNCHANGED <<graph, slow, worst, effects, at, todo, phase>>
    BY <1>6 DEF Drop, Tolerate
  <2>2. queue' \in Seq(Entry) /\ \A i \in DOMAIN queue' : queue'[i].comp \in Component
    BY <2>1, FrontFacts DEF TypeOK
  <2>3. QED
    BY <2>1, <2>2 DEF TypeOK
<1>7. CASE Expand
  <2>1. Popping /\ queue' = Tail(queue) /\ UNCHANGED <<graph, slow, worst, phase>>
    BY <1>7 DEF Expand
  <2>2. queue' \in Seq(Entry) /\ \A i \in DOMAIN queue' : queue'[i].comp \in Component
    BY <2>1, FrontFacts DEF TypeOK
  <2>3. [health |-> IF TimedOut(Front) THEN "down" ELSE "degraded",
         latency |-> Front.latency] \in Effect
    BY <2>1, FrontFacts DEF Effect, Health
  <2>4. effects' \in [Component -> Effect]
    BY <1>7, <2>3 DEF Expand, TypeOK
  <2>5. at' = Front /\ todo' = graph.dependents[Front.comp]
    BY <1>7 DEF Expand
  <2>6. QED
    BY <2>1, <2>2, <2>4, <2>5, FrontFacts DEF TypeOK
<1>8. CASE Finish
  BY <1>8 DEF Finish, TypeOK
<1>9. CASE Terminated \/ UNCHANGED vars
  BY <1>9 DEF Terminated, vars, TypeOK
<1>10. QED
  BY <1>1, <1>2, <1>3, <1>4, <1>5, <1>6, <1>7, <1>8, <1>9 DEF Next, Simulate

\* Type correctness: every variable keeps its type.
THEOREM TypeCorrect == Spec => []TypeOK
BY TypeInit, TypeStep, PTL DEF Spec

-----------------------------------------------------------------------------
(***************************************************************************)
(* The inductive invariant.  Started ties the phase to the other           *)
(* variables.  Late says how the latencies recorded relate: nothing        *)
(* arrives before the latency of the slow component, and no effect is      *)
(* reported later than its component has been reached.  Waiting says why   *)
(* a component is in the loop or in the queue: it depends on a failing     *)
(* one, and if it times out then through an edge without a breaker.        *)
(***************************************************************************)
Started ==
  /\ phase = "idle" => slow = Unknown
  /\ IF slow \in Component
     THEN at.comp \in Component /\ effects[slow].health # "healthy"
     ELSE /\ queue = << >> /\ todo = << >>
          /\ effects = [c \in Component |-> NoEffect]
          /\ worst = [c \in Component |-> -1]

Late ==
  slow \in Component =>
    /\ at.latency >= SlowLatency(slow)
    /\ \A i \in 1 .. Len(queue) : queue[i].latency >= SlowLatency(slow)
    /\ \A c \in Component :
         \/ effects[c] = NoEffect
         \/ effects[c].latency <= worst[c]
         \/ c = slow /\ effects[c].latency = SlowLatency(slow)

Depends(d, u) == \E i \in 1 .. Len(graph.dependents[u]) : graph.dependents[u][i] = d

WaitsFor(e, u) ==
  /\ effects[u].health # "healthy"
  /\ Depends(e.comp, u)
  /\ TimedOut(e) => <<e.comp, u>> \notin graph.breakers

Waiting ==
  /\ slow \in Component => effects[at.comp].health # "healthy"
  /\ \A i \in 1 .. Len(todo) : Depends(todo[i], at.comp)
  /\ \A i \in 1 .. Len(queue) : \E u \in Component : WaitsFor(queue[i], u)

LInv == /\ TypeOK
        /\ Started
        /\ Late
        /\ Waiting
        /\ QueueOrdered
        /\ ReportsJustified
        /\ BreakersContain

\* An entry tolerated, near its timeout or timed out, in numbers.
LEMMA Tolerance ==
  ASSUME graph \in LatencyGraph, NEW e \in Entry, e.comp \in Component
  PROVE  /\ graph.timeout[e.comp] \in Nat /\ e.latency \in Nat
         /\ TimedOut(e) => NearTimeout(e)
BY DEF LatencyGraph, Entry, TimedOut, NearTimeout

-----------------------------------------------------------------------------
\* The steps that report nothing: what a report says stays as it was.
LEMMA SameReports ==
  ASSUME LInv, UNCHANGED <<graph, slow, effects>>,
         \A c \in Component : worst'[c] >= worst[c],
         worst' \in [Component -> Nat \cup {-1}]
  PROVE  ReportsJustified' /\ BreakersContain'
<1>1. /\ effects \in [Component -> Effect] /\ worst \in [Component -> Nat \cup {-1}]
      /\ ReportsJustified /\ BreakersContain
  BY DEF LInv, TypeOK
<1>2. BreakersContain'
  BY <1>1 DEF BreakersContain
<1>3. ASSUME NEW c \in Component
      PROVE  /\ effects'[c].health \in {"healthy", "degraded", "down"}
             /\ effects'[c].health = "down" => TimedOut(Reported(c))'
             /\ effects'[c].health # "healthy" /\ c # slow' =>
                  NearTimeout(Reported(c))' /\ effects'[c].latency <= worst'[c]
  <2>1. /\ effects[c] \in Effect /\ effects[c].latency \in Nat
        /\ worst[c] \in Int /\ worst'[c] \in Int /\ worst'[c] >= worst[c]
    BY <1>1 DEF Effect
  <2>2. /\ TimedOut(Reported(c))' <=> TimedOut(Reported(c))
        /\ NearTimeout(Reported(c))' <=> NearTimeout(Reported(c))
    BY DEF TimedOut, NearTimeout, Reported
  <2>3. QED
    BY <1>1, <2>1, <2>2 DEF ReportsJustified
<1>4. QED
  BY <1>2, <1>3 DEF ReportsJustified

(***************************************************************************)
(* A new report on c that is justified, contained, and no better than the  *)
(* one before keeps all the reports so.                                    *)
(***************************************************************************)
Justified(c, r) ==
  LET e == [comp |-> c, latency |-> r.latency, depth |-> 0]
  IN  /\ r.health \in {"degraded", "down"}
      /\ r.health = "down" => TimedOut(e)
      /\ NearTimeout(e)

Unprotected(c) ==
  \E u \in Component : /\ effects[u].health # "healthy"
                       /\ Depends(c, u)
                       /\ <<c, u>> \notin graph.breakers

LEMMA NewReport ==
  ASSUME LInv, UNCHANGED <<graph, slow>>, NEW c \in Component, NEW r \in Effect,
         effects' = [effects EXCEPT ![c] = r],
         worst' \in [Component -> Nat \cup {-1}],
         \A d \in Component : worst'[d] >= worst[d],
         r.latency <= worst'[c],
         Justified(c, r),
         r.health = "down" => Unprotected(c)
  PROVE  ReportsJustified' /\ BreakersContain'
<1>1. /\ effects \in [Component -> Effect] /\ worst \in [Component -> Nat \cup {-1}]
      /\ ReportsJustified /\ BreakersContain /\ graph \in LatencyGraph
  BY DEF LInv, TypeOK
<1>2. r.health # "healthy" /\ r.health \in {"degraded", "down"}
  BY DEF Justified
<1>3. \A d \in Component : effects'[d] = IF d = c THEN r ELSE effects[d]
  BY <1>1
<1>4. ASSUME NEW d \in Component
      PROVE  /\ effects'[d].health \in {"healthy", "degraded", "down"}
             /\ effects'[d].health = "down" => TimedOut(Reported(d))'
             /\ effects'[d].health # "healthy" /\ d # slow' =>
                  NearTimeout(Reported(d))' /\ effects'[d].latency <= worst'[d]
  <2>1. CASE d = c
    <3>1. effects'[d] = r
      BY <1>3, <2>1
    <3>2. /\ TimedOut(Reported(d))' <=> TimedOut([comp |-> c, latency |-> r.latency, depth |-> 0])
          /\ NearTimeout(Reported(d))' <=> NearTimeout([comp |-> c, latency |-> r.latency, depth |-> 0])
      BY <2>1, <3>1 DEF TimedOut, NearTimeout, Reported
    <3>3. QED
      BY <2>1, <3>1, <3>2 DEF Justified
  <2>2. CASE d # c
    <3>1. effects'[d] = effects[d]
      BY <1>3, <2>2
    <3>2. /\ effects[d].latency \in Nat
          /\ worst[d] \in Int /\ worst'[d] \in Int /\ worst'[d] >= worst[d]
      BY <1>1 DEF Effect
    <3>3. /\ TimedOut(Reported(d))' <=> TimedOut(Reported(d))
          /\ NearTimeout(Reported(d))' <=> NearTimeout(Reported(d))
      BY <3>1 DEF TimedOut, NearTimeout, Reported
    <3>4. QED
      BY <1>1, <3>1, <3>2, <3>3 DEF ReportsJustified
  <2>3. QED
    BY <2>1, <2>2
<1>5. ASSUME NEW d \in Component, effects'[d].health = "down"
      PROVE  \E u \in Component :
               /\ effects'[u].health # "healthy"
               /\ Depends(d, u)
               /\ <<d, u>> \notin graph.breakers
  <2>1. Unprotected(d)
    <3>1. CASE d = c
      BY <1>3, <1>5, <3>1
    <3>2. CASE d # c
      <4>1. effects[d].health = "down"
        BY <1>3, <1>5, <3>2
      <4>2. PICK u \in Component :
              /\ effects[u].health # "healthy"
              /\ \E i \in DOMAIN graph.dependents[u] : graph.dependents[u][i] = d
              /\ <<d, u>> \notin graph.breakers
        BY <1>1, <4>1 DEF BreakersContain
      <4>3. DOMAIN graph.dependents[u] = 1 .. Len(graph.dependents[u])
        BY <1>1 DEF LatencyGraph
      <4>4. QED
        BY <4>2, <4>3 DEF Unprotected, Depends
    <3>3. QED
      BY <3>1, <3>2
  <2>2. QED
    BY <1>2, <1>3, <2>1 DEF Unprotected
<1>6. BreakersContain'
  <2>1. \A u \in Component : DOMAIN graph.dependents[u] = 1 .. Len(graph.dependents[u])
    BY <1>1 DEF LatencyGraph
  <2>2. QED
    BY <1>5, <2>1 DEF BreakersContain, Depends
<1>7. QED
  BY <1>4, <1>6 DEF ReportsJustified

-----------------------------------------------------------------------------
(***************************************************************************)
(* What every step but Wait does to the queue: its entries are among those *)
(* there were, in the order they had.  Then whatever waited still waits,   *)
(* because no failing component recovers.                                  *)
(***************************************************************************)
StillFailing ==
  \A u \in Component : effects[u].health # "healthy" => effects'[u].health # "healthy"

Kept == \/ queue' = queue
        \/ Popping /\ queue' = Tail(queue)

LEMMA KeptEntries ==
  ASSUME LInv, Kept
  PROVE  /\ DOMAIN queue' = 1 .. Len(queue')
         /\ \A i \in 1 .. Len(queue') :
              \E k \in 1 .. Len(queue) : queue'[i] = queue[k] /\ queue'[i] \in Entry
<1>1. TypeOK /\ queue \in Seq(Entry)
  BY DEF LInv, TypeOK
<1>2. CASE queue' = queue
  BY <1>1, <1>2
<1>3. CASE Popping /\ queue' = Tail(queue)
  <2>1. \A i \in 1 .. Len(Tail(queue)) : queue[i + 1] \in Entry
    BY <1>1, <1>3, FrontFacts
  <2>2. QED
    BY <1>1, <1>3, <2>1, FrontFacts
<1>4. QED
  BY <1>2, <1>3 DEF Kept

LEMMA KeptWaiting ==
  ASSUME LInv, Kept, StillFailing, UNCHANGED graph
  PROVE  \A i \in 1 .. Len(queue') : \E u \in Component : WaitsFor(queue[i], u)'
<1> SUFFICES ASSUME NEW i \in 1 .. Len(queue')
             PROVE  \E u \in Component : WaitsFor(queue[i], u)'
  OBVIOUS
<1>1. PICK k \in 1 .. Len(queue) : queue'[i] = queue[k]
  BY KeptEntries
<1>2. PICK u \in Component : WaitsFor(queue[k], u)
  BY DEF LInv, Waiting
<1>3. WaitsFor(queue[i], u)'
  BY <1>1, <1>2 DEF WaitsFor, StillFailing, Depends, TimedOut
<1>4. QED
  BY <1>3

\* The order of the queue, when its first entry may have become the one expanded.
LEMMA KeptOrder ==
  ASSUME LInv, Kept, worst' \in [Component -> Nat \cup {-1}],
         \A c \in Component : worst'[c] >= worst[c],
         at' = at \/ (Popping /\ queue' = Tail(queue) /\ at' = Front)
  PROVE  QueueOrdered'
<1>1. /\ TypeOK /\ queue \in Seq(Entry) /\ QueueOrdered /\ at \in Entry
      /\ worst \in [Component -> Nat \cup {-1}]
      /\ DOMAIN queue = 1 .. Len(queue) /\ Len(queue) \in Nat
      /\ \A i \in 1 .. Len(queue) : queue[i] \in Entry /\ queue[i].comp \in Component
  BY DEF LInv, TypeOK
<1>2. \A i \in 1 .. Len(queue) :
        /\ queue[i].latency \in Nat /\ queue[i].depth \in Nat
        /\ worst[queue[i].comp] \in Int /\ worst'[queue[i].comp] \in Int
        /\ worst'[queue[i].comp] >= queue[i].latency
  <2> SUFFICES ASSUME NEW i \in 1 .. Len(queue)
               PROVE  /\ queue[i].latency \in Nat /\ queue[i].depth \in Nat
                      /\ worst[queue[i].comp] \in Int /\ worst'[queue[i].comp] \in Int
                      /\ worst'[queue[i].comp] >= queue[i].latency
    OBVIOUS
  <2>1. queue[i].latency \in Nat /\ queue[i].depth \in Nat
    BY <1>1 DEF Entry
  <2>2. worst[queue[i].comp] \in Int /\ worst'[queue[i].comp] \in Int
    BY <1>1
  <2>3. queue[i].latency <= worst[queue[i].comp]
    BY <1>1 DEF QueueOrdered
  <2>4. QED
    BY <1>1, <2>1, <2>2, <2>3
<1>3. CASE queue' = queue
  <2>1. at' = at
    <3>1. ASSUME Popping, queue' = Tail(queue) PROVE FALSE
      BY <1>1, <1>3, <3>1, FrontFacts
    <3>2. QED
      BY <3>1
  <2>2. QED
    BY <1>1, <1>2, <1>3, <2>1 DEF QueueOrdered
<1>4. CASE Popping /\ queue' = Tail(queue)
  <2>1. /\ DOMAIN queue' = 1 .. Len(queue') /\ Len(queue') = Len(queue) - 1
        /\ \A i \in 1 .. Len(queue') : i + 1 \in 1 .. Len(queue) /\ queue'[i] = queue[i + 1]
        /\ 1 \in 1 .. Len(queue) /\ Front = queue[1]
    BY <1>1, <1>4, FrontFacts
  <2>2. at.depth \in Nat
    BY <1>1 DEF Entry
  <2>3. \A i \in 1 .. Len(queue) : queue[i].depth \in {at.depth, at.depth + 1}
    BY <1>1 DEF QueueOrdered
  <2>4. \A i \in 2 .. Len(queue) : queue[1].depth <= queue[i].depth
    <3>1. 1 \in DOMAIN queue
      BY <1>1, <2>1
    <3>2. \A i \in 1 + 1 .. Len(queue) : queue[1].depth <= queue[i].depth
      BY <1>1, <3>1 DEF QueueOrdered
    <3>3. QED
      BY <3>2
  <2>5. ASSUME NEW i \in 1 .. Len(queue')
        PROVE  /\ queue'[i].latency <= worst'[queue'[i].comp]
               /\ queue'[i].depth \in {at'.depth, at'.depth + 1}
    <3>1. i + 1 \in 2 .. Len(queue) /\ queue'[i] = queue[i + 1] /\ i + 1 \in 1 .. Len(queue)
      BY <1>1, <2>1
    <3>2. queue[i + 1].latency <= worst'[queue[i + 1].comp]
      BY <1>2, <3>1
    <3>3. queue[i + 1].depth \in {at'.depth, at'.depth + 1}
      <4>1. queue[i + 1].depth \in Nat /\ queue[1].depth \in Nat
        BY <1>2, <2>1, <3>1
      <4>2. queue[i + 1].depth >= queue[1].depth
        BY <2>4, <3>1, <4>1
      <4>3. QED
        BY <2>1, <2>2, <2>3, <3>1, <4>1, <4>2
    <3>4. QED
      BY <3>1, <3>2, <3>3
  <2>6. ASSUME NEW i \in 1 .. Len(queue'), NEW j \in i + 1 .. Len(queue')
        PROVE  /\ queue'[i].depth <= queue'[j].depth
               /\ queue'[i].comp = queue'[j].comp => queue'[i].latency < queue'[j].latency
    <3>1. /\ i + 1 \in 1 .. Len(queue) /\ j + 1 \in (i + 1) + 1 .. Len(queue)
          /\ queue'[i] = queue[i + 1] /\ queue'[j] = queue[j + 1]
      BY <1>1, <2>1
    <3>2. QED
      BY <1>1, <3>1 DEF QueueOrdered
  <2>7. QED
    BY <2>1, <2>5, <2>6 DEF QueueOrdered
<1>5. QED
  BY <1>3, <1>4 DEF Kept

-----------------------------------------------------------------------------
\* A component visited waits for the one being expanded.
LEMMA Visited ==
  ASSUME LInv, NEW d \in Component, Visiting(d)
  PROVE  /\ slow \in Component /\ at.comp \in Component
         /\ Depends(d, at.comp)
         /\ effects[at.comp].health # "healthy"
         /\ \A i \in 1 .. Len(Tail(todo)) : Depends(Tail(todo)[i], at.comp)
<1>1. /\ TypeOK /\ Waiting /\ slow \in Component
      /\ \A i \in 1 .. Len(todo) : Depends(todo[i], at.comp)
      /\ effects[at.comp].health # "healthy"
  BY DEF LInv, Waiting, Visiting, TypeOK
<1>2. QED
  BY <1>1, VisitFacts

\* Nothing is reported below the latency of the slow component.
LEMMA LateFacts ==
  ASSUME LInv, slow \in Component
  PROVE  /\ SlowLatency(slow) \in Nat
         /\ at.latency \in Nat /\ at.latency >= SlowLatency(slow)
         /\ \A i \in 1 .. Len(queue) : /\ queue[i].latency \in Nat
                                       /\ queue[i].latency >= SlowLatency(slow)
<1>1. /\ TypeOK /\ Late /\ graph \in LatencyGraph /\ at \in Entry
      /\ queue \in Seq(Entry)
  BY DEF LInv, TypeOK
<1>2. \A i \in 1 .. Len(queue) : queue[i] \in Entry
  BY <1>1
<1>3. QED
  BY <1>1, <1>2, SlowLatencyNat DEF Late, Entry

LEMMA LInvStart ==
  ASSUME LInv, TypeOK', NEW s \in Slow, Start(s)
  PROVE  LInv'
<1>1. /\ slow = Unknown /\ slow \notin Component /\ s \in Component
      /\ slow' = s /\ graph' = graph /\ queue' = << >> /\ worst' = [worst EXCEPT ![s] = 0]
      /\ at' = [comp |-> s, latency |-> SlowLatency(s), depth |-> 0]
      /\ todo' = graph.dependents[s] /\ phase' = "running"
      /\ effects = [c \in Component |-> NoEffect]
      /\ effects' = [effects EXCEPT ![s] = [health |-> "degraded", latency |-> SlowLatency(s)]]
  BY UnknownAssumption DEF Start, LInv, Started
<1>2. SlowLatency(s) \in Nat /\ SlowLatency(s)' = SlowLatency(s) /\ SlowLatency(slow)' = SlowLatency(s)
  BY <1>1, SlowLatencyNat DEF LInv, TypeOK, SlowLatency
<1>3. \A c \in Component :
        effects'[c] = IF c = s THEN [health |-> "degraded", latency |-> SlowLatency(s)]
                      ELSE NoEffect
  BY <1>1
<1>4. effects'[s].health = "degraded" /\ \A c \in Component \ {s} : effects'[c].health = "healthy"
  BY <1>1, <1>3 DEF NoEffect
<1>5. Started'
  BY <1>1, <1>4 DEF Started
<1>6. Late'
  <2>1. at'.latency >= SlowLatency(slow)' /\ Len(queue') = 0
    BY <1>1, <1>2
  <2>2. \A c \in Component : \/ effects'[c] = NoEffect
                             \/ c = slow' /\ effects'[c].latency = SlowLatency(slow)'
    BY <1>1, <1>2, <1>3
  <2>3. QED
    BY <2>1, <2>2 DEF Late
<1>7. Waiting'
  <2>1. at'.comp = s /\ Len(queue') = 0
    BY <1>1
  <2>2. \A i \in 1 .. Len(todo') : Depends(todo[i], at.comp)'
    BY <1>1, <2>1 DEF Depends
  <2>3. QED
    BY <1>4, <2>1, <2>2 DEF Waiting
<1>8. QueueOrdered'
  BY <1>1 DEF QueueOrdered
<1>9. ReportsJustified' /\ BreakersContain'
  BY <1>1, <1>4 DEF ReportsJustified, BreakersContain
<1>10. QED
  BY <1>5, <1>6, <1>7, <1>8, <1>9 DEF LInv

(***************************************************************************)
(* The steps that only move on: nothing new is reported, and nothing is    *)
(* added to the queue or to the dependents left.                           *)
(***************************************************************************)
LEMMA LInvMoveOn ==
  ASSUME LInv, TypeOK', Kept, UNCHANGED <<graph, slow, worst, effects, at>>,
         phase = "idle" => slow' \notin Component,
         phase' # "idle",
         todo' = todo \/ (phase = "running" /\ todo # << >> /\ todo' = Tail(todo))
  PROVE  LInv'
<1>1. /\ TypeOK /\ Started /\ Late /\ Waiting
      /\ todo \in Seq(Component) /\ Len(todo) \in Nat
      /\ worst \in [Component -> Nat \cup {-1}]
      /\ \A c \in Component : worst'[c] >= worst[c]
  BY DEF LInv, TypeOK
<1>2. QueueOrdered'
  BY <1>1, KeptOrder
<1>3. ReportsJustified' /\ BreakersContain'
  BY <1>1, SameReports
<1>4. Started'
  <2>1. slow \notin Component => queue' = << >> /\ todo' = << >>
    <3>1. ASSUME slow \notin Component PROVE queue' = << >> /\ todo' = << >>
      <4>1. queue = << >> /\ todo = << >>
        BY <1>1, <3>1 DEF Started
      <4>2. QED
        BY <4>1 DEF Kept, Popping
    <3>2. QED
      BY <3>1
  <2>2. QED
    BY <1>1, <2>1 DEF Started
<1>5. Late'
  <2>1. ASSUME slow \in Component
        PROVE  \A i \in 1 .. Len(queue') : queue'[i].latency >= SlowLatency(slow)
    BY <2>1, KeptEntries, LateFacts
  <2>2. SlowLatency(slow)' = SlowLatency(slow)
    BY DEF SlowLatency
  <2>3. QED
    BY <1>1, <2>1, <2>2 DEF Late
<1>6. Waiting'
  <2>1. StillFailing /\ graph' = graph
    BY DEF StillFailing
  <2>2. \A i \in 1 .. Len(queue') : \E u \in Component : WaitsFor(queue[i], u)'
    BY <2>1, KeptWaiting
  <2>3. \A i \in 1 .. Len(todo') : Depends(todo'[i], at.comp)
    BY <1>1, TailFacts DEF Waiting
  <2>4. \A i \in 1 .. Len(todo') : Depends(todo[i], at.comp)'
    BY <2>3 DEF Depends
  <2>5. QED
    BY <1>1, <2>2, <2>4 DEF Waiting
<1>7. QED
  BY <1>2, <1>3, <1>4, <1>5, <1>6 DEF LInv

(***************************************************************************)
(* The latency that trips a breaker justifies the report; a component that *)
(* is down already stays so for the reason it had.                         *)
(***************************************************************************)
LEMMA LInvTrip ==
  ASSUME LInv, TypeOK', NEW d \in Component, Trip(d)
  PROVE  LInv'
<1> DEFINE r == [health |-> MaxHealth("degraded", effects[d].health), latency |-> Arriving(d)]
<1>1. /\ Visiting(d) /\ News(d) /\ Trips(d)
      /\ effects' = [effects EXCEPT ![d] = r]
      /\ worst' = [worst EXCEPT ![d] = Arriving(d)]
      /\ todo' = Tail(todo) /\ UNCHANGED <<graph, slow, queue, at, phase>>
  BY DEF Trip
<1>2. /\ TypeOK /\ effects \in [Component -> Effect] /\ graph \in LatencyGraph
      /\ worst \in [Component -> Nat \cup {-1}] /\ worst' \in [Component -> Nat \cup {-1}]
      /\ Started /\ Late /\ Waiting /\ ReportsJustified /\ BreakersContain
  BY DEF LInv, TypeOK
<1>3. /\ Arriving(d) \in Nat /\ Arriving(d) >= at.latency /\ at.latency \in Nat
      /\ Tail(todo) \in Seq(Component)
  BY <1>1, <1>2, VisitFacts
<1>4. effects[d].health \in {"healthy", "degraded", "down"}
  BY <1>2 DEF ReportsJustified
<1>5. r.health = IF effects[d].health = "healthy" THEN "degraded" ELSE effects[d].health
  BY <1>4, MaxHealthCases DEF Health
<1>6. r \in Effect /\ r.latency = Arriving(d)
  BY <1>3, <1>4, <1>5 DEF Effect, Health
<1> HIDE DEF r
<1>7. /\ \A c \in Component : effects'[c] = IF c = d THEN r ELSE effects[c]
      /\ \A c \in Component : worst'[c] = IF c = d THEN Arriving(d) ELSE worst[c]
  BY <1>1, <1>2
<1>8. \A c \in Component : worst'[c] >= worst[c]
  BY <1>1, <1>2, <1>3, <1>7 DEF News
<1>9. StillFailing
  BY <1>5, <1>7 DEF StillFailing
<1>10. Justified(d, r)
  <2> DEFINE e == [comp |-> d, latency |-> r.latency, depth |-> 0]
  <2>1. e \in Entry /\ e.comp = d /\ e.latency = Arriving(d)
    BY <1>3, <1>6 DEF Entry
  <2>2. TimedOut(e)
    BY <1>1, <2>1 DEF Trips, TimedOut
  <2>3. NearTimeout(e)
    BY <1>2, <2>1, <2>2, Tolerance
  <2>4. r.health \in {"degraded", "down"}
    BY <1>4, <1>5
  <2>5. QED
    BY <2>2, <2>3, <2>4 DEF Justified
<1>11. r.health = "down" => Unprotected(d)
  <2> SUFFICES ASSUME r.health = "down" PROVE Unprotected(d)
    OBVIOUS
  <2>1. effects[d].health = "down"
    BY <1>5
  <2>2. \A u \in Component : DOMAIN graph.dependents[u] = 1 .. Len(graph.dependents[u])
    BY <1>2 DEF LatencyGraph
  <2>3. QED
    BY <1>2, <2>1, <2>2 DEF BreakersContain, Unprotected, Depends
<1>12. ReportsJustified' /\ BreakersContain'
  <2>1. r.latency <= worst'[d]
    BY <1>3, <1>6, <1>7
  <2>2. QED
    BY <1>1, <1>2, <1>6, <1>8, <1>10, <1>11, <2>1, NewReport
<1>13. Kept /\ at' = at
  BY <1>1 DEF Kept
<1>14. QueueOrdered'
  BY <1>2, <1>8, <1>13, KeptOrder
<1>15. Started'
  BY <1>1, <1>2, <1>9, Visited DEF Started, StillFailing, Visiting
<1>16. Late'
  <2>1. SlowLatency(slow)' = SlowLatency(slow)
    BY <1>1 DEF SlowLatency
  <2>2. ASSUME NEW c \in Component, slow \in Component
        PROVE  \/ effects'[c] = NoEffect
               \/ effects'[c].latency <= worst'[c]
               \/ c = slow /\ effects'[c].latency = SlowLatency(slow)
    <3>1. CASE c = d
      BY <1>3, <1>6, <1>7, <3>1
    <3>2. CASE c # d
      BY <1>2, <1>7, <2>2, <3>2 DEF Late
    <3>3. QED
      BY <3>1, <3>2
  <2>3. QED
    BY <1>1, <1>2, <2>1, <2>2 DEF Late
<1>17. Waiting'
  <2>1. \A i \in 1 .. Len(queue') : \E u \in Component : WaitsFor(queue[i], u)'
    BY <1>1, <1>9, <1>13, KeptWaiting
  <2>2. \A i \in 1 .. Len(todo') : Depends(todo[i], at.comp)'
    BY <1>1, Visited DEF Depends
  <2>3. effects'[at'.comp].health # "healthy"
    BY <1>1, <1>9, Visited DEF StillFailing
  <2>4. QED
    BY <2>1, <2>2, <2>3 DEF Waiting
<1>18. QED
  BY <1>12, <1>14, <1>15, <1>16, <1>17 DEF LInv

(***************************************************************************)
(* A new entry is the latest of its component and the deepest; it waits    *)
(* for the component being expanded, and no breaker is in between when it  *)
(* times out.                                                              *)
(***************************************************************************)
LEMMA LInvWait ==
  ASSUME LInv, TypeOK', NEW d \in Component, Wait(d)
  PROVE  LInv'
<1> DEFINE e == [comp |-> d, latency |-> Arriving(d), depth |-> at.depth + 1]
           n == Len(queue) + 1
<1>1. /\ Visiting(d) /\ News(d) /\ ~Trips(d)
      /\ queue' = Append(queue, e)
      /\ worst' = [worst EXCEPT ![d] = Arriving(d)]
      /\ todo' = Tail(todo) /\ UNCHANGED <<graph, slow, effects, at, phase>>
  BY DEF Wait
<1>2. /\ TypeOK /\ graph \in LatencyGraph /\ queue \in Seq(Entry)
      /\ worst \in [Component -> Nat \cup {-1}] /\ worst' \in [Component -> Nat \cup {-1}]
      /\ Started /\ Late /\ Waiting /\ QueueOrdered
      /\ \A i \in DOMAIN queue : queue[i].comp \in Component
  BY DEF LInv, TypeOK
<1>3. /\ Arriving(d) \in Nat /\ Arriving(d) >= at.latency /\ at.latency \in Nat
      /\ at.depth \in Nat /\ Tail(todo) \in Seq(Component)
  BY <1>1, <1>2, VisitFacts
<1>4. e \in Entry /\ e.comp = d /\ e.latency = Arriving(d) /\ e.depth = at.depth + 1
  BY <1>3 DEF Entry
<1> HIDE DEF e
<1>5. /\ Len(queue) \in Nat /\ Len(queue') = n
      /\ DOMAIN queue = 1 .. Len(queue) /\ DOMAIN queue' = 1 .. n
      /\ \A i \in 1 .. Len(queue) : queue'[i] = queue[i]
      /\ queue'[n] = e
  BY <1>1, <1>2, <1>4, QueuedFacts
<1> HIDE DEF n
<1>6. /\ \A c \in Component : worst'[c] = IF c = d THEN Arriving(d) ELSE worst[c]
      /\ worst[d] \in Int /\ worst[d] < Arriving(d)
  BY <1>1, <1>2, <1>3 DEF News
<1>7. \A c \in Component : worst[c] \in Int /\ worst'[c] \in Int /\ worst'[c] >= worst[c]
  BY <1>2, <1>3, <1>6
<1>8. \A i \in 1 .. n : i \in 1 .. Len(queue) \/ i = n
  BY <1>5 DEF n
<1>9. \A i \in 1 .. Len(queue) :
        /\ queue[i] \in Entry /\ queue[i].comp \in Component
        /\ queue[i].latency \in Nat /\ queue[i].depth \in Nat
        /\ queue[i].latency <= worst[queue[i].comp]
        /\ queue[i].depth \in {at.depth, at.depth + 1}
  <2>1. \A i \in 1 .. Len(queue) : queue[i] \in Entry
    BY <1>2, <1>5
  <2>2. QED
    BY <1>2, <1>5, <2>1 DEF Entry, QueueOrdered
<1>10. QueueOrdered'
  <2>1. ASSUME NEW i \in 1 .. n
        PROVE  /\ queue'[i].latency <= worst'[queue'[i].comp]
               /\ queue'[i].depth \in {at'.depth, at'.depth + 1}
    <3>1. CASE i = n
      BY <1>1, <1>3, <1>4, <1>5, <1>6, <3>1
    <3>2. CASE i \in 1 .. Len(queue)
      <4>1. queue'[i] = queue[i]
        BY <1>5, <3>2
      <4>2. queue[i].latency <= worst'[queue[i].comp]
        BY <1>7, <1>9, <3>2
      <4>3. queue[i].depth \in {at'.depth, at'.depth + 1}
        BY <1>1, <1>9, <3>2
      <4>4. QED
        BY <4>1, <4>2, <4>3
    <3>3. QED
      BY <1>8, <3>1, <3>2
  <2>2. ASSUME NEW i \in 1 .. n, NEW j \in i + 1 .. n
        PROVE  /\ queue'[i].depth <= queue'[j].depth
               /\ queue'[i].comp = queue'[j].comp => queue'[i].latency < queue'[j].latency
    <3>1. i \in 1 .. Len(queue) /\ queue'[i] = queue[i]
      BY <1>5 DEF n
    <3>2. CASE j = n
      <4>1. queue[i].depth <= e.depth
        <5>1. queue[i].depth = at.depth \/ queue[i].depth = at.depth + 1
          BY <1>9, <3>1
        <5>2. QED
          BY <1>3, <1>4, <5>1
      <4>2. queue[i].comp = d => queue[i].latency < Arriving(d)
        BY <1>3, <1>6, <1>9, <3>1
      <4>3. QED
        BY <1>4, <1>5, <3>1, <3>2, <4>1, <4>2
    <3>3. CASE j \in i + 1 .. Len(queue)
      <4>1. queue'[j] = queue[j]
        BY <1>5, <3>1, <3>3
      <4>2. QED
        BY <1>2, <1>5, <3>1, <3>3, <4>1 DEF QueueOrdered
    <3>4. QED
      BY <1>5, <3>1, <3>2, <3>3 DEF n
  <2>3. QED
    BY <1>5, <2>1, <2>2 DEF QueueOrdered
<1>11. ReportsJustified' /\ BreakersContain'
  BY <1>1, <1>2, <1>7, SameReports
<1>12. Started'
  BY <1>1, <1>2, Visited DEF Started, Visiting
<1>13. Late'
  <2>1. SlowLatency(slow)' = SlowLatency(slow)
    BY <1>1 DEF SlowLatency
  <2>2. slow \in Component /\ SlowLatency(slow) \in Nat /\ at.latency >= SlowLatency(slow)
    BY <1>1, Visited, LateFacts
  <2>3. \A i \in 1 .. n : queue'[i].latency >= SlowLatency(slow)
    <3>1. \A i \in 1 .. Len(queue) : queue'[i].latency >= SlowLatency(slow)
      BY <1>5, <2>2, LateFacts
    <3>2. queue'[n].latency >= SlowLatency(slow)
      BY <1>3, <1>4, <1>5, <2>2
    <3>3. QED
      BY <1>8, <3>1, <3>2
  <2>4. ASSUME NEW c \in Component
        PROVE  \/ effects'[c] = NoEffect
               \/ effects'[c].latency <= worst'[c]
               \/ c = slow /\ effects'[c].latency = SlowLatency(slow)
    <3>1. effects[c].latency \in Nat
      BY <1>2 DEF TypeOK, Effect
    <3>2. QED
      BY <1>1, <1>2, <1>7, <2>2, <3>1 DEF Late
  <2>5. QED
    BY <1>1, <1>2, <1>5, <2>1, <2>2, <2>3, <2>4 DEF Late
<1>14. Waiting'
  <2>1. /\ Depends(d, at.comp) /\ at.comp \in Component
        /\ effects[at.comp].health # "healthy"
        /\ \A i \in 1 .. Len(todo') : Depends(todo'[i], at.comp)
    BY <1>1, Visited
  <2>2. TimedOut(e) => <<d, at.comp>> \notin graph.breakers
    BY <1>1, <1>4 DEF TimedOut, Trips
  <2>3. WaitsFor(e, at.comp)
    BY <1>4, <2>1, <2>2 DEF WaitsFor
  <2>4. ASSUME NEW i \in 1 .. n PROVE \E u \in Component : WaitsFor(queue[i], u)'
    <3>1. PICK u \in Component : WaitsFor(queue'[i], u)
      <4>1. CASE i = n
        BY <1>5, <2>1, <2>3, <4>1
      <4>2. CASE i \in 1 .. Len(queue)
        BY <1>2, <1>5, <4>2 DEF Waiting
      <4>3. QED
        BY <1>8, <4>1, <4>2
    <3>2. WaitsFor(queue[i], u)'
      BY <1>1, <3>1 DEF WaitsFor, Depends, TimedOut
    <3>3. QED
      BY <3>2
  <2>5. \A i \in 1 .. Len(todo') : Depends(todo[i], at.comp)'
    BY <1>1, <2>1 DEF Depends
  <2>6. QED
    BY <1>1, <1>5, <2>1, <2>4, <2>5 DEF Waiting
<1>15. QED
  BY <1>10, <1>11, <1>12, <1>13, <1>14 DEF LInv

(***************************************************************************)
(* The entry expanded is fresh, so it is reported at the worst latency of  *)
(* its component, and what it waits for keeps it contained.                *)
(***************************************************************************)
LEMMA LInvExpand ==
  ASSUME LInv, TypeOK', Expand
  PROVE  LInv'
<1> DEFINE c == Front.comp
           r == [health  |-> IF TimedOut(Front) THEN "down" ELSE "degraded",
                 latency |-> Front.latency]
<1>1. /\ Popping /\ ~Stale(Front) /\ NearTimeout(Front)
      /\ effects' = [effects EXCEPT ![c] = r]
      /\ at' = Front /\ todo' = graph.dependents[c]
      /\ queue' = Tail(queue) /\ UNCHANGED <<graph, slow, worst, phase>>
  BY DEF Expand
<1>2. /\ TypeOK /\ effects \in [Component -> Effect] /\ graph \in LatencyGraph
      /\ worst \in [Component -> Nat \cup {-1}] /\ worst' \in [Component -> Nat \cup {-1}]
      /\ Started /\ Late /\ Waiting /\ slow \in Component
  BY <1>1 DEF LInv, TypeOK, Popping
<1>3. /\ Front \in Entry /\ c \in Component /\ Front.latency \in Nat
      /\ Front = queue[1] /\ 1 \in 1 .. Len(queue)
  BY <1>1, <1>2, FrontFacts
<1>4. /\ r \in Effect /\ r.latency = Front.latency /\ r.health # "healthy"
      /\ r.health \in {"degraded", "down"}
      /\ r.health = "down" => TimedOut(Front)
  BY <1>3 DEF Effect, Health
<1> HIDE DEF c, r
<1>5. \A d \in Component : effects'[d] = IF d = c THEN r ELSE effects[d]
  BY <1>1, <1>2
<1>6. \A d \in Component : worst'[d] \in Int /\ worst'[d] = worst[d] /\ worst'[d] >= worst[d]
  BY <1>1, <1>2
<1>7. StillFailing
  BY <1>4, <1>5 DEF StillFailing
<1>8. Kept
  BY <1>1 DEF Kept
<1>9. r.latency <= worst'[c]
  <2>1. QueueOrdered /\ 1 \in DOMAIN queue
    BY <1>2, <1>3 DEF LInv, TypeOK
  <2>2. Front.latency <= worst[c]
    BY <1>3, <2>1 DEF QueueOrdered, c
  <2>3. QED
    BY <1>1, <1>4, <2>2
<1>10. Justified(c, r)
  <2>1. TimedOut(Front) <=> TimedOut([comp |-> c, latency |-> r.latency, depth |-> 0])
    BY <1>4 DEF TimedOut, c
  <2>2. NearTimeout(Front) <=> NearTimeout([comp |-> c, latency |-> r.latency, depth |-> 0])
    BY <1>4 DEF NearTimeout, c
  <2>3. QED
    BY <1>1, <1>4, <2>1, <2>2 DEF Justified
<1>11. r.health = "down" => Unprotected(c)
  <2> SUFFICES ASSUME r.health = "down" PROVE Unprotected(c)
    OBVIOUS
  <2>1. PICK u \in Component : WaitsFor(Front, u)
    BY <1>2, <1>3 DEF Waiting
  <2>2. QED
    BY <1>4, <2>1 DEF WaitsFor, Unprotected, c
<1>12. ReportsJustified' /\ BreakersContain'
  BY <1>1, <1>2, <1>3, <1>4, <1>6, <1>9, <1>10, <1>11, NewReport
<1>13. QueueOrdered'
  BY <1>1, <1>2, <1>6, <1>8, KeptOrder
<1>14. Started'
  <2>1. at'.comp = c
    BY <1>1 DEF c
  <2>2. effects'[slow].health # "healthy"
    BY <1>2, <1>7 DEF Started, StillFailing
  <2>3. QED
    BY <1>1, <1>2, <1>3, <2>1, <2>2 DEF Started, Popping
<1>15. Late'
  <2>1. SlowLatency(slow)' = SlowLatency(slow)
    BY <1>1 DEF SlowLatency
  <2>2. Front.latency >= SlowLatency(slow)
    BY <1>2, <1>3, LateFacts
  <2>3. \A i \in 1 .. Len(queue') : queue'[i].latency >= SlowLatency(slow)
    BY <1>2, <1>8, KeptEntries, LateFacts
  <2>4. ASSUME NEW d \in Component
        PROVE  \/ effects'[d] = NoEffect
               \/ effects'[d].latency <= worst'[d]
               \/ d = slow /\ effects'[d].latency = SlowLatency(slow)
    <3>1. CASE d = c
      BY <1>4, <1>5, <1>9, <3>1
    <3>2. CASE d # c
      BY <1>2, <1>5, <1>6, <3>2 DEF Late
    <3>3. QED
      BY <3>1, <3>2
  <2>5. QED
    BY <1>1, <2>1, <2>2, <2>3, <2>4 DEF Late
<1>16. Waiting'
  <2>1. at'.comp = c /\ effects'[c].health # "healthy"
    BY <1>1, <1>3, <1>4, <1>5 DEF c
  <2>2. \A i \in 1 .. Len(todo') : Depends(todo[i], at.comp)'
    BY <1>1, <2>1 DEF Depends
  <2>3. \A i \in 1 .. Len(queue') : \E u \in Component : WaitsFor(queue[i], u)'
    BY <1>1, <1>7, <1>8, KeptWaiting
  <2>4. QED
    BY <2>1, <2>2, <2>3 DEF Waiting
<1>17. QED
  BY <1>12, <1>13, <1>14, <1>15, <1>16 DEF LInv

-----------------------------------------------------------------------------
\* The invariant holds in every state of every simulation.
THEOREM LInvariance == Spec => []LInv
<1>1. Init => LInv
  <2> SUFFICES ASSUME Init PROVE LInv
    OBVIOUS
  <2>1. TypeOK
    <3>1. Init => TypeOK
      BY TypeInit
    <3>2. QED
      BY <3>1
  <2>2. slow \notin Component /\ queue = << >> /\ todo = << >>
    BY UnknownAssumption DEF Init
  <2>3. \A c \in Component : effects[c] = NoEffect /\ effects[c].health = "healthy"
    BY DEF Init, NoEffect
  <2>4. Started /\ Late
    BY <2>2 DEF Init, Started, Late
  <2>5. Waiting
    BY <2>2 DEF Waiting
  <2>6. QueueOrdered
    BY <2>2 DEF QueueOrdered
  <2>7. ReportsJustified /\ BreakersContain
    BY <2>3 DEF ReportsJustified, BreakersContain
  <2>8. QED
    BY <2>1, <2>4, <2>5, <2>6, <2>7 DEF LInv
<1>2. LInv /\ [Next]_vars => LInv'
  <2> SUFFICES ASSUME LInv, [Next]_vars PROVE LInv'
    OBVIOUS
  <2>1. TypeOK /\ TypeOK' /\ todo \in Seq(Component) /\ Started
    BY TypeStep DEF LInv, TypeOK
  <2>2. ASSUME NEW s \in Slow, Start(s) PROVE LInv'
    BY <2>1, <2>2, LInvStart
  <2>3. ASSUME NEW s \in Slow, StartUnknown(s) PROVE LInv'
    BY <2>1, <2>3, UnknownAssumption, LInvMoveOn DEF StartUnknown, Started, Kept
  <2>4. ASSUME NEW d \in Component, PassOver(d) PROVE LInv'
    BY <2>1, <2>4, LInvMoveOn DEF PassOver, Visiting, Kept
  <2>5. ASSUME NEW d \in Component, Trip(d) PROVE LInv'
    BY <2>1, <2>5, LInvTrip
  <2>6. ASSUME NEW d \in Component, Wait(d) PROVE LInv'
    BY <2>1, <2>6, LInvWait
  <2>7. CASE Drop \/ Tolerate
    BY <2>1, <2>7, LInvMoveOn DEF Drop, Tolerate, Popping, Kept
  <2>8. CASE Expand
    BY <2>1, <2>8, LInvExpand
  <2>9. CASE Finish
    BY <2>1, <2>9, LInvMoveOn DEF Finish, Kept
  <2>10. CASE Terminated \/ UNCHANGED vars
    <3>1. UNCHANGED <<graph, slow, worst, effects, queue, at, todo, phase>>
      BY <2>10 DEF Terminated, vars
    <3>2. Started'
      BY <2>1, <3>1 DEF Started
    <3>3. Late'
      BY <3>1 DEF LInv, Late, SlowLatency
    <3>4. Waiting'
      BY <3>1 DEF LInv, Waiting, WaitsFor, Depends, TimedOut
    <3>5. QueueOrdered'
      BY <3>1 DEF LInv, QueueOrdered
    <3>6. ReportsJustified'
      BY <3>1 DEF LInv, ReportsJustified, Reported, TimedOut, NearTimeout
    <3>7. BreakersContain'
      BY <3>1 DEF LInv, BreakersContain
    <3>8. QED
      BY <2>1, <3>2, <3>3, <3>4, <3>5, <3>6, <3>7 DEF LInv
  <2>11. QED
    BY <2>2, <2>3, <2>4, <2>5, <2>6, <2>7, <2>8, <2>9, <2>10 DEF Next, Simulate
<1>3. QED
  BY <1>1, <1>2, PTL DEF Spec

\* The queue is ordered by latency for each component, and by depth: QueueOrdered.
THEOREM AlwaysQueueOrdered == Spec => []QueueOrdered
<1>1. LInv => QueueOrdered
  BY DEF LInv
<1>2. QED
  BY <1>1, LInvariance, PTL

\* Every report is justified by the latency it is made with: ReportsJustified.
THEOREM AlwaysReportsJustified == Spec => []ReportsJustified
<1>1. LInv => ReportsJustified
  BY DEF LInv
<1>2. QED
  BY <1>1, LInvariance, PTL

\* Whatever is down waits for a failing component without a breaker: BreakersContain.
THEOREM AlwaysBreakersContain == Spec => []BreakersContain
<1>1. LInv => BreakersContain
  BY DEF LInv
<1>2. QED
  BY <1>1, LInvariance, PTL

-----------------------------------------------------------------------------
(***************************************************************************)
(* A report that replaces one that was no worse and no later is no         *)
(* improvement, and neither is a latency reached that is greater.          *)
(***************************************************************************)
LEMMA NoImprovement ==
  ASSUME LInv, TypeOK', NEW c \in Component,
         \A d \in Component \ {c} : effects'[d] = effects[d] /\ worst'[d] = worst[d],
         worst'[c] >= worst[c],
         effects'[c].latency >= effects[c].latency,
         effects'[c].health \in {"degraded", "down"} \/ effects'[c] = effects[c],
         effects[c].health = "down" => effects'[c].health = "down"
  PROVE  NeverImproves
<1>1. \A d \in Component : effects[d] \in Effect /\ effects'[d] \in Effect
                           /\ worst[d] \in Int /\ worst'[d] \in Int
  BY DEF LInv, TypeOK
<1>2. \A d \in Component : effects[d].latency \in Nat /\ effects'[d].latency \in Nat
  BY <1>1 DEF Effect
<1>3. \A d \in Component : effects[d].health \in {"healthy", "degraded", "down"}
  BY DEF LInv, ReportsJustified
<1>4. ASSUME NEW d \in Component
      PROVE  /\ HEALTH_RANK(effects'[d].health) >= HEALTH_RANK(effects[d].health)
             /\ effects'[d].latency >= effects[d].latency
             /\ worst'[d] >= worst[d]
  <2>1. CASE d # c
    <3>1. effects'[d] = effects[d] /\ worst'[d] = worst[d]
      BY <2>1
    <3>2. HEALTH_RANK(effects[d].health) \in Int
      BY <1>3, RankOrder
    <3>3. QED
      BY <1>1, <1>2, <3>1, <3>2
  <2>2. CASE d = c
    <3>1. HEALTH_RANK(effects'[c].health) >= HEALTH_RANK(effects[c].health)
      BY <1>3, RankOrder
    <3>2. QED
      BY <2>2, <3>1
  <2>3. QED
    BY <2>1, <2>2
<1>5. QED
  BY <1>4 DEF NeverImproves

\* A latency not below those that c has been reached at is none below its report.
LEMMA LaterReport ==
  ASSUME LInv, slow \in Component, NEW c \in Component, NEW l \in Nat,
         l >= worst[c], l >= SlowLatency(slow)
  PROVE  l >= effects[c].latency
<1>1. /\ effects[c].latency \in Nat /\ worst[c] \in Int
      /\ SlowLatency(slow) \in Nat
  BY SlowLatencyNat DEF LInv, TypeOK, Effect
<1>2. \/ effects[c] = NoEffect
      \/ effects[c].latency <= worst[c]
      \/ effects[c].latency = SlowLatency(slow)
  BY DEF LInv, Late
<1>3. NoEffect.latency = 0
  BY DEF NoEffect
<1>4. QED
  BY <1>1, <1>2, <1>3

\* Nothing improves when nothing is reported and nothing is reached.
LEMMA SameIsNoImprovement ==
  ASSUME LInv, effects' = effects, worst' = worst
  PROVE  NeverImproves
<1>1. \A d \in Component : effects[d] \in Effect /\ worst[d] \in Int
  BY DEF LInv, TypeOK
<1>2. \A d \in Component : effects[d].latency \in Nat
  BY <1>1 DEF Effect
<1>3. \A d \in Component : effects[d].health \in {"healthy", "degraded", "down"}
  BY DEF LInv, ReportsJustified
<1>4. \A d \in Component : HEALTH_RANK(effects[d].health) \in Int
  BY <1>3, RankOrder
<1>5. QED
  BY <1>1, <1>2, <1>4 DEF NeverImproves

(***************************************************************************)
(* The property Monotone: no step improves a report.  A step that reports  *)
(* on c does so at a latency not below the one c is reported at, and a     *)
(* component that times out at one latency times out at a greater one.     *)
(***************************************************************************)
THEOREM AlwaysMonotone == Spec => Monotone
<1>1. LInv /\ LInv' /\ [Next]_vars => [NeverImproves]_vars
  <2> SUFFICES ASSUME LInv, LInv', Next PROVE NeverImproves
    BY DEF vars
  <2>1. /\ TypeOK /\ TypeOK' /\ graph \in LatencyGraph
        /\ effects \in [Component -> Effect] /\ worst \in [Component -> Nat \cup {-1}]
        /\ queue \in Seq(Entry)
    BY DEF LInv, TypeOK
  <2>2. ASSUME NEW s \in Slow, Start(s) PROVE NeverImproves
    <3>1. s \in Component /\ effects[s] = NoEffect /\ worst[s] = -1
      BY <2>2, UnknownAssumption DEF Start, LInv, Started
    <3>2. SlowLatency(s) \in Nat /\ NoEffect.latency = 0 /\ NoEffect.health = "healthy"
      BY <2>1, <3>1, SlowLatencyNat DEF NoEffect
    <3>3. /\ effects' = [effects EXCEPT ![s] = [health |-> "degraded", latency |-> SlowLatency(s)]]
          /\ worst' = [worst EXCEPT ![s] = 0]
      BY <2>2 DEF Start
    <3>4. /\ effects'[s] = [health |-> "degraded", latency |-> SlowLatency(s)] /\ worst'[s] = 0
          /\ \A d \in Component \ {s} : effects'[d] = effects[d] /\ worst'[d] = worst[d]
      BY <2>1, <3>1, <3>3
    <3>5. QED
      BY <2>1, <3>1, <3>2, <3>4, NoImprovement
  <2>3. ASSUME NEW d \in Component, Trip(d) PROVE NeverImproves
    <3>1. /\ Visiting(d) /\ News(d)
          /\ effects' = [effects EXCEPT ![d] = [health  |-> MaxHealth("degraded", @.health),
                                                latency |-> Arriving(d)]]
          /\ worst' = [worst EXCEPT ![d] = Arriving(d)]
      BY <2>3 DEF Trip
    <3>2. /\ effects'[d] = [health  |-> MaxHealth("degraded", effects[d].health),
                            latency |-> Arriving(d)]
          /\ worst'[d] = Arriving(d)
          /\ \A c \in Component \ {d} : effects'[c] = effects[c] /\ worst'[c] = worst[c]
      BY <2>1, <3>1
    <3>3. effects[d].health \in {"healthy", "degraded", "down"}
      BY DEF LInv, ReportsJustified
    <3>4. /\ effects'[d].health \in {"degraded", "down"}
          /\ effects[d].health = "down" => effects'[d].health = "down"
      BY <3>2, <3>3, MaxHealthCases DEF Health
    <3>5. /\ slow \in Component /\ SlowLatency(slow) \in Nat
          /\ at.latency \in Nat /\ at.latency >= SlowLatency(slow)
      BY <3>1, Visited, LateFacts
    <3>6. Arriving(d) \in Nat /\ Arriving(d) >= at.latency
      BY <2>1, <3>1, VisitFacts
    <3>7. Arriving(d) >= worst[d] /\ Arriving(d) >= SlowLatency(slow)
      BY <2>1, <3>1, <3>5, <3>6 DEF News
    <3>8. effects'[d].latency >= effects[d].latency /\ worst'[d] >= worst[d]
      BY <3>2, <3>5, <3>6, <3>7, LaterReport
    <3>9. QED
      BY <2>1, <3>2, <3>4, <3>8, NoImprovement
  <2>4. ASSUME NEW d \in Component, Wait(d) PROVE NeverImproves
    <3>1. /\ Visiting(d) /\ News(d) /\ effects' = effects
          /\ worst' = [worst EXCEPT ![d] = Arriving(d)]
      BY <2>4 DEF Wait
    <3>2. Arriving(d) \in Nat
      BY <2>1, <3>1, VisitFacts
    <3>3. worst'[d] >= worst[d] /\ \A c \in Component \ {d} : worst'[c] = worst[c]
      BY <2>1, <3>1, <3>2 DEF News
    <3>4. effects[d].latency \in Nat
      BY <2>1 DEF Effect
    <3>5. effects'[d].latency >= effects[d].latency
      BY <3>1, <3>4
    <3>6. QED
      BY <2>1, <3>1, <3>3, <3>5, NoImprovement
  <2>5. CASE Expand
    <3> DEFINE c == Front.comp
               r == [health  |-> IF TimedOut(Front) THEN "down" ELSE "degraded",
                     latency |-> Front.latency]
    <3>1. /\ Popping /\ ~Stale(Front) /\ worst' = worst
          /\ effects' = [effects EXCEPT ![c] = r]
      BY <2>5 DEF Expand
    <3>2. /\ Front \in Entry /\ c \in Component /\ Front.latency \in Nat
          /\ Front = queue[1] /\ 1 \in 1 .. Len(queue)
      BY <2>1, <3>1, FrontFacts
    <3>3. effects'[c] = r /\ \A d \in Component \ {c} : effects'[d] = effects[d]
      BY <2>1, <3>1, <3>2
    <3>4. Front.latency >= worst[c] /\ worst[c] \in Int
      BY <2>1, <3>1, <3>2 DEF Stale
    <3>5. slow \in Component /\ Front.latency >= SlowLatency(slow)
      BY <2>1, <3>1, <3>2, LateFacts DEF Popping, TypeOK
    <3>6. effects'[c].latency >= effects[c].latency
      BY <3>2, <3>3, <3>4, <3>5, LaterReport
    <3>7. effects[c].health = "down" => effects'[c].health = "down"
      <4> SUFFICES ASSUME effects[c].health = "down" PROVE TimedOut(Front)
        BY <3>3
      <4>1. TimedOut(Reported(c))
        BY <3>2 DEF LInv, ReportsJustified
      <4>2. effects[c].latency \in Nat /\ graph.timeout[c] \in Nat
        BY <2>1, <3>2 DEF LatencyGraph, Effect
      <4>3. graph.timeout[c] > 0 /\ effects[c].latency > graph.timeout[c]
        BY <4>1 DEF TimedOut, Reported
      <4>4. Front.latency >= effects[c].latency
        BY <3>3, <3>6
      <4>5. QED
        BY <3>2, <4>2, <4>3, <4>4 DEF TimedOut
    <3>8. effects'[c].health \in {"degraded", "down"}
      BY <3>3
    <3>9. worst'[c] >= worst[c]
      BY <3>1, <3>4
    <3> HIDE DEF c, r
    <3>10. QED
      BY <2>1, <3>1, <3>2, <3>3, <3>6, <3>7, <3>8, <3>9, NoImprovement
  <2>6. ASSUME NEW d \in Component, PassOver(d) PROVE NeverImproves
    BY <2>6, SameIsNoImprovement DEF PassOver
  <2>7. ASSUME NEW s \in Slow, StartUnknown(s) PROVE NeverImproves
    BY <2>7, SameIsNoImprovement DEF StartUnknown
  <2>8. CASE Drop \/ Tolerate \/ Finish \/ Terminated
    BY <2>8, SameIsNoImprovement DEF Drop, Tolerate, Finish, Terminated, vars
  <2>9. QED
    BY <2>2, <2>3, <2>4, <2>5, <2>6, <2>7, <2>8 DEF Next, Simulate
<1>2. QED
  BY <1>1, LInvariance, PTL DEF Spec, Monotone

-----------------------------------------------------------------------------
(***************************************************************************)
(* The worst path wins.  A component c suffers at latency l when it does   *)
(* not tolerate l, that is when l times it out or nearly so; only then     *)
(* does the latency go on to those that wait for c.                        *)
(***************************************************************************)
Suffers(c, l) == graph.timeout[c] > 0 /\ 5 * l > 4 * graph.timeout[c]

\* An entry nearly times out exactly when its component suffers at its latency.
LEMMA NearIsSuffers ==
  ASSUME NEW c, NEW l, NEW k
  PROVE  NearTimeout([comp |-> c, latency |-> l, depth |-> k]) <=> Suffers(c, l)
BY DEF NearTimeout, Suffers

\* The arrivals after one more edge.
Onward(n, A) ==
  UNION {{<<d, a[2] + graph.latency[<<d, a[1]>>]>> :
            d \in {graph.dependents[a[1]][i] : i \in DOMAIN graph.dependents[a[1]]}} :
         a \in {b \in A :
                  n = 1 \/ NearTimeout([comp |-> b[1], latency |-> b[2], depth |-> n])}}

\* The latency m reaches d over an edge, the n-th of its path, from one of A.
Handed(n, A, d, m) ==
  \E u \in Component, l \in Nat :
    /\ <<u, l>> \in A
    /\ n = 1 \/ Suffers(u, l)
    /\ Depends(d, u)
    /\ m = l + graph.latency[<<d, u>>]

\* What an edge adds are numbers, handed by one that suffers to one that waits for it.
LEMMA OnwardFacts ==
  ASSUME graph \in LatencyGraph, NEW n, NEW A, A \subseteq Component \X Nat
  PROVE  /\ Onward(n, A) \subseteq Component \X Nat
         /\ \A d \in Component, m \in Nat : <<d, m>> \in Onward(n, A) <=> Handed(n, A, d, m)
<1>1. \A u \in Component : /\ DOMAIN graph.dependents[u] = 1 .. Len(graph.dependents[u])
                           /\ \A i \in DOMAIN graph.dependents[u] :
                                graph.dependents[u][i] \in Component
  BY DEF LatencyGraph
<1>2. \A d, u \in Component : graph.latency[<<d, u>>] \in Nat
  BY DEF LatencyGraph
<1>3. ASSUME NEW p
      PROVE  p \in Onward(n, A) <=>
               \E a \in A : /\ n = 1 \/ Suffers(a[1], a[2])
                            /\ \E i \in DOMAIN graph.dependents[a[1]] :
                                 p = <<graph.dependents[a[1]][i],
                                       a[2] + graph.latency[<<graph.dependents[a[1]][i], a[1]>>]>>
  <2> DEFINE Hands(a) == {<<d, a[2] + graph.latency[<<d, a[1]>>]>> :
                            d \in {graph.dependents[a[1]][i] : i \in DOMAIN graph.dependents[a[1]]}}
             B == {b \in A : n = 1 \/ NearTimeout([comp |-> b[1], latency |-> b[2], depth |-> n])}
  <2>1. Onward(n, A) = UNION {Hands(a) : a \in B}
    BY DEF Onward
  <2>2. \A a \in A : a \in B <=> (n = 1 \/ Suffers(a[1], a[2]))
    BY NearIsSuffers
  <2>3. \A a : p \in Hands(a) <=>
               \E i \in DOMAIN graph.dependents[a[1]] :
                 p = <<graph.dependents[a[1]][i],
                       a[2] + graph.latency[<<graph.dependents[a[1]][i], a[1]>>]>>
    OBVIOUS
  <2>4. B \subseteq A
    OBVIOUS
  <2> HIDE DEF Hands, B
  <2>5. p \in Onward(n, A) <=> \E a \in B : p \in Hands(a)
    BY <2>1
  <2>6. QED
    BY <2>2, <2>3, <2>4, <2>5
<1>4. \A a \in A : a[1] \in Component /\ a[2] \in Nat /\ a = <<a[1], a[2]>>
  OBVIOUS
<1>5. ASSUME NEW p \in Onward(n, A) PROVE p \in Component \X Nat
  <2>1. PICK a \in A : \E i \in DOMAIN graph.dependents[a[1]] :
                         p = <<graph.dependents[a[1]][i],
                               a[2] + graph.latency[<<graph.dependents[a[1]][i], a[1]>>]>>
    BY <1>3
  <2>2. PICK i \in DOMAIN graph.dependents[a[1]] :
               p = <<graph.dependents[a[1]][i],
                     a[2] + graph.latency[<<graph.dependents[a[1]][i], a[1]>>]>>
    BY <2>1
  <2>3. graph.dependents[a[1]][i] \in Component
    BY <1>1, <1>4, <2>2
  <2>4. a[2] + graph.latency[<<graph.dependents[a[1]][i], a[1]>>] \in Nat
    BY <1>2, <1>4, <2>3
  <2>5. QED
    BY <2>2, <2>3, <2>4
<1>6. ASSUME NEW d \in Component, NEW m \in Nat, <<d, m>> \in Onward(n, A)
      PROVE  \E u \in Component, l \in Nat :
               /\ <<u, l>> \in A
               /\ n = 1 \/ Suffers(u, l)
               /\ Depends(d, u)
               /\ m = l + graph.latency[<<d, u>>]
  <2>1. PICK a \in A :
          /\ n = 1 \/ Suffers(a[1], a[2])
          /\ \E i \in DOMAIN graph.dependents[a[1]] :
               <<d, m>> = <<graph.dependents[a[1]][i],
                            a[2] + graph.latency[<<graph.dependents[a[1]][i], a[1]>>]>>
    BY <1>3, <1>6
  <2>2. PICK i \in DOMAIN graph.dependents[a[1]] :
               <<d, m>> = <<graph.dependents[a[1]][i],
                            a[2] + graph.latency[<<graph.dependents[a[1]][i], a[1]>>]>>
    BY <2>1
  <2>3. d = graph.dependents[a[1]][i] /\ m = a[2] + graph.latency[<<d, a[1]>>]
    BY <2>2
  <2>4. Depends(d, a[1])
    BY <1>1, <1>4, <2>2, <2>3 DEF Depends
  <2>5. QED
    BY <1>4, <2>1, <2>3, <2>4
<1>7. ASSUME NEW d \in Component, NEW m \in Nat,
             NEW u \in Component, NEW l \in Nat,
             <<u, l>> \in A, n = 1 \/ Suffers(u, l), Depends(d, u),
             m = l + graph.latency[<<d, u>>]
      PROVE  <<d, m>> \in Onward(n, A)
  <2>1. PICK i \in DOMAIN graph.dependents[u] : graph.dependents[u][i] = d
    BY <1>1, <1>7 DEF Depends
  <2> DEFINE a == <<u, l>>
  <2>2. a \in A /\ a[1] = u /\ a[2] = l
    BY <1>7
  <2> HIDE DEF a
  <2>3. <<d, m>> = <<graph.dependents[a[1]][i],
                     a[2] + graph.latency[<<graph.dependents[a[1]][i], a[1]>>]>>
    BY <1>7, <2>1, <2>2
  <2>4. QED
    BY <1>3, <1>7, <2>1, <2>2, <2>3
<1>8. ASSUME NEW d \in Component, NEW m \in Nat
      PROVE  <<d, m>> \in Onward(n, A) <=> Handed(n, A, d, m)
  <2>1. <<d, m>> \in Onward(n, A) => Handed(n, A, d, m)
    BY <1>6 DEF Handed
  <2>2. Handed(n, A, d, m) => <<d, m>> \in Onward(n, A)
    BY <1>7 DEF Handed
  <2>3. QED
    BY <2>1, <2>2
<1>9. QED
  BY <1>5, <1>8

(***************************************************************************)
(* The recursion that defines the arrivals is well founded.  What arrives  *)
(* after no edge is the latency of the slow component, and after one edge  *)
(* more, what a component that suffers (or is the slow one, at the start)  *)
(* hands to one that waits for it.                                         *)
(***************************************************************************)
LEMMA ArrivalFacts ==
  graph \in LatencyGraph /\ slow \in Component =>
    /\ Arrivals[0] = {<<slow, SlowLatency(slow)>>}
    /\ \A n \in Nat :
         /\ Arrivals[n] \subseteq Component \X Nat
         /\ \A d \in Component, m \in Nat :
              <<d, m>> \in Arrivals[n + 1] <=> Handed(n + 1, Arrivals[n], d, m)
<1> SUFFICES ASSUME graph \in LatencyGraph, slow \in Component
             PROVE  /\ Arrivals[0] = {<<slow, SlowLatency(slow)>>}
                    /\ \A n \in Nat :
                         /\ Arrivals[n] \subseteq Component \X Nat
                         /\ \A d \in Component, m \in Nat :
                              <<d, m>> \in Arrivals[n + 1] <=> Handed(n + 1, Arrivals[n], d, m)
  OBVIOUS
<1> DEFINE X == SUBSET (Component \X Nat)
           base == {<<slow, SlowLatency(slow)>>}
           step == [n \in Nat |-> [A \in X |-> Onward(n, A)]]
<1>1. base \in X
  BY SlowLatencyNat
<1>2. \A n \in Nat, A \in X : Onward(n, A) \in X
  BY OnwardFacts
<1>3. step \in [Nat -> [X -> X]] /\ \A n \in Nat, A \in X : step[n][A] = Onward(n, A)
  <2> HIDE DEF X
  <2>1. QED
    BY <1>2
<1> HIDE DEF step, X, base
<1>4. PICK f : Recurs(f, X, base, step)
  <2>1. Steps(X, base, step)
    BY <1>1, <1>3 DEF Steps
  <2>2. QED
    BY <2>1, RecursionExists
<1>5. ASSUME NEW n \in Nat
      PROVE  f[n] = IF n = 0 THEN base ELSE Onward(n, f[n - 1])
  <2>1. n # 0 => n - 1 \in Nat
    OBVIOUS
  <2>2. QED
    BY <1>3, <1>4, <2>1 DEF Recurs
<1>6. f = [n \in Nat |-> IF n = 0 THEN base ELSE Onward(n, f[n - 1])]
  BY <1>4, <1>5 DEF Recurs
<1>7. Arrivals = [n \in Nat |-> IF n = 0 THEN base ELSE Onward(n, Arrivals[n - 1])]
  BY <1>6, Zenon DEF Arrivals, Onward, base
<1>8. /\ Arrivals[0] = base
      /\ \A n \in Nat : Arrivals[n + 1] = Onward(n + 1, Arrivals[n])
  <2>1. \A n \in Nat : n + 1 \in Nat /\ n + 1 # 0 /\ (n + 1) - 1 = n
    OBVIOUS
  <2>2. QED
    BY <1>7, <2>1
<1>9. \A n \in Nat : Arrivals[n] \in X
  <2> DEFINE S == {n \in Nat : Arrivals[n] \in X}
  <2>1. 0 \in S
    BY <1>1, <1>8
  <2>2. ASSUME NEW n \in S PROVE n + 1 \in S
    BY <1>2, <1>8
  <2>3. S \in SUBSET Nat
    OBVIOUS
  <2> HIDE DEF S
  <2>4. S = Nat
    BY <2>1, <2>2, <2>3, SetInduction
  <2>5. QED
    BY <2>4 DEF S
<1>10. ASSUME NEW n \in Nat, NEW d \in Component, NEW m \in Nat
       PROVE  <<d, m>> \in Arrivals[n + 1] <=> Handed(n + 1, Arrivals[n], d, m)
  <2>1. Arrivals[n] \subseteq Component \X Nat
    BY <1>9 DEF X
  <2>2. <<d, m>> \in Onward(n + 1, Arrivals[n]) <=> Handed(n + 1, Arrivals[n], d, m)
    BY <2>1, OnwardFacts
  <2>3. QED
    BY <1>8, <2>2
<1>11. QED
  BY <1>8, <1>9, <1>10 DEF X, base

\* Once nothing arrives after n edges, nothing arrives after more.
LEMMA NoLongerPaths ==
  ASSUME graph \in LatencyGraph, slow \in Component,
         NEW m \in Nat, Arrivals[m] = {}, NEW n \in Nat, n >= m
  PROVE  Arrivals[n] = {}
<1> DEFINE S == {k \in Nat : k >= m => Arrivals[k] = {}}
<1>1. 0 \in S
  OBVIOUS
<1>2. ASSUME NEW k \in S PROVE k + 1 \in S
  <2>1. CASE k >= m
    <3>1. Arrivals[k] = {} /\ k \in Nat /\ k + 1 \in Nat
      BY <2>1
    <3>2. Arrivals[k + 1] \subseteq Component \X Nat
      BY <3>1, ArrivalFacts
    <3>3. ASSUME NEW p \in Arrivals[k + 1] PROVE FALSE
      <4>1. PICK d \in Component, l \in Nat : p = <<d, l>>
        BY <3>2
      <4>2. Handed(k + 1, Arrivals[k], d, l)
        BY <3>1, <3>3, <4>1, ArrivalFacts
      <4>3. QED
        BY <3>1, <4>2 DEF Handed
    <3>4. QED
      BY <3>1, <3>3
  <2>2. CASE ~(k >= m)
    <3>1. k + 1 >= m => k + 1 = m
      BY <2>2
    <3>2. QED
      BY <3>1
  <2>3. QED
    BY <2>1, <2>2
<1>3. S \in SUBSET Nat
  OBVIOUS
<1> HIDE DEF S
<1>4. S = Nat
  BY <1>1, <1>2, <1>3, SetInduction
<1>5. QED
  BY <1>4 DEF S

(***************************************************************************)
(* The invariant of the paths.  Arrived: whatever is queued, expanded or   *)
(* recorded is a latency that arrives along some path.  Unless a breaker   *)
(* or the depth limit hinders it, whatever suffers hands its latency on:   *)
(* every component that waits for u has been reached with what u hands it, *)
(* or is still among the dependents to be looked at, or u is still queued  *)
(* at its present latency (Seeded for the slow component at the start,     *)
(* Relayed for every component afterwards); and a component that is not so *)
(* queued is reported as it deserves (Exact).                              *)
(***************************************************************************)
Fresh(c) == \E i \in 1 .. Len(queue) : queue[i].comp = c /\ queue[i].latency = worst[c]

Left(d, u) == at.comp = u /\ \E i \in 1 .. Len(todo) : todo[i] = d

Arrived ==
  slow \in Component =>
    /\ \A i \in 1 .. Len(queue) :
         /\ queue[i].depth # 0
         /\ <<queue[i].comp, queue[i].latency>> \in Arrivals[queue[i].depth]
    /\ todo # << >> => /\ <<at.comp, at.latency>> \in Arrivals[at.depth]
                       /\ at.depth = 0 \/ Suffers(at.comp, at.latency)
    /\ \A c \in Component \ {slow} :
         worst[c] # -1 => \E n \in Nat : <<c, worst[c]>> \in Arrivals[n]

Ended == phase = "done" => queue = << >> /\ todo = << >>

Quiet == \A c \in Component : effects[c].health = "healthy" => effects[c] = NoEffect

Unhindered == slow \in Component /\ graph.breakers = {} /\ Arrivals[MaxDepth + 1] = {}

Seeded ==
  \A d \in Component : Depends(d, slow) =>
    \/ at.depth = 0 /\ Left(d, slow)
    \/ worst[d] >= SlowLatency(slow) + graph.latency[<<d, slow>>]

Relayed ==
  \A u, d \in Component : Depends(d, u) /\ Suffers(u, worst[u]) =>
    \/ Fresh(u)
    \/ at.latency = worst[u] /\ Left(d, u)
    \/ worst[d] >= worst[u] + graph.latency[<<d, u>>]

Deserved(c) ==
  IF Suffers(c, worst[c])
  THEN [health  |-> IF TimedOut([comp |-> c, latency |-> worst[c], depth |-> 0])
                    THEN "down" ELSE "degraded",
        latency |-> worst[c]]
  ELSE NoEffect

Exact == \A c \in Component \ {slow} : Fresh(c) \/ effects[c] = Deserved(c)

PathInv == /\ Arrived
           /\ Ended
           /\ Quiet
           /\ Unhindered => Seeded /\ Relayed /\ Exact

-----------------------------------------------------------------------------
\* The paths are those of the graph and of the slow component.
LEMMA SamePaths ==
  ASSUME UNCHANGED <<graph, slow>>
  PROVE  /\ Arrivals' = Arrivals
         /\ Unhindered' <=> Unhindered
         /\ SlowLatency(slow)' = SlowLatency(slow)
         /\ \A c, l : Suffers(c, l)' <=> Suffers(c, l)
         /\ \A d, u : Depends(d, u)' <=> Depends(d, u)
<1>1. Arrivals' = Arrivals
  BY DEF Arrivals, SlowLatency, NearTimeout
<1>2. QED
  BY <1>1 DEF Unhindered, SlowLatency, Suffers, Depends

\* What a component deserves depends on the latency that it has been reached at.
LEMMA SameDeserved ==
  ASSUME UNCHANGED <<graph, slow>>, NEW c, worst'[c] = worst[c]
  PROVE  Deserved(c)' = Deserved(c)
BY DEF Deserved, Suffers, TimedOut

\* The latency that a visit brings to d is one that arrives at it.
LEMMA VisitArrives ==
  ASSUME LInv, Arrived, NEW d \in Component, Visiting(d)
  PROVE  /\ at.depth + 1 \in Nat
         /\ at.depth + 1 # 0
         /\ <<d, Arriving(d)>> \in Arrivals[at.depth + 1]
<1>1. /\ slow \in Component /\ at.comp \in Component /\ Depends(d, at.comp)
      /\ graph \in LatencyGraph /\ TypeOK
  BY Visited DEF LInv, TypeOK
<1>2. at.latency \in Nat /\ at.depth \in Nat /\ Arriving(d) \in Nat
  BY <1>1, VisitFacts
<1>3. /\ <<at.comp, at.latency>> \in Arrivals[at.depth]
      /\ at.depth = 0 \/ Suffers(at.comp, at.latency)
  BY <1>1 DEF Arrived, Visiting
<1>4. at.depth = 0 <=> at.depth + 1 = 1
  BY <1>2
<1>5. Handed(at.depth + 1, Arrivals[at.depth], d, Arriving(d))
  BY <1>1, <1>2, <1>3, <1>4 DEF Handed, Arriving
<1>6. <<d, Arriving(d)>> \in Arrivals[at.depth + 1]
  BY <1>1, <1>2, <1>5, ArrivalFacts
<1>7. QED
  BY <1>2, <1>6

\* When one entry is taken off the queue, what was queued is still, or was in front.
LEMMA FreshOrFront ==
  ASSUME TypeOK, Popping, queue' = Tail(queue), worst' = worst, NEW c, Fresh(c)
  PROVE  Fresh(c)' \/ (Front.comp = c /\ Front.latency = worst[c])
<1>1. PICK i \in 1 .. Len(queue) : queue[i].comp = c /\ queue[i].latency = worst[c]
  BY DEF Fresh
<1>2. CASE i = 1
  BY <1>1, <1>2, FrontFacts
<1>3. CASE i # 1
  <2>1. i - 1 \in 1 .. Len(Tail(queue)) /\ (i - 1) + 1 = i
    BY <1>1, <1>3, FrontFacts
  <2>2. Tail(queue)[i - 1] = queue[i]
    BY <2>1, FrontFacts
  <2>3. QED
    BY <1>1, <2>1, <2>2 DEF Fresh
<1>4. QED
  BY <1>2, <1>3

\* What is left of the dependents after the first one has been looked at.
LEMMA LeftOrHead ==
  ASSUME TypeOK, NEW v \in Component, Visiting(v), todo' = Tail(todo), at' = at,
         NEW d, NEW u, Left(d, u)
  PROVE  Left(d, u)' \/ (d = v /\ u = at.comp)
<1>1. PICK i \in 1 .. Len(todo) : todo[i] = d /\ at.comp = u
  BY DEF Left
<1>2. todo \in Seq(Component) /\ todo # << >> /\ v = Head(todo)
  BY DEF TypeOK, Visiting
<1>3. CASE i = 1
  BY <1>1, <1>2, <1>3
<1>4. CASE i # 1
  <2>1. i - 1 \in 1 .. Len(Tail(todo)) /\ (i - 1) + 1 = i
    BY <1>1, <1>2, <1>4, TailFacts
  <2>2. Tail(todo)[i - 1] = todo[i]
    BY <1>2, <2>1, TailFacts
  <2>3. QED
    BY <1>1, <2>1, <2>2 DEF Left
<1>5. QED
  BY <1>3, <1>4

\* The numbers that the invariant compares are numbers.
LEMMA PathNumbers ==
  ASSUME LInv, slow \in Component
  PROVE  /\ \A c \in Component : worst[c] \in Nat \cup {-1} /\ worst[c] \in Int
         /\ \A c, d \in Component : graph.latency[<<c, d>>] \in Nat
         /\ \A c \in Component : graph.timeout[c] \in Nat
         /\ SlowLatency(slow) \in Nat
         /\ at.latency \in Nat /\ at.depth \in Nat
<1>1. /\ graph \in LatencyGraph /\ at \in Entry
      /\ worst \in [Component -> Nat \cup {-1}]
  BY DEF LInv, TypeOK
<1>2. \A c, d \in Component : graph.latency[<<c, d>>] \in Nat /\ graph.timeout[c] \in Nat
  BY <1>1 DEF LatencyGraph
<1>3. at.latency \in Nat /\ at.depth \in Nat
  BY <1>1 DEF Entry
<1>4. SlowLatency(slow) \in Nat
  BY <1>1, SlowLatencyNat
<1>5. \A c \in Component : worst[c] \in Nat \cup {-1} /\ worst[c] \in Int
  BY <1>1
<1>6. QED
  BY <1>2, <1>3, <1>4, <1>5

-----------------------------------------------------------------------------
\* At the start nothing but the slow component is reached, at no latency.
LEMMA PathsStart ==
  ASSUME LInv, LInv', NEW s \in Slow, Start(s)
  PROVE  PathInv'
<1>1. /\ s \in Component /\ slow = Unknown /\ slow \notin Component
      /\ slow' = s /\ graph' = graph /\ queue' = << >> /\ worst' = [worst EXCEPT ![s] = 0]
      /\ at' = [comp |-> s, latency |-> SlowLatency(s), depth |-> 0]
      /\ todo' = graph.dependents[s] /\ phase' = "running"
      /\ effects = [c \in Component |-> NoEffect]
      /\ effects' = [effects EXCEPT ![s] = [health |-> "degraded", latency |-> SlowLatency(s)]]
      /\ worst = [c \in Component |-> -1]
  BY UnknownAssumption DEF Start, LInv, Started
<1>2. /\ SlowLatency(slow)' = SlowLatency(s)
      /\ \A c, l : Suffers(c, l)' <=> Suffers(c, l)
      /\ \A d, u : Depends(d, u)' <=> Depends(d, u)
  BY <1>1 DEF SlowLatency, Suffers, Depends
<1>3. /\ graph' \in LatencyGraph /\ graph \in LatencyGraph
      /\ \A c \in Component : graph.timeout[c] \in Nat
  BY <1>1 DEF LInv, TypeOK, LatencyGraph
<1>4. /\ worst'[s] = 0 /\ \A c \in Component \ {s} : worst'[c] = -1
      /\ \A c \in Component \ {s} : effects'[c] = NoEffect
      /\ effects'[s].health = "degraded"
  BY <1>1
<1>5. \A c \in Component : ~Suffers(c, worst'[c])
  <2> SUFFICES ASSUME NEW c \in Component PROVE ~Suffers(c, worst'[c])
    OBVIOUS
  <2>1. worst'[c] \in {0, -1} /\ graph.timeout[c] \in Nat
    BY <1>3, <1>4
  <2>2. QED
    BY <2>1 DEF Suffers
<1>6. Arrived'
  <2>1. (graph \in LatencyGraph /\ slow \in Component =>
           Arrivals[0] = {<<slow, SlowLatency(slow)>>})'
    BY ArrivalFacts, PTL
  <2>2. Arrivals'[0] = {<<s, SlowLatency(s)>>}
    BY <1>1, <1>2, <1>3, <2>1
  <2>3. at'.comp = s /\ at'.latency = SlowLatency(s) /\ at'.depth = 0 /\ Len(queue') = 0
    BY <1>1
  <2>4. <<at'.comp, at'.latency>> \in Arrivals'[at'.depth]
    BY <2>2, <2>3
  <2>5. QED
    BY <1>1, <1>4, <2>3, <2>4 DEF Arrived
<1>7. Seeded'
  <2>1. at'.depth = 0 /\ at'.comp = slow'
    BY <1>1
  <2>2. \A d \in Component : Depends(d, slow)' => Left(d, slow)'
    BY <1>1, <2>1 DEF Depends, Left
  <2>3. QED
    BY <2>1, <2>2 DEF Seeded
<1>8. Relayed'
  BY <1>2, <1>5 DEF Relayed
<1>9. Exact'
  <2>1. ASSUME NEW c \in Component \ {s} PROVE Deserved(c)' = NoEffect
    BY <1>2, <1>5 DEF Deserved
  <2>2. QED
    BY <1>1, <1>4, <2>1 DEF Exact
<1>10. Ended' /\ Quiet'
  BY <1>1, <1>4 DEF Ended, Quiet
<1>11. QED
  BY <1>6, <1>7, <1>8, <1>9, <1>10 DEF PathInv

(***************************************************************************)
(* The steps that take nothing from the paths: whatever is queued or left  *)
(* to be looked at stays so.                                               *)
(***************************************************************************)
LEMMA PathsSame ==
  ASSUME PathInv, UNCHANGED <<graph, slow, worst, effects, queue, at, todo>>,
         phase' = "done" => queue = << >> /\ todo = << >>
  PROVE  PathInv'
<1>1. Arrived'
  BY SamePaths DEF PathInv, Arrived, Suffers
<1>2. Ended' /\ Quiet'
  BY DEF PathInv, Ended, Quiet
<1>3. ASSUME Unhindered' PROVE Seeded' /\ Relayed' /\ Exact'
  <2>1. Seeded /\ Relayed /\ Exact
    BY <1>3, SamePaths DEF PathInv
  <2>2. Seeded'
    BY <2>1 DEF Seeded, Depends, Left, SlowLatency
  <2>3. Relayed'
    BY <2>1 DEF Relayed, Depends, Suffers, Fresh, Left
  <2>4. Exact'
    BY <2>1, SameDeserved DEF Exact, Fresh
  <2>5. QED
    BY <2>2, <2>3, <2>4
<1>4. QED
  BY <1>1, <1>2, <1>3 DEF PathInv

\* A dependent that has been reached as late before needs nothing from this visit.
LEMMA PathsPassOver ==
  ASSUME LInv, PathInv, NEW v \in Component, PassOver(v)
  PROVE  PathInv'
<1>1. /\ Visiting(v) /\ ~News(v) /\ todo' = Tail(todo) /\ phase = "running"
      /\ UNCHANGED <<graph, slow, worst, effects, queue, at, phase>> /\ todo # << >>
  BY DEF PassOver, Visiting
<1>2. TypeOK /\ slow \in Component /\ at.comp \in Component
  BY <1>1, Visited DEF LInv
<1>3. Arrived'
  BY <1>1, SamePaths DEF PathInv, Arrived, Suffers
<1>4. Ended' /\ Quiet'
  BY <1>1 DEF PathInv, Ended, Quiet
<1>5. worst[v] >= at.latency + graph.latency[<<v, at.comp>>]
  <2>1. worst[v] \in Int /\ Arriving(v) \in Nat
    BY <1>1, <1>2, PathNumbers, VisitFacts
  <2>2. QED
    BY <1>1, <2>1 DEF News, Arriving
<1>6. ASSUME Unhindered' PROVE Seeded' /\ Relayed' /\ Exact'
  <2>1. Seeded /\ Relayed /\ Exact
    BY <1>1, <1>6, SamePaths DEF PathInv
  <2>2. ASSUME NEW d \in Component, NEW u, Left(d, u)
        PROVE  Left(d, u)' \/ (d = v /\ u = at.comp)
    BY <1>1, <1>2, <2>2, LeftOrHead
  <2>3. Seeded'
    <3>1. at.depth = 0 /\ at.comp = slow => at.latency = SlowLatency(slow)
      <4>1. at.depth = 0 => <<at.comp, at.latency>> \in Arrivals[0]
        BY <1>1, <1>2 DEF PathInv, Arrived
      <4>2. Arrivals[0] = {<<slow, SlowLatency(slow)>>}
        BY <1>2, ArrivalFacts DEF LInv, TypeOK
      <4>3. QED
        BY <4>1, <4>2
    <3>2. ASSUME NEW d \in Component, Depends(d, slow)
          PROVE  \/ at.depth = 0 /\ Left(d, slow)'
                 \/ worst[d] >= SlowLatency(slow) + graph.latency[<<d, slow>>]
      <4>1. CASE at.depth = 0 /\ Left(d, slow)
        <5>1. CASE Left(d, slow)'
          BY <4>1, <5>1
        <5>2. CASE d = v /\ slow = at.comp
          BY <1>5, <3>1, <4>1, <5>2
        <5>3. QED
          BY <1>1, <2>2, <4>1, <5>1, <5>2 DEF Left
      <4>2. CASE worst[d] >= SlowLatency(slow) + graph.latency[<<d, slow>>]
        BY <4>2
      <4>3. QED
        BY <2>1, <3>2, <4>1, <4>2 DEF Seeded
    <3>3. QED
      BY <1>1, <3>2, SamePaths DEF Seeded, Left
  <2>4. Relayed'
    <3>1. ASSUME NEW u \in Component, NEW d \in Component, Depends(d, u), Suffers(u, worst[u])
          PROVE  \/ Fresh(u)
                 \/ at.latency = worst[u] /\ Left(d, u)'
                 \/ worst[d] >= worst[u] + graph.latency[<<d, u>>]
      BY <1>5, <2>1, <2>2, <3>1 DEF Relayed
    <3>2. QED
      BY <1>1, <3>1 DEF Relayed, Depends, Suffers, Fresh, Left
  <2>5. Exact'
    BY <1>1, <2>1, SameDeserved DEF Exact, Fresh
  <2>6. QED
    BY <2>3, <2>4, <2>5
<1>7. QED
  BY <1>3, <1>4, <1>6 DEF PathInv

\* A breaker trips on a latency that arrives; where there are breakers, no more is claimed.
LEMMA PathsTrip ==
  ASSUME LInv, LInv', PathInv, NEW v \in Component, Trip(v)
  PROVE  PathInv'
<1>1. /\ Visiting(v) /\ Trips(v) /\ todo' = Tail(todo) /\ phase = "running" /\ todo # << >>
      /\ worst' = [worst EXCEPT ![v] = Arriving(v)]
      /\ effects' = [effects EXCEPT ![v] = [health  |-> MaxHealth("degraded", @.health),
                                            latency |-> Arriving(v)]]
      /\ UNCHANGED <<graph, slow, queue, at, phase>>
  BY DEF Trip, Visiting
<1>2. TypeOK /\ worst \in [Component -> Nat \cup {-1}] /\ effects \in [Component -> Effect]
  BY DEF LInv, TypeOK
<1>3. at.depth + 1 \in Nat /\ <<v, Arriving(v)>> \in Arrivals[at.depth + 1]
  BY <1>1, VisitArrives DEF PathInv
<1>4. ASSUME slow \in Component, NEW c \in Component \ {slow}, worst'[c] # -1
      PROVE  \E n \in Nat : <<c, worst'[c]>> \in Arrivals[n]
  <2>1. CASE c = v
    BY <1>1, <1>2, <1>3, <2>1
  <2>2. CASE c # v
    <3>1. worst'[c] = worst[c]
      BY <1>1, <1>2, <2>2
    <3>2. QED
      BY <1>4, <3>1 DEF PathInv, Arrived
  <2>3. QED
    BY <2>1, <2>2
<1>5. Arrived'
  <2>1. \A c, l : Suffers(c, l)' <=> Suffers(c, l)
    BY <1>1, SamePaths
  <2>2. Arrivals' = Arrivals
    BY <1>1, SamePaths
  <2>3. QED
    BY <1>1, <1>4, <2>1, <2>2 DEF PathInv, Arrived
<1>6. Ended' /\ Quiet'
  <2>1. MaxHealth("degraded", effects[v].health) # "healthy"
    BY <1>2, MaxHealthCases DEF Effect
  <2>2. effects'[v].health # "healthy" /\ \A c \in Component \ {v} : effects'[c] = effects[c]
    BY <1>1, <1>2, <2>1
  <2>3. QED
    BY <1>1, <2>2 DEF PathInv, Ended, Quiet
<1>7. ~Unhindered'
  BY <1>1 DEF Unhindered, Trips
<1>8. QED
  BY <1>5, <1>6, <1>7 DEF PathInv

(***************************************************************************)
(* A dependent that has to wait is queued at the latency it now has: it is *)
(* fresh, and has been reached with what the visit brought.                *)
(***************************************************************************)
LEMMA PathsWait ==
  ASSUME LInv, LInv', PathInv, NEW v \in Component, Wait(v)
  PROVE  PathInv'
<1> DEFINE e == [comp |-> v, latency |-> Arriving(v), depth |-> at.depth + 1]
<1>1. /\ Visiting(v) /\ News(v) /\ todo' = Tail(todo) /\ phase = "running" /\ todo # << >>
      /\ worst' = [worst EXCEPT ![v] = Arriving(v)]
      /\ queue' = Append(queue, e)
      /\ UNCHANGED <<graph, slow, effects, at, phase>>
  BY DEF Wait, Visiting
<1>2. /\ TypeOK /\ worst \in [Component -> Nat \cup {-1}] /\ effects \in [Component -> Effect]
      /\ queue \in Seq(Entry) /\ slow \in Component /\ at.comp \in Component
      /\ graph \in LatencyGraph
  BY <1>1, Visited DEF LInv, TypeOK
<1>3. /\ at.depth + 1 \in Nat /\ at.depth + 1 # 0
      /\ <<v, Arriving(v)>> \in Arrivals[at.depth + 1]
  BY <1>1, VisitArrives DEF PathInv
<1>4. /\ Arriving(v) \in Nat /\ Arriving(v) = at.latency + graph.latency[<<v, at.comp>>]
      /\ at.latency \in Nat
  BY <1>1, <1>2, VisitFacts DEF Arriving
<1>5. e \in Entry /\ e.comp = v /\ e.latency = Arriving(v) /\ e.depth = at.depth + 1
  BY <1>3, <1>4 DEF Entry
<1> HIDE DEF e
<1>6. /\ Len(queue) \in Nat /\ Len(queue') = Len(queue) + 1 /\ queue'[Len(queue) + 1] = e
      /\ \A i \in 1 .. Len(queue) : queue'[i] = queue[i]
  BY <1>1, <1>2, <1>5, QueuedFacts
<1>7. worst'[v] = Arriving(v) /\ \A c \in Component \ {v} : worst'[c] = worst[c]
  BY <1>1, <1>2
<1>8. \A c \in Component : worst'[c] \in Int /\ worst[c] \in Int /\ worst'[c] >= worst[c]
  BY <1>1, <1>2, <1>4, <1>7 DEF News
<1>9. Arrived'
  <2>1. ASSUME NEW i \in 1 .. Len(queue')
        PROVE  /\ queue'[i].depth # 0
               /\ <<queue'[i].comp, queue'[i].latency>> \in Arrivals[queue'[i].depth]
    <3>1. CASE i = Len(queue) + 1
      BY <1>3, <1>5, <1>6, <3>1
    <3>2. CASE i # Len(queue) + 1
      <4>1. i \in 1 .. Len(queue) /\ queue'[i] = queue[i]
        BY <1>6, <3>2
      <4>2. QED
        BY <1>2, <4>1 DEF PathInv, Arrived
    <3>3. QED
      BY <3>1, <3>2
  <2>2. ASSUME NEW c \in Component \ {slow}, worst'[c] # -1
        PROVE  \E n \in Nat : <<c, worst'[c]>> \in Arrivals[n]
    <3>1. CASE c = v
      BY <1>3, <1>7, <3>1
    <3>2. CASE c # v
      BY <1>2, <1>7, <2>2, <3>2 DEF PathInv, Arrived
    <3>3. QED
      BY <3>1, <3>2
  <2>3. Arrivals' = Arrivals /\ \A c, l : Suffers(c, l)' <=> Suffers(c, l)
    BY <1>1, SamePaths
  <2>4. /\ <<at.comp, at.latency>> \in Arrivals[at.depth]
        /\ at.depth = 0 \/ Suffers(at.comp, at.latency)
    BY <1>1, <1>2 DEF PathInv, Arrived
  <2>5. QED
    BY <1>1, <2>1, <2>2, <2>3, <2>4 DEF Arrived
<1>10. Ended' /\ Quiet'
  BY <1>1 DEF PathInv, Ended, Quiet
<1>11. Fresh(v)'
  BY <1>5, <1>6, <1>7 DEF Fresh
<1>12. ASSUME NEW c \in Component \ {v}, Fresh(c) PROVE Fresh(c)'
  <2>1. PICK i \in 1 .. Len(queue) : queue[i].comp = c /\ queue[i].latency = worst[c]
    BY <1>12 DEF Fresh
  <2>2. i \in 1 .. Len(queue') /\ queue'[i] = queue[i]
    BY <1>6, <2>1
  <2>3. QED
    BY <1>7, <2>1, <2>2 DEF Fresh
<1>13. ASSUME Unhindered' PROVE Seeded' /\ Relayed' /\ Exact'
  <2>1. Seeded /\ Relayed /\ Exact
    BY <1>1, <1>13, SamePaths DEF PathInv
  <2>2. ASSUME NEW d \in Component, NEW u, Left(d, u)
        PROVE  Left(d, u)' \/ (d = v /\ u = at.comp)
    BY <1>1, <1>2, <2>2, LeftOrHead
  <2>3. \A d \in Component, u \in Component : graph.latency[<<d, u>>] \in Nat
    BY <1>2, PathNumbers
  <2>4. Seeded'
    <3>1. at.depth = 0 /\ at.comp = slow => at.latency = SlowLatency(slow)
      <4>1. at.depth = 0 => <<at.comp, at.latency>> \in Arrivals[0]
        BY <1>1, <1>2 DEF PathInv, Arrived
      <4>2. Arrivals[0] = {<<slow, SlowLatency(slow)>>}
        BY <1>2, ArrivalFacts
      <4>3. QED
        BY <4>1, <4>2
    <3>2. SlowLatency(slow) \in Nat
      BY <1>2, PathNumbers
    <3>3. ASSUME NEW d \in Component, Depends(d, slow)
          PROVE  \/ at.depth = 0 /\ Left(d, slow)'
                 \/ worst'[d] >= SlowLatency(slow) + graph.latency[<<d, slow>>]
      <4>1. CASE at.depth = 0 /\ Left(d, slow)
        <5>1. CASE Left(d, slow)'
          BY <4>1, <5>1
        <5>2. CASE d = v /\ slow = at.comp
          <6>1. worst'[d] = SlowLatency(slow) + graph.latency[<<d, slow>>]
            BY <1>4, <1>7, <3>1, <4>1, <5>2
          <6>2. QED
            BY <1>8, <6>1
        <5>3. QED
          BY <1>1, <2>2, <4>1, <5>1, <5>2 DEF Left
      <4>2. CASE worst[d] >= SlowLatency(slow) + graph.latency[<<d, slow>>]
        BY <1>2, <1>8, <2>3, <3>2, <4>2
      <4>3. QED
        BY <2>1, <3>3, <4>1, <4>2 DEF Seeded
    <3>4. QED
      BY <1>1, <3>3, SamePaths DEF Seeded, Left
  <2>5. Relayed'
    <3>1. ASSUME NEW u \in Component, NEW d \in Component, Depends(d, u), Suffers(u, worst'[u])
          PROVE  \/ Fresh(u)'
                 \/ at.latency = worst'[u] /\ Left(d, u)'
                 \/ worst'[d] >= worst'[u] + graph.latency[<<d, u>>]
      <4>1. CASE u = v
        BY <1>11, <4>1
      <4>2. CASE u # v
        <5>1. worst'[u] = worst[u] /\ Suffers(u, worst[u])
          BY <1>7, <3>1, <4>2
        <5>2. CASE Fresh(u)
          BY <1>12, <4>2, <5>2
        <5>3. CASE at.latency = worst[u] /\ Left(d, u)
          <6>1. CASE Left(d, u)'
            BY <5>1, <5>3, <6>1
          <6>2. CASE d = v /\ u = at.comp
            <7>1. worst'[d] = worst'[u] + graph.latency[<<d, u>>]
              BY <1>4, <1>7, <5>1, <5>3, <6>2
            <7>2. QED
              BY <1>8, <7>1
          <6>3. QED
            BY <2>2, <5>3, <6>1, <6>2
        <5>4. CASE worst[d] >= worst[u] + graph.latency[<<d, u>>]
          BY <1>8, <2>3, <5>1, <5>4
        <5>5. QED
          BY <2>1, <3>1, <5>1, <5>2, <5>3, <5>4 DEF Relayed
      <4>3. QED
        BY <4>1, <4>2
    <3>2. QED
      BY <1>1, <3>1, SamePaths DEF Relayed
  <2>6. Exact'
    <3>1. ASSUME NEW c \in Component \ {slow} PROVE Fresh(c)' \/ effects'[c] = Deserved(c)'
      <4>1. CASE c = v
        BY <1>11, <4>1
      <4>2. CASE c # v
        <5>1. Deserved(c)' = Deserved(c)
          BY <1>1, <1>7, <4>2, SameDeserved
        <5>2. QED
          BY <1>1, <1>12, <2>1, <4>2, <5>1 DEF Exact
      <4>3. QED
        BY <4>1, <4>2
    <3>2. QED
      BY <1>1, <3>1 DEF Exact
  <2>7. QED
    BY <2>4, <2>5, <2>6
<1>14. QED
  BY <1>9, <1>10, <1>13 DEF PathInv

\* A component that tolerates all that has reached it is not reported.
LEMMA Unreported ==
  ASSUME LInv, Quiet, slow \in Component, NEW c \in Component \ {slow},
         ~Suffers(c, worst[c])
  PROVE  effects[c] = NoEffect
<1>1. SUFFICES ASSUME effects[c].health # "healthy" PROVE FALSE
  BY DEF Quiet
<1>2. NearTimeout(Reported(c)) /\ effects[c].latency <= worst[c]
  BY <1>1 DEF LInv, ReportsJustified
<1>3. Suffers(c, effects[c].latency)
  BY <1>2, NearIsSuffers DEF Reported
<1>4. worst[c] \in Int /\ graph.timeout[c] \in Nat
  BY PathNumbers
<1>5. effects[c].latency \in Nat
  BY DEF LInv, TypeOK, Effect
<1>6. QED
  BY <1>2, <1>3, <1>4, <1>5 DEF Suffers

(***************************************************************************)
(* An entry taken off the queue and not expanded is one whose component    *)
(* has been reached later since, or tolerates it; that one is too deep     *)
(* cannot be when no path is longer than the depth limit.                  *)
(***************************************************************************)
LEMMA PathsTaken ==
  ASSUME LInv, PathInv, Drop \/ Tolerate
  PROVE  PathInv'
<1>1. /\ Popping /\ queue' = Tail(queue) /\ phase = "running" /\ todo = << >>
      /\ UNCHANGED <<graph, slow, worst, effects, at, todo, phase>>
  BY DEF Drop, Tolerate, Popping
<1>2. /\ TypeOK /\ graph \in LatencyGraph /\ Front.comp \in Component
      /\ Front.latency \in Nat /\ Front.depth \in Nat
  BY <1>1, FrontFacts DEF LInv, TypeOK
<1>3. Arrived'
  <2>1. ASSUME slow \in Component, NEW i \in 1 .. Len(queue')
        PROVE  /\ queue'[i].depth # 0
               /\ <<queue'[i].comp, queue'[i].latency>> \in Arrivals[queue'[i].depth]
    <3>1. i + 1 \in 1 .. Len(queue) /\ queue'[i] = queue[i + 1]
      BY <1>1, <1>2, FrontFacts
    <3>2. QED
      BY <2>1, <3>1 DEF PathInv, Arrived
  <2>2. Arrivals' = Arrivals
    BY <1>1, SamePaths
  <2>3. QED
    BY <1>1, <2>1, <2>2 DEF PathInv, Arrived
<1>4. Ended' /\ Quiet'
  BY <1>1 DEF PathInv, Ended, Quiet
<1>5. ASSUME Unhindered' PROVE Seeded' /\ Relayed' /\ Exact'
  <2>1. Seeded /\ Relayed /\ Exact /\ Unhindered /\ slow \in Component
    BY <1>1, <1>5, SamePaths DEF PathInv, Unhindered
  <2>2. ASSUME NEW c \in Component, Suffers(c, worst[c]), Fresh(c) PROVE Fresh(c)'
    <3>1. SUFFICES ASSUME Front.comp = c, Front.latency = worst[c] PROVE FALSE
      BY <1>1, <1>2, <2>2, FreshOrFront
    <3>2. CASE TooDeep(Front)
      <4>1. Front = queue[1] /\ 1 \in 1 .. Len(queue)
        BY <1>1, <1>2, FrontFacts
      <4>2. <<Front.comp, Front.latency>> \in Arrivals[Front.depth]
        BY <2>1, <4>1 DEF PathInv, Arrived
      <4>3. MaxDepth + 1 \in Nat /\ Front.depth >= MaxDepth + 1
        BY <1>2, <3>2, LimitsAssumption DEF TooDeep
      <4>4. Arrivals[Front.depth] = {}
        BY <1>2, <2>1, <4>3, NoLongerPaths DEF Unhindered
      <4>5. QED
        BY <4>2, <4>4
    <3>3. CASE Stale(Front)
      BY <1>2, <3>1, <3>3 DEF Stale
    <3>4. CASE ~NearTimeout(Front)
      BY <2>2, <3>1, <3>4 DEF NearTimeout, Suffers
    <3>5. QED
      BY <3>2, <3>3, <3>4 DEF Drop, Tolerate
  <2>3. Seeded'
    BY <1>1, <2>1 DEF Seeded, Depends, Left, SlowLatency
  <2>4. Relayed'
    <3>1. ASSUME NEW u \in Component, NEW d \in Component, Depends(d, u), Suffers(u, worst[u])
          PROVE  \/ Fresh(u)'
                 \/ at.latency = worst[u] /\ Left(d, u)
                 \/ worst[d] >= worst[u] + graph.latency[<<d, u>>]
      BY <2>1, <2>2, <3>1 DEF Relayed
    <3>2. QED
      BY <1>1, <3>1 DEF Relayed, Depends, Suffers, Left
  <2>5. Exact'
    <3>1. ASSUME NEW c \in Component \ {slow} PROVE Fresh(c)' \/ effects[c] = Deserved(c)
      <4>1. CASE Suffers(c, worst[c])
        BY <2>1, <2>2, <4>1 DEF Exact
      <4>2. CASE ~Suffers(c, worst[c])
        <5>1. effects[c] = NoEffect
          BY <2>1, <4>2, Unreported DEF PathInv
        <5>2. QED
          BY <4>2, <5>1 DEF Deserved
      <4>3. QED
        BY <4>1, <4>2
    <3>2. QED
      BY <1>1, <3>1, SameDeserved DEF Exact
  <2>6. QED
    BY <2>3, <2>4, <2>5
<1>6. QED
  BY <1>3, <1>4, <1>5 DEF PathInv

\* An entry that is expanded is reported as it deserves, and has its dependents to visit.
LEMMA PathsExpand ==
  ASSUME LInv, LInv', PathInv, Expand
  PROVE  PathInv'
<1> DEFINE v == Front.comp
           r == [health  |-> IF TimedOut(Front) THEN "down" ELSE "degraded",
                 latency |-> Front.latency]
<1>1. /\ Popping /\ ~TooDeep(Front) /\ ~Stale(Front) /\ NearTimeout(Front)
      /\ effects' = [effects EXCEPT ![v] = r]
      /\ at' = Front /\ todo' = graph.dependents[v] /\ queue' = Tail(queue)
      /\ UNCHANGED <<graph, slow, worst, phase>> /\ phase = "running" /\ todo = << >>
  BY DEF Expand, Popping
<1>2. /\ TypeOK /\ graph \in LatencyGraph /\ v \in Component /\ slow \in Component
      /\ Front.latency \in Nat /\ Front.depth \in Nat
      /\ effects \in [Component -> Effect]
      /\ Front = queue[1] /\ 1 \in 1 .. Len(queue) /\ DOMAIN queue = 1 .. Len(queue)
  BY <1>1, FrontFacts DEF LInv, TypeOK, Popping
<1>3. Front.latency = worst[v]
  <2>1. worst[v] \in Int
    BY <1>2, PathNumbers
  <2>2. Front.latency <= worst[v]
    BY <1>2 DEF LInv, QueueOrdered
  <2>3. QED
    BY <1>1, <1>2, <2>1, <2>2 DEF Stale
<1>4. Suffers(v, worst[v])
  BY <1>1, <1>3 DEF NearTimeout, Suffers
<1>5. <<v, Front.latency>> \in Arrivals[Front.depth]
  BY <1>2 DEF PathInv, Arrived
<1>6. r.health # "healthy" /\ effects'[v] = r
      /\ \A c \in Component \ {v} : effects'[c] = effects[c]
  BY <1>1, <1>2
<1>7. r = Deserved(v)
  <2>1. TimedOut(Front) <=> TimedOut([comp |-> v, latency |-> worst[v], depth |-> 0])
    BY <1>3 DEF TimedOut
  <2>2. QED
    BY <1>3, <1>4, <2>1 DEF Deserved
<1>8. at'.comp = v /\ at'.latency = worst[v] /\ at'.depth = Front.depth
  BY <1>1, <1>3
<1> HIDE DEF v, r
<1>9. Arrived'
  <2>1. ASSUME NEW i \in 1 .. Len(queue')
        PROVE  /\ queue'[i].depth # 0
               /\ <<queue'[i].comp, queue'[i].latency>> \in Arrivals[queue'[i].depth]
    <3>1. i + 1 \in 1 .. Len(queue) /\ queue'[i] = queue[i + 1]
      BY <1>1, <1>2, FrontFacts
    <3>2. QED
      BY <1>2, <3>1 DEF PathInv, Arrived
  <2>2. Arrivals' = Arrivals /\ \A c, l : Suffers(c, l)' <=> Suffers(c, l)
    BY <1>1, SamePaths
  <2>3. <<at'.comp, at'.latency>> \in Arrivals[at'.depth] /\ Suffers(at'.comp, at'.latency)
    BY <1>3, <1>4, <1>5, <1>8
  <2>4. \A c \in Component \ {slow} :
          worst'[c] # -1 => \E n \in Nat : <<c, worst'[c]>> \in Arrivals[n]
    BY <1>1, <1>2 DEF PathInv, Arrived
  <2>5. Suffers(at.comp, at.latency)'
    BY <1>1, <2>3 DEF Suffers
  <2>6. QED
    BY <1>1, <2>1, <2>2, <2>3, <2>4, <2>5 DEF Arrived
<1>10. Ended' /\ Quiet'
  <2>1. Ended'
    BY <1>1 DEF Ended
  <2>2. Quiet'
    BY <1>6 DEF PathInv, Quiet
  <2>3. QED
    BY <2>1, <2>2
<1>11. ASSUME Unhindered' PROVE Seeded' /\ Relayed' /\ Exact'
  <2>1. Seeded /\ Relayed /\ Exact
    BY <1>1, <1>11, SamePaths DEF PathInv
  <2>2. \A d, u : ~Left(d, u)
    BY <1>1 DEF Left
  <2>3. ASSUME NEW d \in Component, Depends(d, v)
        PROVE  \E i \in 1 .. Len(todo') : todo'[i] = d
    BY <1>1, <2>3 DEF Depends
  <2>4. ASSUME NEW c \in Component, Fresh(c) PROVE Fresh(c)' \/ c = v
    BY <1>1, <1>2, <2>4, FreshOrFront DEF v
  <2>5. Seeded'
    <3>1. \A d \in Component : Depends(d, slow) =>
            worst[d] >= SlowLatency(slow) + graph.latency[<<d, slow>>]
      BY <2>1, <2>2 DEF Seeded
    <3>2. QED
      BY <1>1, <3>1 DEF Seeded, Depends, SlowLatency
  <2>6. Relayed'
    <3>1. ASSUME NEW u \in Component, NEW d \in Component, Depends(d, u), Suffers(u, worst[u])
          PROVE  \/ Fresh(u)'
                 \/ at'.latency = worst[u] /\ Left(d, u)'
                 \/ worst[d] >= worst[u] + graph.latency[<<d, u>>]
      <4>1. CASE u = v
        <5>1. at'.latency = worst[u] /\ Depends(d, v)
          BY <1>8, <3>1, <4>1
        <5>2. at'.comp = u /\ \E i \in 1 .. Len(todo') : todo'[i] = d
          BY <1>8, <2>3, <4>1, <5>1
        <5>3. QED
          BY <5>1, <5>2 DEF Left
      <4>2. CASE u # v
        BY <2>1, <2>2, <2>4, <3>1, <4>2 DEF Relayed
      <4>3. QED
        BY <4>1, <4>2
    <3>2. QED
      BY <1>1, <3>1, SamePaths DEF Relayed
  <2>7. Exact'
    <3>1. ASSUME NEW c \in Component \ {slow} PROVE Fresh(c)' \/ effects'[c] = Deserved(c)'
      <4>1. Deserved(c)' = Deserved(c)
        BY <1>1, SameDeserved
      <4>2. CASE c = v
        <5>1. Deserved(c) = r
          BY <1>7, <4>2
        <5>2. QED
          BY <1>6, <4>1, <4>2, <5>1
      <4>3. CASE c # v
        BY <1>6, <2>1, <2>4, <4>1, <4>3 DEF Exact
      <4>4. QED
        BY <4>2, <4>3
    <3>2. QED
      BY <1>1, <3>1 DEF Exact
  <2>8. QED
    BY <2>5, <2>6, <2>7
<1>12. QED
  BY <1>9, <1>10, <1>11 DEF PathInv

\* PathInv is an invariant.
LEMMA PathsStep == LInv /\ LInv' /\ PathInv /\ [Next]_vars => PathInv'
<1> SUFFICES ASSUME LInv, LInv', PathInv, [Next]_vars PROVE PathInv'
  OBVIOUS
<1>1. ASSUME NEW s \in Slow, Start(s) PROVE PathInv'
  BY <1>1, PathsStart
<1>2. ASSUME NEW s \in Slow, StartUnknown(s) PROVE PathInv'
  <2>1. /\ UNCHANGED <<graph, slow, worst, effects, queue, at, todo>> /\ phase = "idle"
    BY <1>2 DEF StartUnknown
  <2>2. slow \notin Component
    BY <2>1, UnknownAssumption DEF LInv, Started
  <2>3. queue = << >> /\ todo = << >>
    BY <2>2 DEF LInv, Started
  <2>4. QED
    BY <2>1, <2>3, PathsSame
<1>3. ASSUME NEW d \in Component, PassOver(d) PROVE PathInv'
  BY <1>3, PathsPassOver
<1>4. ASSUME NEW d \in Component, Trip(d) PROVE PathInv'
  BY <1>4, PathsTrip
<1>5. ASSUME NEW d \in Component, Wait(d) PROVE PathInv'
  BY <1>5, PathsWait
<1>6. CASE Drop \/ Tolerate
  BY <1>6, PathsTaken
<1>7. CASE Expand
  BY <1>7, PathsExpand
<1>8. CASE Finish
  BY <1>8, PathsSame DEF Finish
<1>9. CASE Terminated \/ UNCHANGED vars
  BY <1>9, PathsSame DEF Terminated, vars, PathInv, Ended
<1>10. QED
  BY <1>1, <1>2, <1>3, <1>4, <1>5, <1>6, <1>7, <1>8, <1>9 DEF Next, Simulate

(***************************************************************************)
(* At the end each component has been reached at least as late as anything *)
(* arrives at it, by induction on the number of edges: if it suffers at a  *)
(* latency that arrives, then also at the later one it has been reached    *)
(* at, and has handed that one on.                                         *)
(***************************************************************************)
LEMMA AllArrivalsCounted ==
  ASSUME LInv, PathInv, phase = "done", Unhindered
  PROVE  \A n \in Nat : \A c \in Component, l \in Nat :
           n # 0 /\ <<c, l>> \in Arrivals[n] => l <= worst[c]
<1> DEFINE S == {n \in Nat : \A c \in Component, l \in Nat :
                               n # 0 /\ <<c, l>> \in Arrivals[n] => l <= worst[c]}
<1>1. slow \in Component /\ graph \in LatencyGraph /\ Seeded /\ Relayed
  BY DEF PathInv, Unhindered, LInv, TypeOK
<1>2. queue = << >> /\ todo = << >>
  BY DEF PathInv, Ended
<1>3. \A c \in Component : \A u : ~Fresh(c) /\ ~Left(c, u)
  BY <1>2 DEF Fresh, Left
<1>4. 0 \in S
  OBVIOUS
<1>5. ASSUME NEW n \in Nat, n \in S PROVE n + 1 \in S
  <2>1. SUFFICES ASSUME NEW c \in Component, NEW l \in Nat, <<c, l>> \in Arrivals[n + 1]
                 PROVE  l <= worst[c]
    OBVIOUS
  <2>2. Handed(n + 1, Arrivals[n], c, l)
    BY <1>1, <2>1, ArrivalFacts
  <2>3. PICK u \in Component, m \in Nat :
          /\ <<u, m>> \in Arrivals[n]
          /\ n + 1 = 1 \/ Suffers(u, m)
          /\ Depends(c, u)
          /\ l = m + graph.latency[<<c, u>>]
    BY <2>2 DEF Handed
  <2>4. /\ graph.latency[<<c, u>>] \in Nat /\ worst[c] \in Int /\ worst[u] \in Int
        /\ graph.timeout[u] \in Nat
    BY <1>1, PathNumbers
  <2>5. CASE n = 0
    <3>1. u = slow /\ m = SlowLatency(slow)
      BY <1>1, <2>3, <2>5, ArrivalFacts
    <3>2. worst[c] >= SlowLatency(slow) + graph.latency[<<c, slow>>]
      BY <1>1, <1>3, <2>3, <3>1 DEF Seeded
    <3>3. QED
      BY <2>3, <2>4, <3>1, <3>2
  <2>6. CASE n # 0
    <3>1. m <= worst[u] /\ Suffers(u, m)
      BY <1>5, <2>3, <2>6
    <3>2. Suffers(u, worst[u])
      BY <2>4, <3>1 DEF Suffers
    <3>3. worst[c] >= worst[u] + graph.latency[<<c, u>>]
      BY <1>1, <1>3, <2>3, <3>2 DEF Relayed
    <3>4. QED
      BY <2>3, <2>4, <3>1, <3>3
  <2>7. QED
    BY <2>5, <2>6
<1>6. S \in SUBSET Nat
  OBVIOUS
<1> HIDE DEF S
<1>7. S = Nat
  BY <1>4, <1>5, <1>6, SetInduction
<1>8. QED
  BY <1>7 DEF S

\* The latencies that arrive at c along the paths within the depth limit.
Found(c) == {a[2] : a \in {b \in UNION {Arrivals[n] : n \in 0 .. MaxDepth} : b[1] = c}}

(***************************************************************************)
(* At the end a component other than the slow one has been reached if and  *)
(* only if something arrives at it, and then at the greatest of that.      *)
(***************************************************************************)
LEMMA FoundFacts ==
  ASSUME LInv, PathInv, phase = "done", Unhindered, NEW c \in Component \ {slow}
  PROVE  /\ \A l \in Found(c) : l \in Nat /\ l <= worst[c]
         /\ worst[c] # -1 <=> Found(c) # {}
         /\ Found(c) # {} => worst[c] \in Found(c)
<1>1. /\ slow \in Component /\ graph \in LatencyGraph /\ MaxDepth \in Nat
      /\ MaxDepth + 1 \in Nat /\ Arrivals[MaxDepth + 1] = {}
  BY LimitsAssumption DEF Unhindered, LInv, TypeOK
<1>2. ASSUME NEW l \in Found(c)
      PROVE  \E n \in 0 .. MaxDepth : l \in Nat /\ <<c, l>> \in Arrivals[n]
  <2>1. PICK a \in UNION {Arrivals[n] : n \in 0 .. MaxDepth} : a[1] = c /\ a[2] = l
    BY DEF Found
  <2>2. PICK n \in 0 .. MaxDepth : a \in Arrivals[n]
    BY <2>1
  <2>3. Arrivals[n] \subseteq Component \X Nat
    BY <1>1, <2>2, ArrivalFacts
  <2>4. a[2] \in Nat /\ a = <<a[1], a[2]>>
    BY <2>2, <2>3
  <2>5. QED
    BY <2>1, <2>2, <2>4
<1>3. ASSUME NEW l \in Found(c) PROVE l \in Nat /\ l <= worst[c]
  <2>1. PICK n \in 0 .. MaxDepth : l \in Nat /\ <<c, l>> \in Arrivals[n]
    BY <1>2
  <2>2. n # 0
    BY <1>1, <2>1, ArrivalFacts
  <2>3. QED
    BY <1>1, <2>1, <2>2, AllArrivalsCounted
<1>4. ASSUME worst[c] # -1 PROVE worst[c] \in Found(c)
  <2>1. PICK n \in Nat : <<c, worst[c]>> \in Arrivals[n]
    BY <1>1, <1>4 DEF PathInv, Arrived
  <2>2. n \in 0 .. MaxDepth
    <3>1. SUFFICES ASSUME n >= MaxDepth + 1 PROVE FALSE
      BY <1>1, <2>1
    <3>2. Arrivals[n] = {}
      BY <1>1, <3>1, NoLongerPaths
    <3>3. QED
      BY <2>1, <3>2
  <2> DEFINE a == <<c, worst[c]>>
  <2>3. a \in UNION {Arrivals[k] : k \in 0 .. MaxDepth} /\ a[1] = c /\ a[2] = worst[c]
    BY <2>1, <2>2
  <2> HIDE DEF a
  <2>4. QED
    BY <2>3 DEF Found
<1>5. ASSUME NEW l \in Found(c) PROVE worst[c] # -1
  BY <1>3
<1>6. QED
  BY <1>3, <1>4, <1>5

(***************************************************************************)
(* The worst path wins, the property WorstPathWins: the latency recorded   *)
(* for a component is the greatest that arrives at it along any path, and  *)
(* its effect is the one that this latency deserves.                       *)
(***************************************************************************)
LEMMA EndIsWorstPath ==
  ASSUME LInv, PathInv
  PROVE  WorstPathWins
<1>1. SUFFICES ASSUME phase = "done", Unhindered, NEW c \in Component \ {slow}
               PROVE  /\ worst[c] = IF Found(c) = {} THEN -1
                                    ELSE CHOOSE l \in Found(c) : \A m \in Found(c) : m <= l
                      /\ effects[c] =
                           IF Found(c) = {}
                              \/ ~NearTimeout([comp |-> c, latency |-> worst[c], depth |-> 0])
                           THEN NoEffect
                           ELSE [health  |-> IF TimedOut([comp |-> c, latency |-> worst[c], depth |-> 0])
                                             THEN "down" ELSE "degraded",
                                 latency |-> worst[c]]
  BY DEF WorstPathWins, Unhindered, Found
<1>2. slow \in Component
  BY <1>1 DEF Unhindered
<1>3. worst[c] \in Nat \cup {-1} /\ graph.timeout[c] \in Nat
  BY <1>2, PathNumbers
<1>4. worst[c] = IF Found(c) = {} THEN -1
                 ELSE CHOOSE l \in Found(c) : \A m \in Found(c) : m <= l
  <2>1. CASE Found(c) = {}
    BY <1>1, <2>1, FoundFacts
  <2>2. CASE Found(c) # {}
    <3>1. worst[c] \in Found(c) /\ \A m \in Found(c) : m \in Nat /\ m <= worst[c]
      BY <1>1, <2>2, FoundFacts
    <3>2. ASSUME NEW l \in Found(c), \A m \in Found(c) : m <= l PROVE l = worst[c]
      BY <3>1, <3>2
    <3>3. (CHOOSE l \in Found(c) : \A m \in Found(c) : m <= l) = worst[c]
      BY <3>1, <3>2
    <3>4. QED
      BY <2>2, <3>3
  <2>3. QED
    BY <2>1, <2>2
<1>5. effects[c] = Deserved(c)
  <2>1. ~Fresh(c)
    BY <1>1 DEF PathInv, Ended, Fresh
  <2>2. QED
    BY <1>1, <2>1 DEF PathInv, Exact
<1>6. NearTimeout([comp |-> c, latency |-> worst[c], depth |-> 0]) <=> Suffers(c, worst[c])
  BY NearIsSuffers
<1>7. Found(c) = {} => ~Suffers(c, worst[c])
  <2>1. Found(c) = {} => worst[c] = -1
    BY <1>1, FoundFacts
  <2>2. worst[c] = -1 => ~Suffers(c, worst[c])
    BY <1>3 DEF Suffers
  <2>3. QED
    BY <2>1, <2>2
<1>8. QED
  BY <1>4, <1>5, <1>6, <1>7 DEF Deserved

\* The worst path wins in every run, for every graph: WorstPathWins.
THEOREM AlwaysWorstPathWins == Spec => []WorstPathWins
<1>1. Init => PathInv
  <2> SUFFICES ASSUME Init PROVE PathInv
    OBVIOUS
  <2>1. slow \notin Component /\ phase = "idle" /\ effects = [c \in Component |-> NoEffect]
    BY UnknownAssumption DEF Init
  <2>2. QED
    BY <2>1 DEF PathInv, Arrived, Ended, Quiet, Unhindered
<1>2. LInv /\ LInv' /\ PathInv /\ [Next]_vars => PathInv'
  BY PathsStep
<1>3. LInv /\ PathInv => WorstPathWins
  BY EndIsWorstPath
<1>4. QED
  BY <1>1, <1>2, <1>3, LInvariance, PTL DEF Spec

-----------------------------------------------------------------------------
(***************************************************************************)
(* What bounds a run, in the order in which it counts: the phases to come; *)
(* the levels of the search that are left; the entries queued on the level *)
(* of the component expanded last; its dependents that are still to be     *)
(* looked at; all entries queued.  Latencies bound nothing: on a cycle     *)
(* they rise with every turn.                                              *)
(***************************************************************************)
Stage == IF phase = "idle" THEN 0 ELSE IF phase = "running" THEN 1 ELSE 2

OnLevel == {i \in 1 .. Len(queue) : queue[i].depth = at.depth}

Measure == [i \in 1 .. 5 |-> CASE i = 1 -> 2 - Stage
                              [] i = 2 -> MaxDepth - at.depth
                              [] i = 3 -> Cardinality(OnLevel)
                              [] i = 4 -> Len(todo)
                              [] i = 5 -> Len(queue)]

Descends == <<Measure', Measure>> \in Nearer

\* No component deeper than the limit is ever expanded.
Limited == at.depth <= MaxDepth

LEMMA LimitedStep == LInv /\ Limited /\ [Next]_vars => Limited'
<1> SUFFICES ASSUME LInv, Limited, [Next]_vars PROVE Limited'
  OBVIOUS
<1>1. MaxDepth \in Nat
  BY LimitsAssumption
<1>2. ASSUME at' = at PROVE Limited'
  BY <1>2 DEF Limited
<1>3. ASSUME NEW s \in Slow, Start(s) PROVE Limited'
  BY <1>1, <1>3 DEF Start, Limited
<1>4. ASSUME NEW s \in Slow, StartUnknown(s) PROVE Limited'
  BY <1>2, <1>4 DEF StartUnknown
<1>5. ASSUME NEW d \in Component, PassOver(d) \/ Trip(d) \/ Wait(d) PROVE Limited'
  BY <1>2, <1>5 DEF PassOver, Trip, Wait
<1>6. CASE Expand
  <2>1. at' = Front /\ ~(Front.depth > MaxDepth) /\ Front.depth \in Nat
    BY <1>6, FrontFacts DEF Expand, TooDeep, LInv
  <2>2. QED
    BY <1>1, <2>1 DEF Limited
<1>7. CASE Drop \/ Tolerate \/ Finish \/ Terminated \/ UNCHANGED vars
  BY <1>2, <1>7 DEF Drop, Tolerate, Finish, Terminated, vars
<1>8. QED
  BY <1>3, <1>4, <1>5, <1>6, <1>7 DEF Next, Simulate

\* The numbers are natural numbers.
LEMMA MeasureType == LInv /\ Limited => Measure \in [1 .. 5 -> Nat] /\ IsFiniteSet(OnLevel)
<1> SUFFICES ASSUME LInv, Limited
             PROVE  Measure \in [1 .. 5 -> Nat] /\ IsFiniteSet(OnLevel)
  OBVIOUS
<1>1. /\ at.depth \in Nat /\ MaxDepth \in Nat
      /\ Len(queue) \in Nat /\ Len(todo) \in Nat
  BY LimitsAssumption DEF LInv, TypeOK, Entry
<1>2. IsFiniteSet(OnLevel)
  <2>1. 1 \in Int /\ Len(queue) \in Int
    BY <1>1
  <2>2. IsFiniteSet(1 .. Len(queue))
    BY <2>1, FS_Interval, Zenon
  <2>3. QED
    BY <2>2, FS_Subset DEF OnLevel
<1>3. /\ 2 - Stage \in Nat /\ MaxDepth - at.depth \in Nat
      /\ Cardinality(OnLevel) \in Nat
  BY <1>1, <1>2, FS_CardinalityType DEF Stage, Limited
<1>4. QED
  BY <1>1, <1>2, <1>3 DEF Measure

\* An entry taken off the queue leaves no more of them on the level, and fewer if it was one.
LEMMA LevelShrinks ==
  ASSUME LInv, Limited, Popping, queue' = Tail(queue), at'.depth = at.depth
  PROVE  /\ Cardinality(OnLevel) \in Nat /\ Cardinality(OnLevel') \in Nat
         /\ Cardinality(OnLevel') <= Cardinality(OnLevel)
         /\ Front.depth = at.depth => Cardinality(OnLevel') < Cardinality(OnLevel)
<1>1. /\ Front = queue[1] /\ 1 \in 1 .. Len(queue) /\ Len(queue) \in Nat
      /\ Len(queue') \in Nat
      /\ \A i \in 1 .. Len(queue') : i + 1 \in 1 .. Len(queue) /\ queue'[i] = queue[i + 1]
  BY FrontFacts DEF LInv
<1>2. IsFiniteSet(OnLevel)
  BY MeasureType
<1> DEFINE A == OnLevel \ {1}
           B == OnLevel'
           next == [i \in B |-> i + 1]
<1>3. /\ IsFiniteSet(A)
      /\ Cardinality(A) = IF 1 \in OnLevel THEN Cardinality(OnLevel) - 1
                          ELSE Cardinality(OnLevel)
  BY <1>2, FS_RemoveElement
<1>4. next \in Injection(B, A)
  <2>1. \A i \in B : i \in Nat /\ i + 1 \in A
    BY <1>1 DEF OnLevel
  <2>2. \A i, j \in B : next[i] = next[j] => i = j
    BY <2>1
  <2>3. QED
    BY <2>1, <2>2 DEF Injection, IsInjective
<1> HIDE DEF A, B, next
<1>5. IsFiniteSet(B) /\ Cardinality(B) <= Cardinality(A)
  BY <1>3, <1>4, FS_Injection
<1>6. /\ Cardinality(A) \in Nat /\ Cardinality(B) \in Nat /\ Cardinality(OnLevel) \in Nat
  BY <1>2, <1>3, <1>5, FS_CardinalityType
<1>7. Front.depth = at.depth => 1 \in OnLevel
  BY <1>1 DEF OnLevel
<1>8. Cardinality(B) = Cardinality(OnLevel')
  BY DEF B
<1>9. QED
  BY <1>3, <1>5, <1>6, <1>7, <1>8

\* One iteration of the loop over the dependents queues nothing on the level.
LEMMA VisitDescends ==
  ASSUME LInv, Limited, Measure' \in [1 .. 5 -> Nat],
         NEW d \in Component, PassOver(d) \/ Trip(d) \/ Wait(d)
  PROVE  Descends
<1> DEFINE e == [comp |-> d, latency |-> Arriving(d), depth |-> at.depth + 1]
<1>1. /\ Visiting(d) /\ todo # << >> /\ todo' = Tail(todo) /\ UNCHANGED <<at, phase>>
      /\ queue' = queue \/ queue' = Append(queue, e)
  BY DEF PassOver, Trip, Wait, Visiting
<1>2. Measure \in [1 .. 5 -> Nat]
  BY MeasureType
<1>3. Len(todo') < Len(todo)
  BY <1>1 DEF LInv, TypeOK
<1>4. OnLevel' = OnLevel
  <2>1. CASE queue' = queue
    BY <1>1, <2>1 DEF OnLevel
  <2>2. CASE queue' = Append(queue, e)
    <3>1. Arriving(d) \in Nat /\ at.depth \in Nat
      BY <1>1, VisitFacts DEF LInv
    <3>2. e \in Entry /\ e.depth = at.depth + 1 /\ e.depth # at.depth
      BY <3>1 DEF Entry
    <3> HIDE DEF e
    <3>3. /\ Len(queue) \in Nat /\ Len(queue') = Len(queue) + 1
          /\ \A i \in 1 .. Len(queue) : queue'[i] = queue[i]
          /\ queue'[Len(queue) + 1] = e
      BY <2>2, <3>2, QueuedFacts DEF LInv, TypeOK
    <3> DEFINE n == Len(queue)
    <3>4. OnLevel' = {i \in 1 .. n + 1 : queue'[i].depth = at.depth}
      BY <1>1, <3>3 DEF OnLevel
    <3>5. ASSUME NEW i \in 1 .. n + 1
          PROVE  queue'[i].depth = at.depth <=> i # n + 1 /\ queue[i].depth = at.depth
      <4>1. CASE i = n + 1
        BY <3>2, <3>3, <4>1
      <4>2. CASE i # n + 1
        BY <3>3, <4>2
      <4>3. QED
        BY <4>1, <4>2
    <3>6. n \in Nat
      BY <3>3
    <3> HIDE DEF n
    <3>7. {i \in 1 .. n + 1 : queue'[i].depth = at.depth} = {i \in 1 .. n : queue[i].depth = at.depth}
      BY <3>5, <3>6
    <3>8. QED
      BY <3>4, <3>7 DEF OnLevel, n
  <2>3. QED
    BY <1>1, <2>1, <2>2
<1>5. /\ Measure'[4] < Measure[4] /\ Measure'[1] = Measure[1]
      /\ Measure'[2] = Measure[2] /\ Measure'[3] = Measure[3]
  BY <1>1, <1>3, <1>4 DEF Measure, Stage
<1>6. QED
  BY <1>2, <1>5, NearerAt DEF Descends

\* An entry that goes no further leaves fewer of them queued.
LEMMA TakenDescends ==
  ASSUME LInv, Limited, Measure' \in [1 .. 5 -> Nat], Drop \/ Tolerate
  PROVE  Descends
<1>1. Popping /\ queue' = Tail(queue) /\ UNCHANGED <<at, phase, todo>>
  BY DEF Drop, Tolerate
<1>2. Measure \in [1 .. 5 -> Nat]
  BY MeasureType
<1>3. Len(queue') < Len(queue)
  BY <1>1, FrontFacts DEF LInv
<1>4. /\ Cardinality(OnLevel) \in Nat /\ Cardinality(OnLevel') \in Nat
      /\ Cardinality(OnLevel') <= Cardinality(OnLevel)
  BY <1>1, LevelShrinks
<1>5. /\ Measure'[1] = Measure[1] /\ Measure'[2] = Measure[2]
      /\ Measure'[3] <= Measure[3] /\ Measure'[4] = Measure[4] /\ Measure'[5] < Measure[5]
  BY <1>1, <1>3, <1>4 DEF Measure, Stage
<1>6. CASE Measure'[3] < Measure[3]
  BY <1>2, <1>5, <1>6, NearerAt DEF Descends
<1>7. CASE Measure'[3] = Measure[3]
  BY <1>2, <1>5, <1>7, NearerAt DEF Descends
<1>8. QED
  BY <1>2, <1>5, <1>6, <1>7

\* An entry that is expanded is on the level, or begins the next one.
LEMMA ExpandDescends ==
  ASSUME LInv, Limited, Measure' \in [1 .. 5 -> Nat], Expand
  PROVE  Descends
<1>1. Popping /\ queue' = Tail(queue) /\ at' = Front /\ phase' = phase
  BY DEF Expand
<1>2. Measure \in [1 .. 5 -> Nat]
  BY MeasureType
<1>3. /\ Front.depth \in {at.depth, at.depth + 1} /\ at.depth \in Nat /\ MaxDepth \in Nat
  <2>1. Front = queue[1] /\ 1 \in DOMAIN queue
    BY <1>1, FrontFacts DEF LInv
  <2>2. QED
    BY <2>1, LimitsAssumption DEF LInv, QueueOrdered, TypeOK, Entry
<1>4. Measure'[1] = Measure[1]
  BY <1>1 DEF Measure, Stage
<1>5. CASE Front.depth = at.depth
  <2>1. /\ Cardinality(OnLevel) \in Nat /\ Cardinality(OnLevel') \in Nat
        /\ Cardinality(OnLevel') < Cardinality(OnLevel)
    BY <1>1, <1>5, LevelShrinks
  <2>2. Measure'[2] = Measure[2] /\ Measure'[3] < Measure[3]
    BY <1>1, <1>5, <2>1 DEF Measure
  <2>3. QED
    BY <1>2, <1>4, <2>2, NearerAt DEF Descends
<1>6. CASE Front.depth = at.depth + 1
  <2>1. Measure'[2] < Measure[2]
    BY <1>1, <1>3, <1>6 DEF Measure
  <2>2. QED
    BY <1>2, <1>4, <2>1, NearerAt DEF Descends
<1>7. QED
  BY <1>3, <1>5, <1>6

(***************************************************************************)
(* A run is finite, whatever the graph: every step of                      *)
(* simulate_latency_cascade takes a measure down in an order that has no   *)
(* infinite descent.  On a cycle, where latencies rise with every turn and *)
(* nothing is ever stale, it is the depth limit alone that ends the run.   *)
(***************************************************************************)
THEOREM RunsAreFinite ==
  /\ IsWellFoundedOn(Nearer, [1 .. 5 -> Nat])
  /\ Spec => [][Descends]_vars
<1>1. Init => Limited
  BY LimitsAssumption DEF Init, Limited
<1>2. LInv /\ Limited /\ [Next]_vars => Limited'
  BY LimitedStep
<1>3. (LInv /\ Limited => Measure \in [1 .. 5 -> Nat] /\ IsFiniteSet(OnLevel))'
  BY MeasureType, PTL
<1>4. ASSUME LInv, LInv', Limited, Limited', Simulate PROVE Descends
  <2>1. Measure \in [1 .. 5 -> Nat] /\ Measure' \in [1 .. 5 -> Nat]
    BY <1>3, <1>4, MeasureType
  <2>2. CASE Stage' > Stage
    <3>1. Measure'[1] < Measure[1]
      BY <2>2 DEF Measure, Stage
    <3>2. QED
      BY <2>1, <3>1, NearerAt DEF Descends
  <2>3. ASSUME NEW s \in Slow, Start(s) \/ StartUnknown(s) PROVE Stage' > Stage
    BY <2>3 DEF Start, StartUnknown, Stage
  <2>4. ASSUME Finish PROVE Stage' > Stage
    BY <2>4 DEF Finish, Stage
  <2>5. ASSUME NEW d \in Component, PassOver(d) \/ Trip(d) \/ Wait(d) PROVE Descends
    BY <1>4, <2>1, <2>5, VisitDescends
  <2>6. CASE Drop \/ Tolerate
    BY <1>4, <2>1, <2>6, TakenDescends
  <2>7. CASE Expand
    BY <1>4, <2>1, <2>7, ExpandDescends
  <2>8. QED
    BY <1>4, <2>2, <2>3, <2>4, <2>5, <2>6, <2>7 DEF Simulate
<1>5. LInv /\ LInv' /\ Limited /\ Limited' /\ [Next]_vars => [Descends]_vars
  BY <1>4 DEF Next, Terminated
<1>6. Spec => [][Descends]_vars
  BY <1>1, <1>2, <1>5, LInvariance, PTL DEF Spec
<1>7. QED
  BY <1>6, NearerWellFounded

=============================================================================
