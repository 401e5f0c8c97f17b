--------------------------- MODULE LatencyCascade ---------------------------
(***************************************************************************)
(* CascadeEngine.simulate_latency_cascade (simulator/cascade.py): the      *)
(* breadth-first propagation of the latency of one slow component to those *)
(* that wait for it, with circuit breakers that stop it at an edge.        *)
(*                                                                         *)
(* Every component whose latency counts is expanded: its dependents are    *)
(* looked at one by one, one step for each.  The code seeds its queue with *)
(* the same loop written out for the slow component itself, which is here  *)
(* the expansion of an entry of depth 0.  A component may be reached again *)
(* at a higher latency, and is then expanded again, round cycles until the *)
(* depth limit.  Durations are in milliseconds.                            *)
(***************************************************************************)
EXTENDS CascadeRules, Sequences, FiniteSets

CONSTANTS Graphs,      \* the graphs a simulation may be run on
          Slow,        \* the components that may be slowed down
          Multiplier,  \* the slowdown
          MaxDepth     \* CascadeEngine.max_depth

(***************************************************************************)
(* dependents the components that depend on each one, in the order of      *)
(*            get_dependents, the insertion order of the edges             *)
(* latency    latency_ms of the edge <<d, u>> on which d depends on u      *)
(* breakers   the edges whose circuit breaker is enabled                   *)
(* timeout    the timeout of each component, 0 for none                    *)
(***************************************************************************)
LatencyGraph == [dependents : [Component -> Seq(Component)],
                 latency    : [Component \X Component -> Nat],
                 breakers   : SUBSET (Component \X Component),
                 timeout    : [Component -> Nat]]

ASSUME GraphsAssumption == \A g \in Graphs : g \in LatencyGraph

ASSUME SlowAssumption == Slow \subseteq Component \cup {Unknown}

ASSUME LimitsAssumption == Multiplier \in Nat /\ MaxDepth \in Nat

VARIABLES
  graph,    \* the graph, chosen once
  slow,     \* slow_component_id, Unknown before the simulation starts
  worst,    \* worst_latency; -1 for a missing key
  effects,  \* chain.effects through effect_index: what each component has
  queue,    \* bfs_queue
  at,       \* the entry being expanded
  todo,     \* its dependents that the loop has still to look at
  phase     \* "idle", "running" or "done"

vars == <<graph, slow, worst, effects, queue, at, todo, phase>>

Effect == [health : Health, latency : Nat]

NoEffect == [health |-> "healthy", latency |-> 0]

Entry == [comp : Component \cup {Unknown}, latency : Nat, depth : Nat]

TypeOK == /\ graph \in LatencyGraph
          /\ slow \in Component \cup {Unknown}
          /\ worst \in [Component -> Nat \cup {-1}]
          /\ effects \in [Component -> Effect]
          /\ queue \in Seq(Entry)
          /\ \A i \in DOMAIN queue : queue[i].comp \in Component
          /\ at \in Entry
          /\ todo \in Seq(Component)
          /\ todo # << >> => at.comp \in Component
          /\ phase \in {"idle", "running", "done"}
          /\ phase = "running" => slow \in Component

Init == /\ graph \in Graphs
        /\ slow = Unknown
        /\ worst = [c \in Component |-> -1]
        /\ effects = [c \in Component |-> NoEffect]
        /\ queue = << >>
        /\ at = [comp |-> Unknown, latency |-> 0, depth |-> 0]
        /\ todo = << >>
        /\ phase = "idle"

-----------------------------------------------------------------------------
\* The response time of the slow component: normally a tenth of its timeout.
SlowLatency(s) == (graph.timeout[s] * Multiplier) \div 10

\* The slow component is degraded; the loop over its dependents seeds the queue.
Start(s) ==
  /\ phase = "idle"
  /\ s \in Component
  /\ slow' = s
  /\ effects' = [effects EXCEPT ![s] = [health |-> "degraded", latency |-> SlowLatency(s)]]
  /\ worst' = [worst EXCEPT ![s] = 0]
  /\ at' = [comp |-> s, latency |-> SlowLatency(s), depth |-> 0]
  /\ todo' = graph.dependents[s]
  /\ phase' = "running"
  /\ UNCHANGED <<graph, queue>>

\* Mutant: the early return is missing.
StartUnknownProceeds(s) ==
  /\ phase = "idle"
  /\ s \notin Component
  /\ slow' = s
  /\ phase' = "running"
  /\ UNCHANGED <<graph, worst, effects, queue, at, todo>>

\* An unknown component has no effect on any other.
StartUnknown(s) ==
  /\ phase = "idle"
  /\ s \notin Component
  /\ phase' = "done"
  /\ UNCHANGED <<graph, slow, worst, effects, queue, at, todo>>

-----------------------------------------------------------------------------
(***************************************************************************)
(* One iteration of the loop over the dependents of the component being    *)
(* expanded, on the first dependent left.                                  *)
(***************************************************************************)
Visiting(d) == phase = "running" /\ todo # << >> /\ d = Head(todo)

Arriving(d) == at.latency + graph.latency[<<d, at.comp>>]

\* The latency arriving at d exceeds every one before it.
News(d) == Arriving(d) > worst[d]

\* Mutant: the breaker does not see the latency of its own edge.
TripsWithoutEdge(d) == /\ <<d, at.comp>> \in graph.breakers
                       /\ graph.timeout[d] > 0
                       /\ at.latency > graph.timeout[d]

\* The breaker of the edge is enabled and d would time out.
Trips(d) == /\ <<d, at.comp>> \in graph.breakers
            /\ graph.timeout[d] > 0
            /\ Arriving(d) > graph.timeout[d]

MaxHealth(a, b) == IF HEALTH_RANK(a) >= HEALTH_RANK(b) THEN a ELSE b

\* d has been reached at least as late before.
PassOver(d) ==
  /\ Visiting(d)
  /\ ~News(d)
  /\ todo' = Tail(todo)
  /\ UNCHANGED <<graph, slow, worst, effects, queue, at, phase>>

\* Mutant: the breaker resets what d has been found to be.
TripForgets(d) ==
  /\ Visiting(d)
  /\ News(d)
  /\ Trips(d)
  /\ effects' = [effects EXCEPT ![d] = [health |-> "degraded", latency |-> Arriving(d)]]
  /\ worst' = [worst EXCEPT ![d] = Arriving(d)]
  /\ todo' = Tail(todo)
  /\ UNCHANGED <<graph, slow, queue, at, phase>>

\* Rule 6: the breaker trips, d is degraded at least and the cascade stops.
Trip(d) ==
  /\ Visiting(d)
  /\ News(d)
  /\ Trips(d)
  /\ effects' = [effects EXCEPT ![d] = [health  |-> MaxHealth("degraded", @.health),
                                        latency |-> Arriving(d)]]
  /\ worst' = [worst EXCEPT ![d] = Arriving(d)]
  /\ todo' = Tail(todo)
  /\ UNCHANGED <<graph, slow, queue, at, phase>>

\* Mutants: the depth is not counted; worst_latency is not updated.
WaitSameDepth(d) ==
  /\ Visiting(d)
  /\ News(d)
  /\ ~Trips(d)
  /\ queue' = Append(queue, [comp |-> d, latency |-> Arriving(d), depth |-> at.depth])
  /\ worst' = [worst EXCEPT ![d] = Arriving(d)]
  /\ todo' = Tail(todo)
  /\ UNCHANGED <<graph, slow, effects, at, phase>>

WaitUnrecorded(d) ==
  /\ Visiting(d)
  /\ News(d)
  /\ ~Trips(d)
  /\ queue' = Append(queue, [comp |-> d, latency |-> Arriving(d), depth |-> at.depth + 1])
  /\ todo' = Tail(todo)
  /\ UNCHANGED <<graph, slow, worst, effects, at, phase>>

\* d has to wait for the latency arriving, and is queued.
Wait(d) ==
  /\ Visiting(d)
  /\ News(d)
  /\ ~Trips(d)
  /\ queue' = Append(queue, [comp |-> d, latency |-> Arriving(d), depth |-> at.depth + 1])
  /\ worst' = [worst EXCEPT ![d] = Arriving(d)]
  /\ todo' = Tail(todo)
  /\ UNCHANGED <<graph, slow, effects, at, phase>>

-----------------------------------------------------------------------------
(***************************************************************************)
(* The main loop: the next entry of the queue, when no dependents are left *)
(* to be looked at.                                                        *)
(***************************************************************************)
Popping == phase = "running" /\ todo = << >> /\ queue # << >>

Front == Head(queue)

TooDeep(e) == e.depth > MaxDepth

\* Since e was queued its component has been reached at a higher latency.
Stale(e) == e.latency < worst[e.comp]

TimedOut(e) == graph.timeout[e.comp] > 0 /\ e.latency > graph.timeout[e.comp]

NearTimeout(e) == /\ graph.timeout[e.comp] > 0
                  /\ 5 * e.latency > 4 * graph.timeout[e.comp]

\* Mutant: the entry is passed over without being taken off the queue.
DropPeeks ==
  /\ Popping
  /\ TooDeep(Front) \/ Stale(Front)
  /\ UNCHANGED vars

\* The entry is beyond the depth limit or stale.
Drop ==
  /\ Popping
  /\ TooDeep(Front) \/ Stale(Front)
  /\ queue' = Tail(queue)
  /\ UNCHANGED <<graph, slow, worst, effects, at, todo, phase>>

\* The latency is within the tolerance of the component: it goes no further.
Tolerate ==
  /\ Popping
  /\ ~TooDeep(Front) /\ ~Stale(Front)
  /\ ~NearTimeout(Front)
  /\ queue' = Tail(queue)
  /\ UNCHANGED <<graph, slow, worst, effects, at, todo, phase>>

\* Mutant: the effect that is replaced keeps its health.
ExpandKeepsHealth ==
  /\ Popping
  /\ ~TooDeep(Front) /\ ~Stale(Front)
  /\ NearTimeout(Front)
  /\ effects' = [effects EXCEPT ![Front.comp] =
                   [health  |-> IF @.health # "healthy" THEN @.health
                                ELSE IF TimedOut(Front) THEN "down" ELSE "degraded",
                    latency |-> Front.latency]]
  /\ at' = Front
  /\ todo' = graph.dependents[Front.comp]
  /\ queue' = Tail(queue)
  /\ UNCHANGED <<graph, slow, worst, phase>>

\* Rule 7: the component times out, or nearly so, and its dependents wait for it.
Expand ==
  /\ Popping
  /\ ~TooDeep(Front) /\ ~Stale(Front)
  /\ NearTimeout(Front)
  /\ effects' = [effects EXCEPT ![Front.comp] =
                   [health  |-> IF TimedOut(Front) THEN "down" ELSE "degraded",
                    latency |-> Front.latency]]
  /\ at' = Front
  /\ todo' = graph.dependents[Front.comp]
  /\ queue' = Tail(queue)
  /\ UNCHANGED <<graph, slow, worst, phase>>

Finish ==
  /\ phase = "running"
  /\ todo = << >>
  /\ queue = << >>
  /\ phase' = "done"
  /\ UNCHANGED <<graph, slow, worst, effects, queue, at, todo>>

\* simulate_latency_cascade has returned.
Terminated == phase = "done" /\ UNCHANGED vars

Simulate == \/ \E s \in Slow : Start(s) \/ StartUnknown(s)
            \/ \E d \in Component : PassOver(d) \/ Trip(d) \/ Wait(d)
            \/ Drop
            \/ Tolerate
            \/ Expand
            \/ Finish

Next == Simulate \/ Terminated

Spec == Init /\ [][Next]_vars

\* simulate_latency_cascade is a plain function call: it runs until it returns.
FairSpec == Spec /\ WF_vars(Simulate)

-----------------------------------------------------------------------------
(***************************************************************************)
(* The queue may hold several entries for one component, but only the last *)
(* can be fresh: they increase strictly in latency, up to at most what is  *)
(* recorded in worst_latency.  The depths are those of a breadth-first     *)
(* search: they never decrease along the queue, and no entry is more than  *)
(* one level below the component expanded last.                            *)
(***************************************************************************)
QueueOrdered ==
  \A i \in DOMAIN queue :
    /\ queue[i].latency <= worst[queue[i].comp]
    /\ queue[i].depth \in {at.depth, at.depth + 1}
    /\ \A j \in i + 1 .. Len(queue) :
         /\ queue[i].depth <= queue[j].depth
         /\ queue[i].comp = queue[j].comp => queue[i].latency < queue[j].latency

(***************************************************************************)
(* A component is reported down only if it times out at the latency it is  *)
(* reported with, and none but the slow component is reported at a latency *)
(* that it tolerates or that exceeds what it has been reached at.          *)
(***************************************************************************)
Reported(c) == [comp |-> c, latency |-> effects[c].latency, depth |-> 0]

ReportsJustified ==
  \A c \in Component :
    /\ effects[c].health \in {"healthy", "degraded", "down"}
    /\ effects[c].health = "down" => TimedOut(Reported(c))
    /\ effects[c].health # "healthy" /\ c # slow =>
         NearTimeout(Reported(c)) /\ effects[c].latency <= worst[c]

(***************************************************************************)
(* Circuit breakers contain the cascade: whatever is down waits for a      *)
(* failing component through an edge that no breaker protects.             *)
(***************************************************************************)
BreakersContain ==
  \A c \in Component : effects[c].health = "down" =>
    \E u \in Component : /\ effects[u].health # "healthy"
                         /\ \E i \in DOMAIN graph.dependents[u] : graph.dependents[u][i] = c
                         /\ <<c, u>> \notin graph.breakers

(***************************************************************************)
(* Monotonicity: no step improves the health reported for a component,     *)
(* lowers the latency reported for it, or forgets the latency it has been  *)
(* reached at, although its effect is replaced over and over.              *)
(***************************************************************************)
NeverImproves ==
  \A c \in Component :
    /\ HEALTH_RANK(effects'[c].health) >= HEALTH_RANK(effects[c].health)
    /\ effects'[c].latency >= effects[c].latency
    /\ worst'[c] >= worst[c]

Monotone == [][NeverImproves]_vars

\* simulate_latency_cascade returns, round the cycles of the graph too.
Returns == <>(phase = "done")

(***************************************************************************)
(* The latencies that arrive along the paths of exactly n edges from the   *)
(* slow component, when no breaker stops them; a path goes on from a       *)
(* component only at a latency which that component does not tolerate.     *)
(***************************************************************************)
Arrivals[n \in Nat] ==
  IF n = 0 THEN {<<slow, SlowLatency(slow)>>}
  ELSE UNION {{<<d, a[2] + graph.latency[<<d, a[1]>>]>> :
                 d \in {graph.dependents[a[1]][i] : i \in DOMAIN graph.dependents[a[1]]}} :
              a \in {b \in Arrivals[n - 1] :
                       n = 1 \/ NearTimeout([comp |-> b[1], latency |-> b[2], depth |-> n])}}

(***************************************************************************)
(* The worst path wins: when there is no breaker and no path longer than   *)
(* the depth limit, each component ends at the greatest latency that       *)
(* arrives at it, and is reported exactly as that latency deserves.        *)
(***************************************************************************)
WorstPathWins ==
  phase = "done" /\ slow \in Component /\ graph.breakers = {}
                 /\ Arrivals[MaxDepth + 1] = {} =>
    \A c \in Component \ {slow} :
      LET found == {a[2] : a \in {b \in UNION {Arrivals[n] : n \in 0 .. MaxDepth} : b[1] = c}}
          last  == [comp |-> c, latency |-> worst[c], depth |-> 0]
      IN  /\ worst[c] = IF found = {} THEN -1 ELSE CHOOSE l \in found : \A m \in found : m <= l
          /\ effects[c] = IF found = {} \/ ~NearTimeout(last) THEN NoEffect
                          ELSE [health  |-> IF TimedOut(last) THEN "down" ELSE "degraded",
                                latency |-> worst[c]]

=============================================================================
