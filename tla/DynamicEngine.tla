--------------------------- MODULE DynamicEngine ---------------------------
(***************************************************************************)
(* The time-stepped engine (simulator/dynamic_engine.py).  In every time   *)
(* step traffic sets the utilization and with it the health of each        *)
(* component, then autoscaling, failover and circuit breakers react to it, *)
(* each with timers of its own, and the cascade engine is asked what the   *)
(* faults of the scenario do behind the breakers that are open.            *)
(*                                                                         *)
(* Points in time are kept as ages, which grow up to the value from which  *)
(* on the code no longer tells them apart, so that one finite model stands *)
(* for runs of every length.  A utilization is a fraction of integers.     *)
(***************************************************************************)
EXTENDS CascadeRules

CONSTANTS Scenarios,    \* graphs with their settings, faults and targets of traffic
          Multipliers,  \* what the traffic pattern may return, in whole multiples
          Step,         \* time_step_seconds
          MaxReplicas   \* no component has more than this

CBState == {"CLOSED", "OPEN", "HALF_OPEN"}

Edge == Component \X Component

(***************************************************************************)
(* A scenario: the graph, with the settings of each component and of the   *)
(* edges that have a circuit breaker, the faults, which are active all the *)
(* time, and the components that the traffic pattern is aimed at.  Ratios  *)
(* are in tenths, a coalesce ratio of 0 stands for no singleflight.        *)
(***************************************************************************)
Scenario ==
  [graph    : {g \in Graph : \A c \in Component : g.type[c] = "plain"},
   faults   : SUBSET [target : Component, type : FaultType],
   targeted : SUBSET Component,
   health   : [Component -> Health],
   base     : [Component -> Nat],
   replicas : [Component -> Nat \ {0}],
   coalesce : [Component -> 0 .. 10],
   scaling  : [Component -> [enabled : BOOLEAN, min : Nat \ {0}, max : Nat \ {0},
                             up : Nat, down : Nat, upDelay : Nat, downDelay : Nat,
                             step : Nat]],
   failover : [Component -> [enabled : BOOLEAN, promotion : Nat,
                             interval : Nat, threshold : Nat]],
   warming  : [Component -> [enabled : BOOLEAN, hit : 0 .. 10, duration : Nat]],
   breaker  : [Edge -> [enabled : BOOLEAN, threshold : Nat, timeout : Nat]]]

ASSUME StepAssumption == Step \in Nat \ {0}

ASSUME MultipliersAssumption == Multipliers \subseteq Nat

ASSUME ScenariosAssumption == Scenarios \subseteq Scenario

VARIABLES scenario,   \* chosen once
          phase,      \* the handler that is next within the time step
          multiplier, \* of the traffic in this step
          comp,       \* _ComponentDynamicState of each component
          breaker,    \* _CircuitBreakerDynamicState of each protected edge
          effects,    \* the cascade effects in the last snapshot
          illFor      \* observer: the checks in a row, up to the threshold of the
                      \* edge, at which its target was unhealthy

vars == <<scenario, phase, multiplier, comp, breaker, effects, illFor>>

Protected == {e \in Edge : scenario.graph.edge[e] # "none" /\ scenario.breaker[e].enabled}

ComponentState ==
  [health : Health, util : [num : Nat, den : Nat \ {0}], replicas : Nat \ {0},
   pendingUp : Nat, pendingDown : Nat,
   failures : Nat, failing : BOOLEAN, elapsed : Nat, recovery : Nat,
   warming : BOOLEAN, warmFor : Nat]

BreakerState == [state : CBState, failures : Nat, openFor : Nat, opens : Nat]

TypeOK == /\ scenario \in Scenario
          /\ phase \in {"traffic", "scaling", "failover", "breakers", "cascade"}
          /\ multiplier \in Nat
          /\ comp \in [Component -> ComponentState]
          /\ breaker \in [Protected -> BreakerState]
          /\ effects \in SUBSET [component : Component, health : Health]
          /\ illFor \in [Protected -> Nat]

Init == /\ scenario \in Scenarios
        /\ phase = "traffic"
        /\ multiplier = 1
        /\ comp = [c \in Component |->
                     [health |-> scenario.health[c],
                      util |-> [num |-> scenario.base[c], den |-> 1],
                      replicas |-> scenario.replicas[c],
                      pendingUp |-> 0, pendingDown |-> 0,
                      failures |-> 0, failing |-> FALSE, elapsed |-> 0, recovery |-> 0,
                      warming |-> FALSE, warmFor |-> 0]]
        /\ breaker = [e \in Protected |->
                        [state |-> "CLOSED", failures |-> 0, openFor |-> 0, opens |-> 0]]
        /\ effects = {}
        /\ illFor = [e \in Protected |-> 0]

Lesser(a, b) == IF a < b THEN a ELSE b
Greater(a, b) == IF a < b THEN b ELSE a

-----------------------------------------------------------------------------
(* Traffic. *)

Above(util, percent) == util.num > percent * util.den
Below(util, percent) == util.num < percent * util.den

HealthAt(util) == IF Above(util, 100) THEN "down"
                  ELSE IF Above(util, 90) THEN "overloaded"
                  ELSE IF Above(util, 70) THEN "degraded"
                  ELSE "healthy"

\* The load m on s.replicas replicas, a scenario's base being for the initial number.
Utilization(c, s, m) ==
  [num |-> scenario.base[c] * m * (10 - scenario.coalesce[c]) * scenario.replicas[c],
   den |-> 10 * s.replicas]

StillWarming(c, s) == s.warming /\ s.warmFor < scenario.warming[c].duration

\* The cache misses of a component that is warming up: 1 + 2 * (1 - current_hit_ratio).
Penalized(c, s, util) ==
  LET w == scenario.warming[c]
  IN  [num |-> util.num * (10 * w.duration + 2 * (10 - w.hit) * (w.duration - s.warmFor)),
       den |-> util.den * 10 * w.duration]

UnderTraffic(c, m) ==
  LET s == comp[c]
      calm == [num |-> scenario.base[c] * scenario.replicas[c], den |-> s.replicas]
      warm == Utilization(c, s, m)
      util == IF StillWarming(c, s) THEN Penalized(c, s, warm) ELSE warm
  IN  IF s.health = "down" THEN s
      ELSE IF c \notin scenario.targeted THEN [s EXCEPT !.util = calm]
      ELSE [s EXCEPT !.util = util,
                     !.warming = StillWarming(c, s),
                     !.health = IF s.failing THEN @ ELSE HealthAt(util)]

ApplyTraffic(m) ==
  /\ phase = "traffic"
  /\ phase' = "scaling"
  /\ multiplier' = m
  /\ comp' = [c \in Component |-> UnderTraffic(c, m)]
  /\ UNCHANGED <<scenario, breaker, effects, illFor>>

-----------------------------------------------------------------------------
(* Autoscaling. *)

\* Extra replicas after the delay, or at once and twice as many in an emergency.
ScaledUp(cfg, s) ==
  LET pending == s.pendingUp + Step
      emergency == Above(s.util, 90)
      size == IF emergency THEN cfg.step * 2 ELSE cfg.step
      new == Greater(s.replicas, Lesser(s.replicas + size, cfg.max))
  IN  IF ~Above(s.util, cfg.up) THEN [s EXCEPT !.pendingUp = 0]
      ELSE IF emergency \/ pending >= cfg.upDelay
      THEN [s EXCEPT !.replicas = new, !.pendingUp = 0, !.pendingDown = 0]
      ELSE [s EXCEPT !.pendingUp = pending, !.pendingDown = 0]

\* Mutant: whatever does not ask for more replicas does with fewer.
ScaledDownEager(cfg, s) ==
  LET pending == s.pendingDown + Step
      new == Lesser(s.replicas, Greater(s.replicas - 1, cfg.min))
  IN  IF ~Below(s.util, cfg.up) THEN [s EXCEPT !.pendingDown = 0]
      ELSE IF pending >= cfg.downDelay
      THEN [s EXCEPT !.replicas = new, !.pendingDown = 0]
      ELSE [s EXCEPT !.pendingDown = pending]

ScaledDown(cfg, s) ==
  LET pending == s.pendingDown + Step
      new == Lesser(s.replicas, Greater(s.replicas - 1, cfg.min))
  IN  IF ~Below(s.util, cfg.down) THEN [s EXCEPT !.pendingDown = 0]
      ELSE IF pending >= cfg.downDelay
      THEN [s EXCEPT !.replicas = new, !.pendingDown = 0]
      ELSE [s EXCEPT !.pendingDown = pending]

Scaled(c) == LET cfg == scenario.scaling[c]
             IN  IF cfg.enabled THEN ScaledDown(cfg, ScaledUp(cfg, comp[c])) ELSE comp[c]

EvaluateAutoscaling ==
  /\ phase = "scaling"
  /\ phase' = "failover"
  /\ comp' = [c \in Component |-> Scaled(c)]
  /\ UNCHANGED <<scenario, multiplier, breaker, effects, illFor>>

-----------------------------------------------------------------------------
(* Failover: detection, promotion, recovery. *)

DownFaults == {"component_down", "network_partition", "memory_exhaustion",
               "connection_pool_exhaustion", "disk_full"}

FaultedDown(c) == \E f \in scenario.faults : f.target = c /\ f.type \in DownFaults

\* Mutant: the countdown is not stopped at its end.
RecoveredPastEnd(c, s) ==
  [s EXCEPT !.recovery = @ - Step, !.health = IF s.recovery > Step THEN @ ELSE "healthy"]

\* Recovery counts down; at its end the component is healthy, with a cold cache.
Recovered(c, s) ==
  IF s.recovery > Step THEN [s EXCEPT !.recovery = @ - Step]
  ELSE LET cold == scenario.warming[c].enabled /\ ~s.warming
       IN  [s EXCEPT !.recovery = 0, !.health = "healthy",
                     !.warming = s.warming \/ cold,
                     !.warmFor = IF cold THEN 0 ELSE @]

\* Mutant: the failures that started this failover count for the next one.
PromotedKeepsCount(c, s) ==
  LET promotion == scenario.failover[c].promotion
      elapsed == s.elapsed + Step
  IN  IF elapsed >= promotion
      THEN [s EXCEPT !.elapsed = elapsed, !.failing = FALSE, !.health = "degraded",
                     !.recovery = Greater(Step, promotion \div 2)]
      ELSE [s EXCEPT !.elapsed = elapsed, !.health = "down"]

\* Mutant: the time of the promotion is compared but not accumulated.
PromotedForgets(c, s) ==
  LET promotion == scenario.failover[c].promotion
      elapsed == s.elapsed + Step
  IN  IF elapsed >= promotion
      THEN [s EXCEPT !.elapsed = elapsed, !.failing = FALSE, !.health = "degraded",
                     !.recovery = Greater(Step, promotion \div 2), !.failures = 0]
      ELSE [s EXCEPT !.health = "down"]

Promoted(c, s) ==
  LET promotion == scenario.failover[c].promotion
      elapsed == s.elapsed + Step
  IN  IF elapsed >= promotion
      THEN [s EXCEPT !.elapsed = elapsed, !.failing = FALSE, !.health = "degraded",
                     !.recovery = Greater(Step, promotion \div 2), !.failures = 0]
      ELSE [s EXCEPT !.elapsed = elapsed, !.health = "down"]

Detected(c, s) ==
  LET cfg == scenario.failover[c]
      failures == s.failures + Greater(1, Step \div Greater(1, cfg.interval))
      start == failures >= cfg.threshold
  IN  [s EXCEPT !.health = "down", !.failures = failures, !.failing = start,
                !.elapsed = IF start THEN 0 ELSE @]

FailedOver(c) ==
  LET s == comp[c]
  IN  IF ~scenario.failover[c].enabled THEN s
      ELSE IF s.recovery > 0 THEN Recovered(c, s)
      ELSE IF s.failing THEN Promoted(c, s)
      ELSE IF s.health = "down" \/ FaultedDown(c) THEN Detected(c, s)
      ELSE [s EXCEPT !.failures = 0]

EvaluateFailover ==
  /\ phase = "failover"
  /\ phase' = "breakers"
  /\ comp' = [c \in Component |-> FailedOver(c)]
  /\ UNCHANGED <<scenario, multiplier, breaker, effects, illFor>>

-----------------------------------------------------------------------------
(* Circuit breakers. *)

TargetUnhealthy(e) == comp[e[2]].health \in {"down", "overloaded"}

\* From this number of consecutive opens on the timeout is the configured one.
MaxOpens == 2

\* A third of the timeout the first time, then two thirds, then the whole of it.
TimeoutElapsed(e) ==
  LET b == breaker[e]
      timeout == scenario.breaker[e].timeout
  IN  IF b.opens = 0 THEN b.openFor >= Step /\ 3 * b.openFor >= timeout
      ELSE 3 * b.openFor >= Lesser(3 * timeout, timeout * 2 ^ b.opens)

\* Mutant: a check that the target passes does not interrupt the count.
ClosedNextKeepsCount(e) ==
  LET b == breaker[e]
  IN  IF ~TargetUnhealthy(e) THEN b
      ELSE IF b.failures + 1 >= scenario.breaker[e].threshold
      THEN [b EXCEPT !.failures = @ + 1, !.state = "OPEN", !.openFor = 0]
      ELSE [b EXCEPT !.failures = @ + 1]

ClosedNext(e) ==
  LET b == breaker[e]
  IN  IF ~TargetUnhealthy(e) THEN [b EXCEPT !.failures = 0]
      ELSE IF b.failures + 1 >= scenario.breaker[e].threshold
      THEN [b EXCEPT !.failures = @ + 1, !.state = "OPEN", !.openFor = 0]
      ELSE [b EXCEPT !.failures = @ + 1]

OpenNext(e) ==
  IF TimeoutElapsed(e) THEN [breaker[e] EXCEPT !.state = "HALF_OPEN"] ELSE breaker[e]

\* Mutant: the breaker is tested, and trusted never again.
HalfOpenNextDistrusts(e) ==
  LET b == breaker[e]
  IN  IF TargetUnhealthy(e)
      THEN [b EXCEPT !.state = "OPEN", !.openFor = 0, !.opens = Lesser(@ + 1, MaxOpens)]
      ELSE b

HalfOpenNext(e) ==
  LET b == breaker[e]
  IN  IF comp[e[2]].health = "healthy"
      THEN [b EXCEPT !.state = "CLOSED", !.failures = 0, !.opens = 0]
      ELSE IF TargetUnhealthy(e)
      THEN [b EXCEPT !.state = "OPEN", !.openFor = 0, !.opens = Lesser(@ + 1, MaxOpens)]
      ELSE b

BreakerNext(e) == CASE breaker[e].state = "CLOSED"    -> ClosedNext(e)
                    [] breaker[e].state = "OPEN"      -> OpenNext(e)
                    [] breaker[e].state = "HALF_OPEN" -> HalfOpenNext(e)

EvaluateCircuitBreakers ==
  /\ phase = "breakers"
  /\ phase' = "cascade"
  /\ breaker' = [e \in Protected |-> BreakerNext(e)]
  /\ illFor' = [e \in Protected |->
                  IF TargetUnhealthy(e)
                  THEN Lesser(illFor[e] + 1, scenario.breaker[e].threshold) ELSE 0]
  /\ UNCHANGED <<scenario, multiplier, comp, effects>>

-----------------------------------------------------------------------------
(* The cascade of the step, its snapshot, and the clock. *)

Blocked == {e[2] : e \in {x \in Protected : breaker[x].state = "OPEN"}}

\* What simulate_fault reports of a fault.
Chain(f) ==
  LET health == Outcome(scenario.graph, f.target, DirectHealth(f.type))
  IN  {[component |-> c, health |-> health[c]] : c \in {x \in Component : health[x] # "healthy"}}

FaultEffects(f) ==
  {eff \in Chain(f) : eff.component = f.target \/ f.target \notin Blocked}

FaultTargets == {f.target : f \in scenario.faults}

TrafficEffects ==
  {[component |-> c, health |-> comp[c].health] :
     c \in {x \in Component \ FaultTargets : comp[x].health # "healthy"}}

\* A step later: ages grow as long as a comparison can tell.
Older(c) ==
  IF comp[c].warming
  THEN [comp[c] EXCEPT !.warmFor = Lesser(@ + Step, scenario.warming[c].duration)]
  ELSE comp[c]

OlderBreaker(e) ==
  IF breaker[e].state = "OPEN"
  THEN [breaker[e] EXCEPT !.openFor =
          Lesser(@ + Step, Greater(Step, scenario.breaker[e].timeout))]
  ELSE breaker[e]

RunCascadeAtStep ==
  /\ phase = "cascade"
  /\ phase' = "traffic"
  /\ effects' = (UNION {FaultEffects(f) : f \in scenario.faults}) \cup TrafficEffects
  /\ comp' = [c \in Component |-> Older(c)]
  /\ breaker' = [e \in Protected |-> OlderBreaker(e)]
  /\ UNCHANGED <<scenario, multiplier, illFor>>

Next == \/ \E m \in Multipliers : ApplyTraffic(m)
        \/ EvaluateAutoscaling
        \/ EvaluateFailover
        \/ EvaluateCircuitBreakers
        \/ RunCascadeAtStep

Spec == Init /\ [][Next]_vars

FairSpec == Spec /\ WF_vars(Next)

-----------------------------------------------------------------------------

(***************************************************************************)
(* The timers of a failover agree with each other and with the health of   *)
(* the component (_evaluate_failover): a component is down as long as a    *)
(* replica is being promoted, a promotion is over when its time is, and    *)
(* one that recovers starts the detection of the next failure from zero.   *)
(***************************************************************************)
TimersAgree ==
  \A c \in Component :
    /\ comp[c].failing => /\ comp[c].health = "down"
                         /\ comp[c].recovery = 0
                         /\ comp[c].failures >= scenario.failover[c].threshold
    /\ comp[c].recovery > 0 => comp[c].failures = 0

(***************************************************************************)
(* A closed breaker has counted exactly the failed checks since the last   *)
(* one that its target passed (_evaluate_circuit_breakers, CLOSED): it     *)
(* opens on that many in a row and on nothing less, also after it has been *)
(* open before.                                                            *)
(***************************************************************************)
OpensOnStreak ==
  \A e \in Protected : breaker[e].state = "CLOSED" => breaker[e].failures = illFor[e]

(***************************************************************************)
(* Whatever brought a component with failover down, a fault, the traffic,  *)
(* or traffic during the recovery of the last one, brings up a replica     *)
(* (_evaluate_failover: detection, promotion and recovery all end).        *)
(***************************************************************************)
ComesBack ==
  \A c \in Component :
    scenario.failover[c].enabled /\ comp[c].health = "down" ~> comp[c].health # "down"

(***************************************************************************)
(* A breaker does not stay open, nor half open, before a target that is    *)
(* well for good (_evaluate_circuit_breakers: every timeout elapses, and   *)
(* the test after it closes the breaker).                                  *)
(***************************************************************************)
BreakerHeals ==
  \A e \in Edge :
    <>[](e \in Protected => comp[e[2]].health = "healthy")
      => <>[](e \in Protected => breaker[e].state = "CLOSED")

(***************************************************************************)
(* Under steady traffic the number of replicas settles: scaling up does    *)
(* not cause scaling down, nor the other way round (_evaluate_autoscaling),*)
(* failovers and warming caches in between included.  Not so under a fault *)
(* that brings the component down again and again: the utilization then    *)
(* stays what it was when it went down, and is acted upon all the same.    *)
(***************************************************************************)
ScalingSettles ==
  \A c \in Component :
    (\E m \in Multipliers : <>[](multiplier = m /\ ~FaultedDown(c)))
      => \E r \in 1 .. MaxReplicas : <>[](comp[c].replicas = r)

(***************************************************************************)
(* What the docstring of _run_cascade_at_step says of open breakers: they  *)
(* suppress effects that would propagate through the protected edge.  What *)
(* a fault does to a component that calls its target without a breaker is  *)
(* in the snapshot of every step.  (Before the first there is none.)       *)
(***************************************************************************)
OthersAffected ==
  phase = "traffic" /\ effects # {} =>
    \A f \in scenario.faults, c \in Component :
      CascadeHealth(scenario.graph, c, f.target, DirectHealth(f.type)) # "healthy"
        => <<c, f.target>> \in Protected \/ \E eff \in effects : eff.component = c

=============================================================================
