--------------------------- MODULE DynamicProofs ---------------------------
(***************************************************************************)
(* Proofs about the time-stepped engine, for every set of scenarios, every *)
(* traffic and every time step.                                            *)
(***************************************************************************)
EXTENDS DynamicEngine, TLAPS

-----------------------------------------------------------------------------
(* Numbers. *)

LEMMA LesserNat ==
  ASSUME NEW a \in Nat, NEW b \in Nat
  PROVE  Lesser(a, b) \in Nat /\ Lesser(a, b) <= a /\ Lesser(a, b) <= b
BY DEF Lesser

LEMMA GreaterNat ==
  ASSUME NEW a \in Nat, NEW b \in Nat
  PROVE  Greater(a, b) \in Nat /\ Greater(a, b) >= a /\ Greater(a, b) >= b
BY DEF Greater

LEMMA TimesNat ==
  ASSUME NEW a \in Nat, NEW b \in Nat
  PROVE  a * b \in Nat
OBVIOUS

LEMMA TimesPositive ==
  ASSUME NEW a \in Nat \ {0}, NEW b \in Nat \ {0}
  PROVE  a * b \in Nat \ {0}
OBVIOUS

LEMMA DivNat ==
  ASSUME NEW a \in Nat, NEW b \in Nat \ {0}
  PROVE  a \div b \in Nat
OBVIOUS

-----------------------------------------------------------------------------
(* Settings. *)

\* The settings of a component are of the types that the handlers expect.
LEMMA Settings ==
  ASSUME TypeOK, NEW c \in Component
  PROVE  /\ scenario.base[c] \in Nat
         /\ scenario.replicas[c] \in Nat \ {0}
         /\ scenario.coalesce[c] \in 0 .. 10
         /\ scenario.scaling[c] \in
              [enabled : BOOLEAN, min : Nat \ {0}, max : Nat \ {0}, up : Nat,
               down : Nat, upDelay : Nat, downDelay : Nat, step : Nat]
         /\ scenario.failover[c] \in
              [enabled : BOOLEAN, promotion : Nat, interval : Nat, threshold : Nat]
         /\ scenario.warming[c] \in [enabled : BOOLEAN, hit : 0 .. 10, duration : Nat]
         /\ comp[c] \in ComponentState
BY DEF TypeOK, Scenario

LEMMA BreakerSettings ==
  ASSUME TypeOK, NEW e \in Protected
  PROVE  /\ e \in Edge /\ e[2] \in Component
         /\ scenario.breaker[e] \in [enabled : BOOLEAN, threshold : Nat, timeout : Nat]
         /\ breaker[e] \in BreakerState
         /\ illFor[e] \in Nat
<1>1. e \in Edge
  BY DEF Protected
<1>2. scenario.breaker[e] \in [enabled : BOOLEAN, threshold : Nat, timeout : Nat]
  BY <1>1 DEF TypeOK, Scenario
<1>3. QED
  BY <1>1, <1>2 DEF TypeOK, Edge

\* Each field can be set on its own.
LEMMA Fields ==
  ASSUME NEW s \in ComponentState
  PROVE  /\ \A v \in Health : [s EXCEPT !.health = v] \in ComponentState
         /\ \A v \in Nat \ {0} : [s EXCEPT !.replicas = v] \in ComponentState
         /\ \A v \in Nat : [s EXCEPT !.pendingUp = v] \in ComponentState
         /\ \A v \in Nat : [s EXCEPT !.pendingDown = v] \in ComponentState
         /\ \A v \in Nat : [s EXCEPT !.failures = v] \in ComponentState
         /\ \A v \in BOOLEAN : [s EXCEPT !.failing = v] \in ComponentState
         /\ \A v \in Nat : [s EXCEPT !.elapsed = v] \in ComponentState
         /\ \A v \in Nat : [s EXCEPT !.recovery = v] \in ComponentState
         /\ \A v \in BOOLEAN : [s EXCEPT !.warming = v] \in ComponentState
         /\ \A v \in Nat : [s EXCEPT !.warmFor = v] \in ComponentState
BY DEF ComponentState

-----------------------------------------------------------------------------
(* Traffic. *)

LEMMA UtilizationTyped ==
  ASSUME TypeOK, NEW c \in Component, NEW m \in Nat
  PROVE  Utilization(c, comp[c], m) \in [num : Nat, den : Nat \ {0}]
<1> DEFINE s == comp[c]
<1>1. /\ scenario.base[c] \in Nat
      /\ scenario.replicas[c] \in Nat
      /\ 10 - scenario.coalesce[c] \in Nat
  BY Settings
<1>2. s.replicas \in Nat \ {0}
  BY Settings DEF ComponentState
<1>3. scenario.base[c] * m \in Nat
  BY <1>1, TimesNat
<1>4. scenario.base[c] * m * (10 - scenario.coalesce[c]) \in Nat
  BY <1>1, <1>3, TimesNat
<1>5. scenario.base[c] * m * (10 - scenario.coalesce[c]) * scenario.replicas[c] \in Nat
  BY <1>1, <1>4, TimesNat
<1>6. 10 * s.replicas \in Nat \ {0}
  BY <1>2
<1>7. QED
  BY <1>5, <1>6 DEF Utilization

\* The penalty is defined only within the duration, which is then not zero.
LEMMA PenalizedTyped ==
  ASSUME TypeOK, NEW c \in Component, StillWarming(c, comp[c]),
         NEW util \in [num : Nat, den : Nat \ {0}]
  PROVE  Penalized(c, comp[c], util) \in [num : Nat, den : Nat \ {0}]
<1> DEFINE w == scenario.warming[c]
           left == w.duration - comp[c].warmFor
           factor == 10 * w.duration + 2 * (10 - w.hit) * left
<1>1. /\ w.duration \in Nat /\ 10 - w.hit \in Nat
      /\ comp[c].warmFor \in Nat
  BY Settings DEF ComponentState
<1>2. comp[c].warmFor < w.duration
  BY DEF StillWarming
<1>3. w.duration \in Nat \ {0} /\ left \in Nat
  BY <1>1, <1>2
<1>4. 2 * (10 - w.hit) \in Nat
  BY <1>1
<1>5. 2 * (10 - w.hit) * left \in Nat
  BY <1>3, <1>4, TimesNat
<1>6. factor \in Nat
  BY <1>3, <1>5
<1>7. util.num * factor \in Nat
  BY <1>6, TimesNat
<1>8. util.den * 10 \in Nat \ {0}
  OBVIOUS
<1>9. util.den * 10 * w.duration \in Nat \ {0}
  BY <1>3, <1>8, TimesPositive
<1>10. QED
  BY <1>7, <1>9 DEF Penalized

\* Traffic moves no timer of the failover, and spares what is being promoted.
LEMMA UnderTrafficTyped ==
  ASSUME TypeOK, NEW c \in Component, NEW m \in Nat
  PROVE  LET s == comp[c]
             t == UnderTraffic(c, m)
         IN  /\ t \in ComponentState
             /\ t.failing = s.failing /\ t.failures = s.failures
             /\ t.recovery = s.recovery
             /\ s.failing => t.health = s.health
<1> DEFINE s == comp[c]
           t == UnderTraffic(c, m)
           calm == [num |-> scenario.base[c] * scenario.replicas[c], den |-> s.replicas]
           warm == Utilization(c, s, m)
           util == IF StillWarming(c, s) THEN Penalized(c, s, warm) ELSE warm
<1>1. s \in ComponentState
  BY Settings
<1>2. calm \in [num : Nat, den : Nat \ {0}]
  <2>1. scenario.base[c] * scenario.replicas[c] \in Nat
    BY Settings, TimesNat
  <2>2. QED
    BY <1>1, <2>1 DEF ComponentState
<1>3. util \in [num : Nat, den : Nat \ {0}]
  BY UtilizationTyped, PenalizedTyped
<1>4. HealthAt(util) \in Health
  BY DEF HealthAt, Health
<1>5. StillWarming(c, s) \in BOOLEAN
  BY DEF StillWarming
<1>6. CASE s.health = "down"
  BY <1>1, <1>6 DEF UnderTraffic
<1>7. CASE s.health # "down" /\ c \notin scenario.targeted
  BY <1>1, <1>2, <1>7 DEF UnderTraffic, ComponentState
<1>8. CASE s.health # "down" /\ c \in scenario.targeted
  <2>1. t = [s EXCEPT !.util = util, !.warming = StillWarming(c, s),
                      !.health = IF s.failing THEN @ ELSE HealthAt(util)]
    BY <1>8 DEF UnderTraffic
  <2> HIDE DEF util
  <2>2. QED
    BY <1>1, <1>3, <1>4, <1>5, <2>1 DEF ComponentState
<1>9. QED
  BY <1>6, <1>7, <1>8

-----------------------------------------------------------------------------
(* Autoscaling. *)

SameTimers(s, t) == /\ t.health = s.health
                    /\ t.failing = s.failing
                    /\ t.failures = s.failures
                    /\ t.recovery = s.recovery

LEMMA ScaledUpTyped ==
  ASSUME NEW s \in ComponentState,
         NEW cfg \in [enabled : BOOLEAN, min : Nat \ {0}, max : Nat \ {0}, up : Nat,
                     down : Nat, upDelay : Nat, downDelay : Nat, step : Nat]
  PROVE  ScaledUp(cfg, s) \in ComponentState /\ SameTimers(s, ScaledUp(cfg, s))
<1> DEFINE pending == s.pendingUp + Step
           size == IF Above(s.util, 90) THEN cfg.step * 2 ELSE cfg.step
           new == Greater(s.replicas, Lesser(s.replicas + size, cfg.max))
<1>1. s.replicas \in Nat \ {0} /\ pending \in Nat
  BY StepAssumption DEF ComponentState
<1>2. s.replicas + size \in Nat
  BY <1>1
<1>3. Lesser(s.replicas + size, cfg.max) \in Nat
  BY <1>2, LesserNat
<1>4. new \in Nat \ {0}
  <2>1. new \in Nat /\ new >= s.replicas
    BY <1>1, <1>3, GreaterNat
  <2>2. QED
    BY <1>1, <2>1
<1>5. \/ ScaledUp(cfg, s) = [s EXCEPT !.pendingUp = 0]
      \/ ScaledUp(cfg, s) =
           [s EXCEPT !.replicas = new, !.pendingUp = 0, !.pendingDown = 0]
      \/ ScaledUp(cfg, s) = [s EXCEPT !.pendingUp = pending, !.pendingDown = 0]
  BY DEF ScaledUp
<1> HIDE DEF new, pending
<1>6. CASE ScaledUp(cfg, s) = [s EXCEPT !.pendingUp = 0]
  BY <1>6 DEF ComponentState, SameTimers
<1>7. CASE ScaledUp(cfg, s) =
             [s EXCEPT !.replicas = new, !.pendingUp = 0, !.pendingDown = 0]
  <2> DEFINE a == [s EXCEPT !.replicas = new]
             b == [a EXCEPT !.pendingUp = 0]
  <2>1. a \in ComponentState
    BY <1>4, Fields
  <2>2. b \in ComponentState
    BY <2>1, Fields
  <2>3. [b EXCEPT !.pendingDown = 0] \in ComponentState
    BY <2>2, Fields
  <2>4. SameTimers(s, ScaledUp(cfg, s))
    BY <1>7 DEF ComponentState, SameTimers
  <2>5. QED
    BY <1>7, <2>3, <2>4
<1>8. CASE ScaledUp(cfg, s) = [s EXCEPT !.pendingUp = pending, !.pendingDown = 0]
  <2>1. [s EXCEPT !.pendingUp = pending] \in ComponentState
    BY <1>1, Fields
  <2>2. [s EXCEPT !.pendingUp = pending, !.pendingDown = 0] \in ComponentState
    BY <2>1, Fields
  <2>3. SameTimers(s, ScaledUp(cfg, s))
    BY <1>8 DEF ComponentState, SameTimers
  <2>4. QED
    BY <1>8, <2>2, <2>3
<1>9. QED
  BY <1>5, <1>6, <1>7, <1>8

LEMMA ScaledDownTyped ==
  ASSUME NEW s \in ComponentState,
         NEW cfg \in [enabled : BOOLEAN, min : Nat \ {0}, max : Nat \ {0}, up : Nat,
                     down : Nat, upDelay : Nat, downDelay : Nat, step : Nat]
  PROVE  ScaledDown(cfg, s) \in ComponentState /\ SameTimers(s, ScaledDown(cfg, s))
<1> DEFINE pending == s.pendingDown + Step
           new == Lesser(s.replicas, Greater(s.replicas - 1, cfg.min))
<1>1. s.replicas \in Nat \ {0} /\ s.replicas - 1 \in Nat /\ pending \in Nat
  BY StepAssumption DEF ComponentState
<1>2. /\ Greater(s.replicas - 1, cfg.min) \in Nat
      /\ Greater(s.replicas - 1, cfg.min) >= cfg.min
  BY <1>1, GreaterNat
<1>3. new \in Nat \ {0}
  BY <1>1, <1>2 DEF Lesser
<1>4. \/ ScaledDown(cfg, s) = [s EXCEPT !.pendingDown = 0]
      \/ ScaledDown(cfg, s) = [s EXCEPT !.replicas = new, !.pendingDown = 0]
      \/ ScaledDown(cfg, s) = [s EXCEPT !.pendingDown = pending]
  BY DEF ScaledDown
<1> HIDE DEF new, pending
<1>5. CASE ScaledDown(cfg, s) = [s EXCEPT !.pendingDown = 0]
  BY <1>5 DEF ComponentState, SameTimers
<1>6. CASE ScaledDown(cfg, s) = [s EXCEPT !.replicas = new, !.pendingDown = 0]
  <2>1. [s EXCEPT !.replicas = new] \in ComponentState
    BY <1>3, Fields
  <2>2. [s EXCEPT !.replicas = new, !.pendingDown = 0] \in ComponentState
    BY <2>1, Fields
  <2>3. SameTimers(s, ScaledDown(cfg, s))
    BY <1>6 DEF ComponentState, SameTimers
  <2>4. QED
    BY <1>6, <2>2, <2>3
<1>7. CASE ScaledDown(cfg, s) = [s EXCEPT !.pendingDown = pending]
  BY <1>1, <1>7 DEF ComponentState, SameTimers
<1>8. QED
  BY <1>4, <1>5, <1>6, <1>7

\* Autoscaling sees the health of a component as little as it changes it.
LEMMA ScaledTyped ==
  ASSUME TypeOK, NEW c \in Component
  PROVE  Scaled(c) \in ComponentState /\ SameTimers(comp[c], Scaled(c))
<1> DEFINE s == comp[c]
           cfg == scenario.scaling[c]
           up == ScaledUp(cfg, s)
<1>1. s \in ComponentState
  BY Settings
<1>2. CASE cfg.enabled
  <2>1. up \in ComponentState /\ SameTimers(s, up)
    BY <1>1, Settings, ScaledUpTyped
  <2>2. ScaledDown(cfg, up) \in ComponentState /\ SameTimers(up, ScaledDown(cfg, up))
    BY <2>1, Settings, ScaledDownTyped
  <2>3. Scaled(c) = ScaledDown(cfg, up)
    BY <1>2 DEF Scaled
  <2>4. QED
    BY <2>1, <2>2, <2>3 DEF SameTimers
<1>3. CASE ~cfg.enabled
  BY <1>1, <1>3 DEF Scaled, SameTimers
<1>4. QED
  BY <1>2, <1>3

-----------------------------------------------------------------------------
(* Failover. *)

\* What the timers of one component have to agree on.
Agreed(c, s) ==
  /\ s.failing => /\ s.health = "down"
                 /\ s.recovery = 0
                 /\ s.failures >= scenario.failover[c].threshold
  /\ s.recovery > 0 => s.failures = 0

LEMMA RecoveredTyped ==
  ASSUME TypeOK, NEW c \in Component, NEW s \in ComponentState,
         s.recovery > 0, Agreed(c, s)
  PROVE  Recovered(c, s) \in ComponentState /\ Agreed(c, Recovered(c, s))
<1> DEFINE cold == scenario.warming[c].enabled /\ ~s.warming
           warmFor == IF cold THEN 0 ELSE s.warmFor
           t == [s EXCEPT !.recovery = 0, !.health = "healthy",
                          !.warming = s.warming \/ cold, !.warmFor = warmFor]
<1>1. s.failing = FALSE /\ s.failures = 0
  BY DEF Agreed, ComponentState
<1>2. CASE s.recovery > Step
  <2>1. s.recovery - Step \in Nat
    BY <1>2, StepAssumption DEF ComponentState
  <2>2. Recovered(c, s) = [s EXCEPT !.recovery = s.recovery - Step]
    BY <1>2 DEF Recovered
  <2>3. Recovered(c, s) \in ComponentState
    BY <2>1, <2>2, Fields
  <2>4. QED
    BY <1>1, <2>2, <2>3 DEF Agreed, ComponentState
<1>3. CASE ~(s.recovery > Step)
  <2>1. Recovered(c, s) = t
    BY <1>3 DEF Recovered
  <2>2. "healthy" \in Health /\ (s.warming \/ cold) \in BOOLEAN
    BY DEF Health
  <2>3. warmFor \in Nat
    BY DEF ComponentState
  <2> DEFINE a == [s EXCEPT !.recovery = 0]
             b == [a EXCEPT !.health = "healthy"]
             d == [b EXCEPT !.warming = s.warming \/ cold]
  <2>4. a \in ComponentState
    BY Fields
  <2>5. b \in ComponentState
    BY <2>2, <2>4, Fields
  <2>6. d \in ComponentState
    BY <2>2, <2>5, Fields
  <2>7. [d EXCEPT !.warmFor = warmFor] \in ComponentState
    BY <2>3, <2>6, Fields
  <2>8. t.failing = s.failing /\ t.recovery = 0
    BY DEF ComponentState
  <2>9. QED
    BY <1>1, <2>1, <2>7, <2>8 DEF Agreed
<1>4. QED
  BY <1>2, <1>3

LEMMA PromotedTyped ==
  ASSUME TypeOK, NEW c \in Component, NEW s \in ComponentState,
         s.failing, Agreed(c, s)
  PROVE  Promoted(c, s) \in ComponentState /\ Agreed(c, Promoted(c, s))
<1> DEFINE promotion == scenario.failover[c].promotion
           elapsed == s.elapsed + Step
           recovery == Greater(Step, promotion \div 2)
           t == [s EXCEPT !.elapsed = elapsed, !.failing = FALSE,
                          !.health = "degraded", !.recovery = recovery, !.failures = 0]
<1>1. elapsed \in Nat /\ promotion \in Nat
  BY Settings, StepAssumption DEF ComponentState
<1>2. promotion \div 2 \in Nat
  BY <1>1, DivNat
<1>3. recovery \in Nat
  BY <1>2, StepAssumption, GreaterNat
<1>4. "degraded" \in Health /\ "down" \in Health
  BY DEF Health
<1>5. CASE elapsed >= promotion
  <2>1. Promoted(c, s) = t
    BY <1>5 DEF Promoted
  <2> HIDE DEF recovery, elapsed
  <2> DEFINE a == [s EXCEPT !.elapsed = elapsed]
             b == [a EXCEPT !.failing = FALSE]
             d == [b EXCEPT !.health = "degraded"]
             f == [d EXCEPT !.recovery = recovery]
  <2>2. a \in ComponentState
    BY <1>1, Fields
  <2>3. b \in ComponentState
    BY <2>2, Fields
  <2>4. d \in ComponentState
    BY <1>4, <2>3, Fields
  <2>5. f \in ComponentState
    BY <1>3, <2>4, Fields
  <2>6. [f EXCEPT !.failures = 0] \in ComponentState
    BY <2>5, Fields
  <2>7. t.failing = FALSE /\ t.failures = 0
    BY DEF ComponentState
  <2>8. QED
    BY <2>1, <2>6, <2>7 DEF Agreed
<1>6. CASE ~(elapsed >= promotion)
  <2>1. Promoted(c, s) = [s EXCEPT !.elapsed = elapsed, !.health = "down"]
    BY <1>6 DEF Promoted
  <2> HIDE DEF elapsed
  <2>2. [s EXCEPT !.elapsed = elapsed] \in ComponentState
    BY <1>1, Fields
  <2>3. [s EXCEPT !.elapsed = elapsed, !.health = "down"] \in ComponentState
    BY <1>4, <2>2, Fields
  <2>4. QED
    BY <2>1, <2>3 DEF Agreed, ComponentState
<1>7. QED
  BY <1>5, <1>6

LEMMA DetectedTyped ==
  ASSUME TypeOK, NEW c \in Component, NEW s \in ComponentState,
         s.recovery = 0
  PROVE  Detected(c, s) \in ComponentState /\ Agreed(c, Detected(c, s))
<1> DEFINE cfg == scenario.failover[c]
           failures == s.failures + Greater(1, Step \div Greater(1, cfg.interval))
           start == failures >= cfg.threshold
           elapsed == IF start THEN 0 ELSE s.elapsed
           t == [s EXCEPT !.health = "down", !.failures = failures,
                          !.failing = start, !.elapsed = elapsed]
<1>1. cfg.interval \in Nat /\ cfg.threshold \in Nat
  BY Settings
<1>2. Greater(1, cfg.interval) \in Nat \ {0}
  <2>1. Greater(1, cfg.interval) \in Nat /\ Greater(1, cfg.interval) >= 1
    BY <1>1, GreaterNat
  <2>2. QED
    BY <2>1
<1>3. Step \div Greater(1, cfg.interval) \in Nat
  BY <1>2, StepAssumption, DivNat
<1>4. Greater(1, Step \div Greater(1, cfg.interval)) \in Nat
  BY <1>3, GreaterNat
<1>5. failures \in Nat
  BY <1>4 DEF ComponentState
<1>6. start \in BOOLEAN
  OBVIOUS
<1>7. elapsed \in Nat
  BY DEF ComponentState
<1>8. "down" \in Health
  BY DEF Health
<1>9. Detected(c, s) = t
  BY DEF Detected
<1>10. start => failures >= scenario.failover[c].threshold
  OBVIOUS
<1> HIDE DEF elapsed, start, failures
<1> DEFINE a == [s EXCEPT !.health = "down"]
           b == [a EXCEPT !.failures = failures]
           d == [b EXCEPT !.failing = start]
<1>11. a \in ComponentState
  BY <1>8, Fields
<1>12. b \in ComponentState
  BY <1>5, <1>11, Fields
<1>13. d \in ComponentState
  BY <1>6, <1>12, Fields
<1>14. [d EXCEPT !.elapsed = elapsed] \in ComponentState
  BY <1>7, <1>13, Fields
<1>15. /\ t.health = "down" /\ t.recovery = s.recovery
       /\ t.failures = failures /\ t.failing = start
  BY DEF ComponentState
<1>16. QED
  BY <1>9, <1>10, <1>14, <1>15 DEF Agreed

\* Whichever of its branches the failover takes, the timers agree after it.
LEMMA FailedOverTyped ==
  ASSUME TypeOK, NEW c \in Component, Agreed(c, comp[c])
  PROVE  FailedOver(c) \in ComponentState /\ Agreed(c, FailedOver(c))
<1> DEFINE s == comp[c]
<1>1. s \in ComponentState
  BY Settings
<1>2. CASE ~scenario.failover[c].enabled
  BY <1>1, <1>2 DEF FailedOver
<1>3. CASE scenario.failover[c].enabled /\ s.recovery > 0
  BY <1>1, <1>3, RecoveredTyped DEF FailedOver
<1>4. CASE scenario.failover[c].enabled /\ ~(s.recovery > 0)
  <2>1. s.recovery = 0
    BY <1>1, <1>4 DEF ComponentState
  <2>2. CASE s.failing
    BY <1>1, <1>4, <2>2, PromotedTyped DEF FailedOver
  <2>3. CASE ~s.failing /\ (s.health = "down" \/ FaultedDown(c))
    BY <1>1, <1>4, <2>1, <2>3, DetectedTyped DEF FailedOver
  <2>4. CASE ~s.failing /\ ~(s.health = "down" \/ FaultedDown(c))
    <3>1. FailedOver(c) = [s EXCEPT !.failures = 0]
      BY <1>4, <2>4 DEF FailedOver
    <3>2. [s EXCEPT !.failures = 0] \in ComponentState
      BY <1>1, Fields
    <3>3. QED
      BY <1>1, <2>4, <3>1, <3>2 DEF Agreed, ComponentState
  <2>5. QED
    BY <2>2, <2>3, <2>4
<1>5. QED
  BY <1>2, <1>3, <1>4

-----------------------------------------------------------------------------
(* Circuit breakers. *)

\* Each field of a breaker can be set on its own.
LEMMA BreakerFields ==
  ASSUME NEW b \in BreakerState
  PROVE  /\ \A v \in CBState : [b EXCEPT !.state = v] \in BreakerState
         /\ \A v \in Nat : [b EXCEPT !.failures = v] \in BreakerState
         /\ \A v \in Nat : [b EXCEPT !.openFor = v] \in BreakerState
         /\ \A v \in Nat : [b EXCEPT !.opens = v] \in BreakerState
BY DEF BreakerState

\* What the count of a breaker has to do with the checks of its target.
Streak(e, b, ill) == b.state = "CLOSED" => b.failures = ill

(***************************************************************************)
(* The count that the code keeps, next to the one that the observer keeps. *)
(***************************************************************************)
IllNext(e) == IF TargetUnhealthy(e)
              THEN Lesser(illFor[e] + 1, scenario.breaker[e].threshold) ELSE 0

LEMMA IllNextTyped ==
  ASSUME TypeOK, NEW e \in Protected
  PROVE  IllNext(e) \in Nat
<1>1. illFor[e] + 1 \in Nat /\ scenario.breaker[e].threshold \in Nat
  BY BreakerSettings
<1>2. Lesser(illFor[e] + 1, scenario.breaker[e].threshold) \in Nat
  BY <1>1, LesserNat
<1>3. QED
  BY <1>2 DEF IllNext

LEMMA ClosedNextTyped ==
  ASSUME TypeOK, NEW e \in Protected, breaker[e].state = "CLOSED",
         Streak(e, breaker[e], illFor[e])
  PROVE  ClosedNext(e) \in BreakerState /\ Streak(e, ClosedNext(e), IllNext(e))
<1> DEFINE b == breaker[e]
           threshold == scenario.breaker[e].threshold
<1>1. /\ b \in BreakerState /\ threshold \in Nat /\ illFor[e] \in Nat
      /\ b.failures = illFor[e] /\ b.failures \in Nat
  BY BreakerSettings DEF Streak, BreakerState
<1>2. CASE ~TargetUnhealthy(e)
  <2>1. ClosedNext(e) = [b EXCEPT !.failures = 0] /\ IllNext(e) = 0
    BY <1>2 DEF ClosedNext, IllNext
  <2>2. QED
    BY <1>1, <2>1 DEF BreakerState, Streak
<1>3. CASE TargetUnhealthy(e) /\ b.failures + 1 >= threshold
  <2>1. ClosedNext(e) =
          [b EXCEPT !.failures = b.failures + 1, !.state = "OPEN", !.openFor = 0]
    BY <1>3 DEF ClosedNext
  <2> DEFINE a == [b EXCEPT !.failures = b.failures + 1]
             d == [a EXCEPT !.state = "OPEN"]
  <2>2. a \in BreakerState
    BY <1>1, BreakerFields
  <2>3. d \in BreakerState
    BY <2>2, BreakerFields DEF CBState
  <2>4. [d EXCEPT !.openFor = 0] \in BreakerState
    BY <2>3, BreakerFields
  <2>5. ClosedNext(e).state = "OPEN"
    BY <1>1, <2>1 DEF BreakerState
  <2>6. QED
    BY <2>1, <2>4, <2>5 DEF Streak
<1>4. CASE TargetUnhealthy(e) /\ ~(b.failures + 1 >= threshold)
  <2>1. ClosedNext(e) = [b EXCEPT !.failures = b.failures + 1]
    BY <1>4 DEF ClosedNext
  <2>2. IllNext(e) = illFor[e] + 1
    BY <1>1, <1>4 DEF IllNext, Lesser
  <2>3. QED
    BY <1>1, <2>1, <2>2 DEF BreakerState, Streak
<1>5. QED
  BY <1>2, <1>3, <1>4

LEMMA OpenNextTyped ==
  ASSUME TypeOK, NEW e \in Protected, breaker[e].state = "OPEN"
  PROVE  OpenNext(e) \in BreakerState /\ OpenNext(e).state # "CLOSED"
<1>1. breaker[e] \in BreakerState
  BY BreakerSettings
<1>2. QED
  BY <1>1 DEF OpenNext, BreakerState, CBState

\* A test that succeeds closes the breaker, with both counts at zero.
LEMMA HalfOpenNextTyped ==
  ASSUME TypeOK, NEW e \in Protected, breaker[e].state = "HALF_OPEN"
  PROVE  HalfOpenNext(e) \in BreakerState /\ Streak(e, HalfOpenNext(e), IllNext(e))
<1> DEFINE b == breaker[e]
           opens == Lesser(b.opens + 1, MaxOpens)
<1>1. b \in BreakerState
  BY BreakerSettings
<1>2. opens \in Nat
  <2>1. b.opens + 1 \in Nat /\ MaxOpens \in Nat
    BY <1>1 DEF BreakerState, MaxOpens
  <2>2. QED
    BY <2>1, LesserNat
<1>3. CASE comp[e[2]].health = "healthy"
  <2>1. HalfOpenNext(e) = [b EXCEPT !.state = "CLOSED", !.failures = 0, !.opens = 0]
    BY <1>3 DEF HalfOpenNext
  <2>2. IllNext(e) = 0
    BY <1>3 DEF IllNext, TargetUnhealthy
  <2> DEFINE a == [b EXCEPT !.state = "CLOSED"]
             d == [a EXCEPT !.failures = 0]
  <2>3. a \in BreakerState
    BY <1>1, BreakerFields DEF CBState
  <2>4. d \in BreakerState
    BY <2>3, BreakerFields
  <2>5. [d EXCEPT !.opens = 0] \in BreakerState
    BY <2>4, BreakerFields
  <2>6. HalfOpenNext(e).failures = 0
    BY <1>1, <2>1 DEF BreakerState
  <2>7. QED
    BY <2>1, <2>2, <2>5, <2>6 DEF Streak
<1>4. CASE comp[e[2]].health # "healthy" /\ TargetUnhealthy(e)
  <2>1. HalfOpenNext(e) = [b EXCEPT !.state = "OPEN", !.openFor = 0, !.opens = opens]
    BY <1>4 DEF HalfOpenNext
  <2> HIDE DEF opens
  <2> DEFINE a == [b EXCEPT !.state = "OPEN"]
             d == [a EXCEPT !.openFor = 0]
  <2>2. a \in BreakerState
    BY <1>1, BreakerFields DEF CBState
  <2>3. d \in BreakerState
    BY <2>2, BreakerFields
  <2>4. [d EXCEPT !.opens = opens] \in BreakerState
    BY <1>2, <2>3, BreakerFields
  <2>5. HalfOpenNext(e).state = "OPEN"
    BY <1>1, <2>1 DEF BreakerState
  <2>6. QED
    BY <2>1, <2>4, <2>5 DEF Streak
<1>5. CASE comp[e[2]].health # "healthy" /\ ~TargetUnhealthy(e)
  BY <1>1, <1>5 DEF HalfOpenNext, Streak
<1>6. QED
  BY <1>3, <1>4, <1>5

LEMMA BreakerNextTyped ==
  ASSUME TypeOK, NEW e \in Protected, Streak(e, breaker[e], illFor[e])
  PROVE  BreakerNext(e) \in BreakerState /\ Streak(e, BreakerNext(e), IllNext(e))
<1>1. breaker[e].state \in CBState
  BY BreakerSettings DEF BreakerState
<1>2. CASE breaker[e].state = "CLOSED"
  BY <1>2, ClosedNextTyped DEF BreakerNext
<1>3. CASE breaker[e].state = "OPEN"
  BY <1>3, OpenNextTyped DEF BreakerNext, Streak
<1>4. CASE breaker[e].state = "HALF_OPEN"
  BY <1>4, HalfOpenNextTyped DEF BreakerNext
<1>5. QED
  BY <1>1, <1>2, <1>3, <1>4 DEF CBState

-----------------------------------------------------------------------------
(* The cascade of a step. *)

LEMMA EffectsTyped ==
  ASSUME TypeOK
  PROVE  (UNION {FaultEffects(f) : f \in scenario.faults}) \cup TrafficEffects
           \in SUBSET [component : Component, health : Health]
<1>1. ASSUME NEW f \in scenario.faults, NEW eff \in FaultEffects(f)
      PROVE  eff \in [component : Component, health : Health]
  <2> DEFINE health == Outcome(scenario.graph, f.target, DirectHealth(f.type))
  <2>1. DirectHealth(f.type) \in Health
    BY DEF DirectHealth, Health
  <2>2. ASSUME NEW c \in Component PROVE health[c] \in Health
    BY <2>1 DEF Outcome, Health
  <2>3. eff \in Chain(f)
    BY DEF FaultEffects
  <2>4. PICK c \in Component : eff = [component |-> c, health |-> health[c]]
    BY <2>3 DEF Chain
  <2> HIDE DEF health
  <2>5. QED
    BY <2>2, <2>4
<1>2. ASSUME NEW eff \in TrafficEffects
      PROVE  eff \in [component : Component, health : Health]
  <2>1. PICK c \in Component : eff = [component |-> c, health |-> comp[c].health]
    BY DEF TrafficEffects
  <2>2. comp[c].health \in Health
    BY DEF TypeOK, ComponentState
  <2>3. QED
    BY <2>1, <2>2
<1>3. QED
  BY <1>1, <1>2

LEMMA OlderTyped ==
  ASSUME TypeOK, NEW c \in Component
  PROVE  Older(c) \in ComponentState /\ SameTimers(comp[c], Older(c))
<1> DEFINE s == comp[c]
           warmFor == Lesser(s.warmFor + Step, scenario.warming[c].duration)
<1>1. s \in ComponentState
  BY Settings
<1>2. warmFor \in Nat
  <2>1. s.warmFor + Step \in Nat /\ scenario.warming[c].duration \in Nat
    BY <1>1, Settings, StepAssumption DEF ComponentState
  <2>2. QED
    BY <2>1, LesserNat
<1>3. CASE s.warming
  <2>1. Older(c) = [s EXCEPT !.warmFor = warmFor]
    BY <1>3 DEF Older
  <2> HIDE DEF warmFor
  <2>2. QED
    BY <1>1, <1>2, <2>1, Fields DEF ComponentState, SameTimers
<1>4. CASE ~s.warming
  BY <1>1, <1>4 DEF Older, SameTimers
<1>5. QED
  BY <1>3, <1>4

LEMMA OlderBreakerTyped ==
  ASSUME TypeOK, NEW e \in Protected
  PROVE  /\ OlderBreaker(e) \in BreakerState
         /\ OlderBreaker(e).state = breaker[e].state
         /\ OlderBreaker(e).failures = breaker[e].failures
<1> DEFINE b == breaker[e]
           openFor == Lesser(b.openFor + Step, Greater(Step, scenario.breaker[e].timeout))
<1>1. b \in BreakerState
  BY BreakerSettings
<1>2. openFor \in Nat
  <2>1. b.openFor + Step \in Nat
    BY <1>1, StepAssumption DEF BreakerState
  <2>2. Greater(Step, scenario.breaker[e].timeout) \in Nat
    BY BreakerSettings, StepAssumption, GreaterNat
  <2>3. QED
    BY <2>1, <2>2, LesserNat
<1>3. CASE b.state = "OPEN"
  <2>1. OlderBreaker(e) = [b EXCEPT !.openFor = openFor]
    BY <1>3 DEF OlderBreaker
  <2> HIDE DEF openFor
  <2>2. QED
    BY <1>1, <1>2, <2>1 DEF BreakerState
<1>4. CASE b.state # "OPEN"
  BY <1>1, <1>4 DEF OlderBreaker
<1>5. QED
  BY <1>3, <1>4

-----------------------------------------------------------------------------
(* The steps. *)

Inv == TypeOK /\ TimersAgree /\ OpensOnStreak

LEMMA InvParts ==
  ASSUME Inv
  PROVE  /\ TypeOK
         /\ \A c \in Component : Agreed(c, comp[c])
         /\ \A e \in Protected : Streak(e, breaker[e], illFor[e])
BY DEF Inv, TimersAgree, Agreed, OpensOnStreak, Streak

(***************************************************************************)
(* A handler that leaves the scenario and the breakers alone and gives     *)
(* each component a state whose timers agree keeps the invariant.          *)
(***************************************************************************)
LEMMA ComponentStep ==
  ASSUME Inv, UNCHANGED <<scenario, breaker, effects, illFor>>,
         multiplier' \in Nat,
         phase' \in {"traffic", "scaling", "failover", "breakers", "cascade"},
         comp' \in [Component -> ComponentState],
         \A c \in Component : Agreed(c, comp'[c])
  PROVE  Inv'
<1>1. Protected' = Protected
  BY DEF Protected
<1>2. TypeOK'
  BY <1>1 DEF Inv, TypeOK
<1>3. TimersAgree'
  BY DEF TimersAgree, Agreed
<1>4. OpensOnStreak'
  BY <1>1 DEF Inv, OpensOnStreak
<1>5. QED
  BY <1>2, <1>3, <1>4 DEF Inv

LEMMA SameTimersAgreed ==
  ASSUME NEW c \in Component, NEW s, NEW t, SameTimers(s, t), Agreed(c, s)
  PROVE  Agreed(c, t)
BY DEF SameTimers, Agreed

LEMMA InitInv == Init => Inv
<1> SUFFICES ASSUME Init PROVE Inv
  OBVIOUS
<1>1. scenario \in Scenario
  BY ScenariosAssumption DEF Init
<1>2. ASSUME NEW c \in Component
      PROVE  /\ comp[c] \in ComponentState
             /\ ~comp[c].failing /\ comp[c].recovery = 0
  <2>1. /\ scenario.health[c] \in Health
        /\ scenario.base[c] \in Nat
        /\ scenario.replicas[c] \in Nat \ {0}
    BY <1>1 DEF Scenario
  <2>2. comp[c] = [health |-> scenario.health[c],
                   util |-> [num |-> scenario.base[c], den |-> 1],
                   replicas |-> scenario.replicas[c],
                   pendingUp |-> 0, pendingDown |-> 0,
                   failures |-> 0, failing |-> FALSE, elapsed |-> 0, recovery |-> 0,
                   warming |-> FALSE, warmFor |-> 0]
    BY DEF Init
  <2>3. comp[c] \in ComponentState
    BY <2>1, <2>2 DEF ComponentState
  <2>4. ~comp[c].failing
    BY <2>2
  <2>5. comp[c].recovery = 0
    BY <2>2
  <2>6. QED
    BY <2>3, <2>4, <2>5
<1>3. comp \in [Component -> ComponentState]
  BY <1>2 DEF Init
<1>4. breaker \in [Protected -> BreakerState]
  <2>1. [state |-> "CLOSED", failures |-> 0, openFor |-> 0, opens |-> 0] \in BreakerState
    BY DEF BreakerState, CBState
  <2>2. QED
    BY <2>1 DEF Init
<1>5. illFor \in [Protected -> Nat]
  BY DEF Init
<1>6. TypeOK
  BY <1>1, <1>3, <1>4, <1>5 DEF Init, TypeOK
<1>7. TimersAgree
  <2>1. ASSUME NEW c \in Component
        PROVE  ~comp[c].failing /\ ~(comp[c].recovery > 0)
    BY <1>2
  <2>2. QED
    BY <2>1 DEF TimersAgree
<1>8. OpensOnStreak
  BY DEF Init, OpensOnStreak
<1>9. QED
  BY <1>6, <1>7, <1>8 DEF Inv

LEMMA ApplyTrafficInv ==
  ASSUME Inv, NEW m \in Multipliers, ApplyTraffic(m)
  PROVE  Inv'
<1>1. m \in Nat
  BY MultipliersAssumption
<1>2. ASSUME NEW c \in Component
      PROVE  /\ UnderTraffic(c, m) \in ComponentState
             /\ Agreed(c, UnderTraffic(c, m))
  BY <1>1, InvParts, UnderTrafficTyped DEF Agreed
<1>3. comp' = [c \in Component |-> UnderTraffic(c, m)]
  BY DEF ApplyTraffic
<1>4. QED
  BY <1>1, <1>2, <1>3, ComponentStep DEF ApplyTraffic

LEMMA EvaluateAutoscalingInv ==
  ASSUME Inv, EvaluateAutoscaling
  PROVE  Inv'
<1>1. ASSUME NEW c \in Component
      PROVE  Scaled(c) \in ComponentState /\ Agreed(c, Scaled(c))
  BY InvParts, ScaledTyped, SameTimersAgreed
<1>2. comp' = [c \in Component |-> Scaled(c)]
  BY DEF EvaluateAutoscaling
<1>3. multiplier' \in Nat
  BY DEF Inv, TypeOK, EvaluateAutoscaling
<1>4. QED
  BY <1>1, <1>2, <1>3, ComponentStep DEF EvaluateAutoscaling

LEMMA EvaluateFailoverInv ==
  ASSUME Inv, EvaluateFailover
  PROVE  Inv'
<1>1. ASSUME NEW c \in Component
      PROVE  FailedOver(c) \in ComponentState /\ Agreed(c, FailedOver(c))
  BY InvParts, FailedOverTyped
<1>2. comp' = [c \in Component |-> FailedOver(c)]
  BY DEF EvaluateFailover
<1>3. multiplier' \in Nat
  BY DEF Inv, TypeOK, EvaluateFailover
<1>4. QED
  BY <1>1, <1>2, <1>3, ComponentStep DEF EvaluateFailover

LEMMA EvaluateCircuitBreakersInv ==
  ASSUME Inv, EvaluateCircuitBreakers
  PROVE  Inv'
<1>1. Protected' = Protected
  BY DEF Protected, EvaluateCircuitBreakers
<1>2. ASSUME NEW e \in Protected
      PROVE  /\ BreakerNext(e) \in BreakerState /\ IllNext(e) \in Nat
             /\ Streak(e, BreakerNext(e), IllNext(e))
  BY InvParts, BreakerNextTyped, IllNextTyped
<1>3. /\ breaker' = [e \in Protected |-> BreakerNext(e)]
      /\ illFor' = [e \in Protected |-> IllNext(e)]
  BY DEF EvaluateCircuitBreakers, IllNext
<1>4. TypeOK'
  BY <1>1, <1>2, <1>3 DEF Inv, TypeOK, EvaluateCircuitBreakers
<1>5. TimersAgree'
  BY DEF Inv, TimersAgree, EvaluateCircuitBreakers
<1>6. OpensOnStreak'
  BY <1>1, <1>2, <1>3 DEF OpensOnStreak, Streak
<1>7. QED
  BY <1>4, <1>5, <1>6 DEF Inv

LEMMA RunCascadeAtStepInv ==
  ASSUME Inv, RunCascadeAtStep
  PROVE  Inv'
<1>1. Protected' = Protected
  BY DEF Protected, RunCascadeAtStep
<1>2. ASSUME NEW c \in Component
      PROVE  Older(c) \in ComponentState /\ Agreed(c, Older(c))
  BY InvParts, OlderTyped, SameTimersAgreed
<1>3. comp' = [c \in Component |-> Older(c)]
  BY DEF RunCascadeAtStep
<1>4. ASSUME NEW e \in Protected
      PROVE  /\ OlderBreaker(e) \in BreakerState
             /\ Streak(e, OlderBreaker(e), illFor[e])
  BY InvParts, OlderBreakerTyped DEF Streak
<1>5. breaker' = [e \in Protected |-> OlderBreaker(e)] /\ illFor' = illFor
  BY DEF RunCascadeAtStep
<1>6. effects' \in SUBSET [component : Component, health : Health]
  BY InvParts, EffectsTyped DEF RunCascadeAtStep
<1>7. TypeOK'
  BY <1>1, <1>2, <1>3, <1>4, <1>5, <1>6 DEF Inv, TypeOK, RunCascadeAtStep
<1>8. TimersAgree'
  BY <1>2, <1>3 DEF TimersAgree, Agreed, RunCascadeAtStep
<1>9. OpensOnStreak'
  BY <1>1, <1>4, <1>5 DEF OpensOnStreak, Streak
<1>10. QED
  BY <1>7, <1>8, <1>9 DEF Inv

LEMMA NextInv == Inv /\ [Next]_vars => Inv'
<1> SUFFICES ASSUME Inv, [Next]_vars PROVE Inv'
  OBVIOUS
<1>1. ASSUME NEW m \in Multipliers, ApplyTraffic(m)
      PROVE  Inv'
  BY <1>1, ApplyTrafficInv
<1>2. CASE EvaluateAutoscaling
  BY <1>2, EvaluateAutoscalingInv
<1>3. CASE EvaluateFailover
  BY <1>3, EvaluateFailoverInv
<1>4. CASE EvaluateCircuitBreakers
  BY <1>4, EvaluateCircuitBreakersInv
<1>5. CASE RunCascadeAtStep
  BY <1>5, RunCascadeAtStepInv
<1>6. CASE UNCHANGED vars
  <2>1. Protected' = Protected
    BY <1>6 DEF vars, Protected
  <2>2. QED
    BY <1>6, <2>1 DEF vars, Inv, TypeOK, TimersAgree, OpensOnStreak
<1>7. QED
  BY <1>1, <1>2, <1>3, <1>4, <1>5, <1>6 DEF Next

LEMMA AlwaysInv == Spec => []Inv
<1>1. QED
  BY InitInv, NextInv, PTL DEF Spec

-----------------------------------------------------------------------------

(***************************************************************************)
(* Every variable of the engine keeps its type: no timer falls below zero, *)
(* no component is left without a replica.                                 *)
(***************************************************************************)
THEOREM TypeCorrect == Spec => []TypeOK
<1>1. Inv => TypeOK
  BY DEF Inv
<1>2. QED
  BY <1>1, AlwaysInv, PTL

(***************************************************************************)
(* The timers of every failover agree, whatever the time step and the      *)
(* settings, delays shorter than a step included.                          *)
(***************************************************************************)
THEOREM AlwaysTimersAgree == Spec => []TimersAgree
<1>1. Inv => TimersAgree
  BY DEF Inv
<1>2. QED
  BY <1>1, AlwaysInv, PTL

(***************************************************************************)
(* A closed breaker counts the failed checks in a row and no others.       *)
(***************************************************************************)
THEOREM AlwaysOpensOnStreak == Spec => []OpensOnStreak
<1>1. Inv => OpensOnStreak
  BY DEF Inv
<1>2. QED
  BY <1>1, AlwaysInv, PTL

=============================================================================
