--------------------------- MODULE CascadeProofs ---------------------------
(***************************************************************************)
(* Proofs about the cascade engine, for every graph, every fault and every *)
(* depth limit.                                                            *)
(***************************************************************************)
EXTENDS Cascade, CascadeRulesProofs, SequenceTheorems, FiniteSetTheorems, TLAPS

(***************************************************************************)
(* A fault gives its target one of the three failing states, at some       *)
(* natural number of seconds; an edge adds a natural number of seconds.    *)
(***************************************************************************)
LEMMA DirectEffect ==
  ASSUME NEW type
  PROVE  /\ DirectHealth(type) \in Health \ {"healthy"}
         /\ DirectTime(type) \in Nat
BY DEF DirectHealth, DirectTime, Health

LEMMA CascadeDelayNat ==
  ASSUME NEW g, NEW d, NEW u, NEW h, NEW timeout \in Nat, NEW tau \in Nat
  PROVE  CascadeDelay(g, d, u, h, timeout, tau) \in Nat
BY DEF CascadeDelay

\* A new call has still to visit every dependent of its component.
LEMMA CallFrame ==
  ASSUME NEW c \in Component, NEW h \in Health, NEW t \in Nat
  PROVE  /\ Call(c, h, t) \in Frame
         /\ Call(c, h, t).comp = c
         /\ Call(c, h, t).health = h
         /\ Call(c, h, t).elapsed = t
         /\ Call(c, h, t).todo = Dependents(graph, c)
BY DEF Call, Frame, Dependents

(***************************************************************************)
(* Being done with a dependent changes nothing in the calls in progress    *)
(* but the loop of the innermost one.                                      *)
(***************************************************************************)
LEMMA RestFrames ==
  ASSUME stack \in Seq(Frame), stack # << >>, NEW d
  PROVE  /\ Rest(d) \in Seq(Frame)
         /\ Len(Rest(d)) = Len(stack)
         /\ Len(stack) \in Nat \ {0}
         /\ Top \in Frame
         /\ \A k \in 1 .. Len(stack) :
              /\ Rest(d)[k].comp = stack[k].comp
              /\ Rest(d)[k].health = stack[k].health
              /\ Rest(d)[k].elapsed = stack[k].elapsed
              /\ Rest(d)[k].todo =
                   IF k = Len(stack) THEN stack[k].todo \ {d} ELSE stack[k].todo
<1> DEFINE n == Len(stack)
           top == [stack[n] EXCEPT !.todo = @ \ {d}]
<1>1. n \in Nat \ {0} /\ n \in 1 .. n
  OBVIOUS
<1>2. stack[n] \in Frame
  BY <1>1
<1>3. top \in Frame
  BY <1>2 DEF Frame
<1>4. Rest(d) = [stack EXCEPT ![n] = top]
  BY DEF Rest
<1>5. Rest(d) \in Seq(Frame) /\ Len(Rest(d)) = n
  BY <1>1, <1>3, <1>4
<1>6. ASSUME NEW k \in 1 .. n
      PROVE  Rest(d)[k] = IF k = n THEN top ELSE stack[k]
  BY <1>4, <1>6
<1>7. /\ top.comp = stack[n].comp
      /\ top.health = stack[n].health
      /\ top.elapsed = stack[n].elapsed
      /\ top.todo = stack[n].todo \ {d}
  BY <1>2 DEF Frame
<1>8. QED
  BY <1>1, <1>2, <1>5, <1>6, <1>7 DEF Top

\* Returning from the innermost call leaves the others as they are.
LEMMA PoppedStack ==
  ASSUME stack \in Seq(Frame), stack # << >>
  PROVE  LET s == SubSeq(stack, 1, Len(stack) - 1)
         IN  /\ s \in Seq(Frame)
             /\ Len(stack) \in Nat \ {0}
             /\ Len(s) = Len(stack) - 1
             /\ \A k \in 1 .. Len(s) : s[k] = stack[k] /\ k \in 1 .. Len(stack)
<1> DEFINE n == Len(stack) - 1
           s == SubSeq(stack, 1, n)
<1>1. Len(stack) \in Nat \ {0} /\ n \in Nat /\ Len(stack) = n + 1
  OBVIOUS
<1>2. \A i \in 1 .. n : stack[i] \in Frame
  BY <1>1
<1>3. /\ s \in Seq(Frame)
      /\ Len(s) = IF 1 <= n THEN n - 1 + 1 ELSE 0
      /\ \A i \in 1 .. n - 1 + 1 : s[i] = stack[1 + i - 1]
  BY ONLY <1>1, <1>2, SubSeqProperties
<1> HIDE DEF n, s
<1>4. Len(s) = n
  BY ONLY <1>1, <1>3
<1>5. ASSUME NEW k \in 1 .. Len(s)
      PROVE  s[k] = stack[k] /\ k \in 1 .. Len(stack)
  <2>1. k \in 1 .. n - 1 + 1 /\ 1 + k - 1 = k /\ k \in 1 .. Len(stack)
    BY ONLY <1>1, <1>4, k \in 1 .. Len(s)
  <2>2. QED
    BY ONLY <1>3, <2>1
<1>6. QED
  BY <1>1, <1>3, <1>4, <1>5 DEF n, s

\* Recording an effect keeps the chain a sequence of effects.
LEMMA PutType ==
  ASSUME effects \in Seq(Effect), NEW e \in Effect
  PROVE  Put(e) \in Seq(Effect)
<1>1. CASE \E i \in DOMAIN effects : effects[i].comp = e.comp /\ worst[e.comp] # "healthy"
  <2>1. Put(e) = [i \in 1 .. Len(effects) |-> IF First(e.comp, i) THEN e ELSE effects[i]]
    BY <1>1 DEF Put
  <2>2. \A i \in 1 .. Len(effects) : effects[i] \in Effect
    OBVIOUS
  <2>3. QED
    BY <2>1, <2>2
<1>2. CASE ~ \E i \in DOMAIN effects : effects[i].comp = e.comp /\ worst[e.comp] # "healthy"
  BY <1>2 DEF Put
<1>3. QED
  BY <1>1, <1>2

-----------------------------------------------------------------------------
\* What a dependent being visited may be given has the types of an effect.
LEMMA VisitTypes ==
  ASSUME TypeOK, NEW d \in Component, Visiting(d)
  PROVE  /\ Top \in Frame
         /\ NewHealth(d) \in Health
         /\ NewElapsed(d) \in Nat
<1>1. stack \in Seq(Frame) /\ stack # << >>
  BY DEF TypeOK, Visiting
<1>2. Top \in Frame
  BY <1>1, RestFrames
<1>3. Top.health \in Health /\ Top.elapsed \in Nat
  BY <1>2 DEF Frame
<1>4. CascadeDelay(graph, d, Top.comp, Top.health, Timeout[d], Tau) \in Nat
  BY DelayAssumption, CascadeDelayNat
<1>5. QED
  BY <1>2, <1>3, <1>4, CascadeHealthCases DEF NewHealth, NewElapsed, Health

\* Committing an effect keeps the types.
LEMMA CommitTypes ==
  ASSUME TypeOK, NEW d \in Component, Visiting(d), Worse(d), Commit(d)
  PROVE  worst' \in [Component -> Health] /\ effects' \in Seq(Effect)
<1>1. [comp |-> d, health |-> NewHealth(d), at |-> NewElapsed(d)] \in Effect
  BY VisitTypes DEF Worse, Effect
<1>2. QED
  BY <1>1, VisitTypes, PutType DEF Commit, TypeOK

\* Type correctness: every variable keeps its type.
THEOREM TypeCorrect == Spec => []TypeOK
<1>1. Init => TypeOK
  BY GraphsAssumption DEF Init, TypeOK, Health
<1>2. TypeOK /\ [Next]_vars => TypeOK'
  <2> SUFFICES ASSUME TypeOK, [Next]_vars PROVE TypeOK'
    OBVIOUS
  <2>1. ASSUME NEW f \in Faults, Inject(f) PROVE TypeOK'
    <3>1. Call(f.target, DirectHealth(f.type), 0) \in Frame
      BY <2>1, DirectEffect, CallFrame DEF Inject
    <3>2. [comp |-> f.target, health |-> DirectHealth(f.type),
           at |-> DirectTime(f.type)] \in Effect
      BY <2>1, DirectEffect DEF Inject, Effect
    <3>3. QED
      BY <2>1, <3>1, <3>2, DirectEffect DEF Inject, TypeOK
  <2>2. ASSUME NEW f \in Faults, InjectUnknown(f) PROVE TypeOK'
    BY <2>2 DEF InjectUnknown, TypeOK
  <2>3. ASSUME NEW d \in Component, Skip(d) PROVE TypeOK'
    BY <2>3, RestFrames DEF Skip, Visiting, TypeOK
  <2>4. ASSUME NEW d \in Component, Attenuate(d) PROVE TypeOK'
    BY <2>4, RestFrames, CommitTypes DEF Attenuate, Visiting, TypeOK
  <2>5. ASSUME NEW d \in Component, Spread(d) PROVE TypeOK'
    <3>1. Call(d, NewHealth(d), NewElapsed(d)) \in Frame
      BY <2>5, VisitTypes, CallFrame DEF Spread
    <3>2. Rest(d) \in Seq(Frame)
      BY <2>5, RestFrames DEF Spread, Visiting, TypeOK
    <3>3. QED
      BY <2>5, <3>1, <3>2, CommitTypes DEF Spread, TypeOK
  <2>6. ASSUME NEW d \in Component, CutOff(d) PROVE TypeOK'
    BY <2>6, RestFrames, CommitTypes DEF CutOff, Visiting, TypeOK
  <2>7. CASE Return
    BY <2>7 DEF Return, TypeOK
  <2>8. CASE AssessAgents
    BY <2>8 DEF AssessAgents, AtRisk, AllAffected, TypeOK
  <2>9. ASSUME NEW a \in Component, FlagAgent(a) PROVE TypeOK'
    <3>1. [comp |-> a, health |-> "degraded", at |-> 0] \in Effect
      BY DEF Effect, Health
    <3>2. QED
      BY <2>9, <3>1 DEF FlagAgent, TypeOK
  <2>10. CASE Finish
    BY <2>10 DEF Finish, TypeOK
  <2>11. CASE Terminated \/ UNCHANGED vars
    BY <2>11 DEF Terminated, vars, TypeOK
  <2>12. QED
    BY <2>1, <2>2, <2>3, <2>4, <2>5, <2>6, <2>7, <2>8, <2>9, <2>10, <2>11
    DEF Next, Simulate
<1>3. QED
  BY <1>1, <1>2, PTL DEF Spec

-----------------------------------------------------------------------------
(***************************************************************************)
(* The inductive invariant of the propagation.  Phases ties the phase to   *)
(* what the other variables hold; Calls says that every call in progress   *)
(* is on a component that fails exactly like the target does, with that    *)
(* very health, and that only the outermost call may be on a failure which *)
(* is not hard.                                                            *)
(***************************************************************************)
Phases ==
  /\ phase = "inject" => target = Unknown
  /\ phase \in {"propagate", "agents"} => target \in Component
  /\ phase # "propagate" => stack = << >>
  /\ IF target \in Component THEN worst[target] # "healthy"
     ELSE effects = << >> /\ \A c \in Component : worst[c] = "healthy"

Calls ==
  \A k \in 1 .. Len(stack) :
    /\ stack[k].health = worst[target]
    /\ worst[stack[k].comp] = worst[target]
    /\ k = 1 => stack[k].comp = target
    /\ k > 1 => worst[target] \in HardHealth

Distinct ==
  \A j, k \in 1 .. Len(stack) : stack[j].comp = stack[k].comp => j = k

IInv == TypeOK /\ Phases /\ TwoLevels /\ Calls /\ Distinct

(***************************************************************************)
(* A dependent that is made worse is neither the target nor the component  *)
(* of a call in progress, and it gets one of the two levels.               *)
(***************************************************************************)
LEMMA WorseFacts ==
  ASSUME IInv, NEW d \in Component, Visiting(d), Worse(d)
  PROVE  /\ NewHealth(d) = CascadeHealth(graph, d, Top.comp, worst[target])
         /\ NewHealth(d) \in {"degraded", worst[target]}
         /\ NewHealth(d) \in Health
         /\ NewHealth(d) # "healthy"
         /\ HEALTH_RANK(NewHealth(d)) > HEALTH_RANK(worst[d])
         /\ d # target
         /\ \A k \in 1 .. Len(stack) : stack[k].comp # d
<1>1. /\ target \in Component
      /\ worst \in [Component -> Health]
      /\ worst[target] # "healthy"
      /\ stack \in Seq(Frame)
      /\ stack # << >>
  BY DEF IInv, TypeOK, Phases, Visiting
<1>2. Top.health = worst[target]
  BY <1>1 DEF IInv, Calls, Top
<1>3. NewHealth(d) \in {"degraded", worst[target]} /\ NewHealth(d) # "healthy"
  BY <1>1, <1>2, CascadeHealthCases DEF NewHealth, Worse
<1>4. HEALTH_RANK(NewHealth(d)) > HEALTH_RANK(worst[d])
  BY <1>1, <1>3, RankOrder DEF Worse, Health
<1>5. worst[d] # worst[target]
  BY <1>1, <1>3, <1>4, RankOrder DEF Health
<1>6. \A k \in 1 .. Len(stack) : stack[k].comp # d
  BY <1>5 DEF IInv, Calls
<1>7. QED
  BY <1>1, <1>2, <1>3, <1>4, <1>5, <1>6 DEF NewHealth, Health

(***************************************************************************)
(* Committing the effect of a dependent keeps the part of the invariant    *)
(* that does not speak of the calls.                                       *)
(***************************************************************************)
LEMMA CommitKeeps ==
  ASSUME IInv, NEW d \in Component, Visiting(d), Worse(d), Commit(d),
         UNCHANGED <<target, phase>>
  PROVE  /\ worst' = [worst EXCEPT ![d] = NewHealth(d)]
         /\ worst'[target] = worst[target]
         /\ \A k \in 1 .. Len(stack) : worst'[stack[k].comp] = worst[target]
         /\ target \in Component
         /\ phase = "propagate"
         /\ TwoLevels'
<1>1. target \in Component /\ worst \in [Component -> Health] /\ phase = "propagate"
  BY DEF IInv, TypeOK, Phases, Visiting
<1>2. worst' = [worst EXCEPT ![d] = NewHealth(d)]
  BY DEF Commit
<1>3. worst'[target] = worst[target]
  BY <1>1, <1>2, WorseFacts
<1>4. ASSUME NEW k \in 1 .. Len(stack) PROVE worst'[stack[k].comp] = worst[target]
  <2>1. stack[k] \in Frame
    BY DEF IInv, TypeOK
  <2>2. stack[k].comp \in Component /\ stack[k].comp # d
    BY <2>1, WorseFacts DEF Frame
  <2>3. QED
    BY <1>1, <1>2, <2>2 DEF IInv, Calls
<1>5. TwoLevels'
  BY <1>1, <1>2, <1>3, WorseFacts DEF IInv, TwoLevels
<1>6. QED
  BY <1>1, <1>2, <1>3, <1>4, <1>5

(***************************************************************************)
(* A step that only takes a dependent off the innermost loop, and leaves   *)
(* the recorded health of the calls alone, keeps what is known of them.    *)
(***************************************************************************)
LEMMA RestKeeps ==
  ASSUME IInv, stack # << >>, NEW d, stack' = Rest(d),
         target' = target, worst'[target] = worst[target],
         \A k \in 1 .. Len(stack) : worst'[stack[k].comp] = worst[target]
  PROVE  Calls' /\ Distinct'
<1>1. stack \in Seq(Frame)
  BY DEF IInv, TypeOK
<1>2. /\ Len(Rest(d)) = Len(stack)
      /\ \A k \in 1 .. Len(stack) : /\ Rest(d)[k].comp = stack[k].comp
                                    /\ Rest(d)[k].health = stack[k].health
  BY <1>1, RestFrames
<1>3. /\ Len(stack') = Len(stack)
      /\ \A k \in 1 .. Len(stack) : /\ stack'[k].comp = stack[k].comp
                                    /\ stack'[k].health = stack[k].health
  BY <1>2
<1>4. Calls'
  BY <1>3 DEF IInv, Calls
<1>5. Distinct'
  BY <1>3 DEF IInv, Distinct
<1>6. QED
  BY <1>4, <1>5

(***************************************************************************)
(* IInv is an invariant.                                                   *)
(***************************************************************************)
THEOREM Invariance == Spec => []IInv
<1>1. Init => IInv
  BY UnknownAssumption, GraphsAssumption
  DEF Init, IInv, TypeOK, Phases, TwoLevels, Calls, Distinct, Health
<1>2. IInv /\ TypeOK' /\ [Next]_vars => IInv'
  <2> SUFFICES ASSUME IInv, TypeOK', [Next]_vars PROVE IInv'
    OBVIOUS
  <2> stack \in Seq(Frame)
    BY DEF IInv, TypeOK
  <2>1. ASSUME NEW f \in Faults, Inject(f) PROVE IInv'
    <3>1. /\ f.target \in Component
          /\ target' = f.target
          /\ worst' = [worst EXCEPT ![f.target] = DirectHealth(f.type)]
          /\ stack' = <<Call(f.target, DirectHealth(f.type), 0)>>
          /\ phase' = "propagate"
      BY <2>1 DEF Inject
    <3>2. /\ worst \in [Component -> Health]
          /\ \A c \in Component : worst[c] = "healthy"
      BY <2>1, UnknownAssumption DEF Inject, IInv, TypeOK, Phases
    <3>3. worst'[f.target] = DirectHealth(f.type)
      BY <3>1, <3>2
    <3>4. DirectHealth(f.type) \in Health \ {"healthy"}
      BY DirectEffect
    <3>5. Len(stack') = 1 /\ stack'[1] = Call(f.target, DirectHealth(f.type), 0)
      BY <3>1
    <3>6. stack'[1].comp = f.target /\ stack'[1].health = DirectHealth(f.type)
      BY <3>1, <3>4, <3>5, CallFrame
    <3>7. Phases'
      BY <3>1, <3>3, <3>4 DEF Phases
    <3>8. TwoLevels'
      BY <3>1, <3>2 DEF TwoLevels
    <3>9. Calls' /\ Distinct'
      BY <3>1, <3>3, <3>5, <3>6 DEF Calls, Distinct
    <3>10. QED
      BY <3>7, <3>8, <3>9 DEF IInv
  <2>2. ASSUME NEW f \in Faults, InjectUnknown(f) PROVE IInv'
    BY <2>2, UnknownAssumption
    DEF InjectUnknown, IInv, Phases, TwoLevels, Calls, Distinct
  <2>3. ASSUME NEW d \in Component, Skip(d) PROVE IInv'
    <3>1. stack' = Rest(d) /\ stack # << >> /\ phase = "propagate"
      BY <2>3 DEF Skip, Visiting
    <3>2. Phases' /\ TwoLevels'
      BY <2>3, <3>1 DEF Skip, IInv, Phases, TwoLevels
    <3>3. Calls' /\ Distinct'
      BY <2>3, <3>1, RestKeeps DEF Skip, IInv, Calls
    <3>4. QED
      BY <3>2, <3>3 DEF IInv
  <2>4. ASSUME NEW d \in Component, Attenuate(d) PROVE IInv'
    <3>1. /\ Visiting(d) /\ Worse(d) /\ Commit(d)
          /\ UNCHANGED <<target, phase>>
          /\ stack' = Rest(d) /\ stack # << >>
      BY <2>4 DEF Attenuate, Visiting
    <3>2. /\ worst'[target] = worst[target]
          /\ \A k \in 1 .. Len(stack) : worst'[stack[k].comp] = worst[target]
          /\ target \in Component
          /\ phase = "propagate"
          /\ TwoLevels'
      BY <3>1, CommitKeeps
    <3>3. Phases'
      BY <3>1, <3>2 DEF IInv, Phases
    <3>4. Calls' /\ Distinct'
      BY <3>1, <3>2, RestKeeps
    <3>5. QED
      BY <3>2, <3>3, <3>4 DEF IInv
  <2>5. ASSUME NEW d \in Component, Spread(d) PROVE IInv'
    <3>1. /\ Visiting(d) /\ Worse(d) /\ Commit(d)
          /\ NewHealth(d) \in HardHealth
          /\ UNCHANGED <<target, phase>>
          /\ stack' = Append(Rest(d), Call(d, NewHealth(d), NewElapsed(d)))
          /\ stack # << >>
      BY <2>5 DEF Spread, Visiting
    <3>2. /\ worst' = [worst EXCEPT ![d] = NewHealth(d)]
          /\ worst'[target] = worst[target]
          /\ \A k \in 1 .. Len(stack) : worst'[stack[k].comp] = worst[target]
          /\ target \in Component
          /\ phase = "propagate"
          /\ TwoLevels'
      BY <3>1, CommitKeeps
    <3>3. NewHealth(d) = worst[target] /\ worst'[d] = worst[target]
      BY <3>1, <3>2, WorseFacts DEF HardHealth, IInv, TypeOK
    <3>4. Phases'
      BY <3>1, <3>2 DEF IInv, Phases
    <3>5. DEFINE n == Len(stack)
    <3>6. /\ Rest(d) \in Seq(Frame) /\ Len(Rest(d)) = n /\ n \in Nat \ {0}
          /\ \A k \in 1 .. n : /\ Rest(d)[k].comp = stack[k].comp
                               /\ Rest(d)[k].health = stack[k].health
      BY <3>1, RestFrames
    <3>7. /\ Call(d, NewHealth(d), NewElapsed(d)).comp = d
          /\ Call(d, NewHealth(d), NewElapsed(d)).health = worst[target]
          /\ Call(d, NewHealth(d), NewElapsed(d)) \in Frame
      BY <3>1, <3>3, VisitTypes, CallFrame DEF IInv
    <3>8. /\ Len(stack') = n + 1
          /\ \A k \in 1 .. n : stack'[k] = Rest(d)[k]
          /\ stack'[n + 1] = Call(d, NewHealth(d), NewElapsed(d))
      BY <3>1, <3>6, <3>7
    <3>9. ASSUME NEW k \in 1 .. n
          PROVE  /\ stack'[k].comp = stack[k].comp
                 /\ stack'[k].health = stack[k].health
                 /\ stack'[k].comp # d
      BY <3>1, <3>6, <3>8, WorseFacts
    <3>10. stack'[n + 1].comp = d /\ stack'[n + 1].health = worst[target]
      BY <3>7, <3>8
    <3>11. \A k \in 1 .. Len(stack') : k \in 1 .. n \/ k = n + 1
      BY <3>6, <3>8
    <3>12. Distinct'
      BY <3>9, <3>10, <3>11 DEF IInv, Distinct
    <3>13. ASSUME NEW k \in 1 .. n
           PROVE  /\ stack'[k].health = worst'[target]
                  /\ worst'[stack'[k].comp] = worst'[target]
                  /\ k = 1 => stack'[k].comp = target
                  /\ k > 1 => worst'[target] \in HardHealth
      BY <3>2, <3>9 DEF IInv, Calls
    <3>14. Calls'
      BY <3>1, <3>2, <3>3, <3>6, <3>10, <3>11, <3>13 DEF Calls
    <3>15. QED
      BY <3>2, <3>4, <3>12, <3>14 DEF IInv
  <2>6. ASSUME NEW d \in Component, CutOff(d) PROVE IInv'
    <3>1. /\ Visiting(d) /\ Worse(d) /\ Commit(d)
          /\ UNCHANGED <<target, phase>>
          /\ stack' = Rest(d) /\ stack # << >>
      BY <2>6 DEF CutOff, Visiting
    <3>2. /\ worst'[target] = worst[target]
          /\ \A k \in 1 .. Len(stack) : worst'[stack[k].comp] = worst[target]
          /\ target \in Component
          /\ phase = "propagate"
          /\ TwoLevels'
      BY <3>1, CommitKeeps
    <3>3. Phases'
      BY <3>1, <3>2 DEF IInv, Phases
    <3>4. Calls' /\ Distinct'
      BY <3>1, <3>2, RestKeeps
    <3>5. QED
      BY <3>2, <3>3, <3>4 DEF IInv
  <2>7. CASE Return
    <3>1. /\ stack # << >> /\ phase = "propagate"
          /\ stack' = SubSeq(stack, 1, Len(stack) - 1)
          /\ UNCHANGED <<target, worst, effects, phase>>
      BY <2>7 DEF Return
    <3>2. /\ Len(stack) \in Nat \ {0}
          /\ Len(stack') = Len(stack) - 1
          /\ \A k \in 1 .. Len(stack') : stack'[k] = stack[k] /\ k \in 1 .. Len(stack)
      BY <3>1, PoppedStack
    <3>3. Calls' /\ Distinct'
      BY <3>1, <3>2 DEF IInv, Calls, Distinct
    <3>4. QED
      BY <3>1, <3>3 DEF IInv, Phases, TwoLevels
  <2>8. CASE AssessAgents
    BY <2>8 DEF AssessAgents, IInv, Phases, TwoLevels, Calls, Distinct
  <2>9. ASSUME NEW a \in Component, FlagAgent(a) PROVE IInv'
    BY <2>9 DEF FlagAgent, IInv, Phases, TwoLevels, Calls, Distinct
  <2>10. CASE Finish
    BY <2>10 DEF Finish, IInv, Phases, TwoLevels, Calls, Distinct
  <2>11. CASE Terminated \/ UNCHANGED vars
    BY <2>11 DEF Terminated, vars, IInv, Phases, TwoLevels, Calls, Distinct
  <2>12. QED
    BY <2>1, <2>2, <2>3, <2>4, <2>5, <2>6, <2>7, <2>8, <2>9, <2>10, <2>11
    DEF Next, Simulate
<1>3. QED
  BY <1>1, <1>2, TypeCorrect, PTL DEF Spec

\* Whatever fails hard fails like the target; all else is at most degraded.
THEOREM AlwaysTwoLevels == Spec => []TwoLevels
<1>1. IInv => TwoLevels
  BY DEF IInv
<1>2. QED
  BY <1>1, Invariance, PTL

\* No component ever has two calls of _propagate in progress.
THEOREM AlwaysDistinctFrames == Spec => []DistinctFrames
<1>1. IInv => DistinctFrames
  BY DEF IInv, TypeOK, Distinct, DistinctFrames
<1>2. QED
  BY <1>1, Invariance, PTL

(***************************************************************************)
(* The chain of effects: it agrees with worst_health, and nothing in it    *)
(* ever improves, moves or disappears.                                     *)
(***************************************************************************)

\* The chain holds at most one effect for a component.
OneEach ==
  \A i, j \in 1 .. Len(effects) : effects[i].comp = effects[j].comp => i = j

\* An effect for the component of e is in the chain only if it was recorded.
Recordable(e) ==
  \A i \in 1 .. Len(effects) : effects[i].comp = e.comp => worst[e.comp] # "healthy"

(***************************************************************************)
(* The chain with e recorded: e is in, every other effect stays as and     *)
(* where it is, and there is still at most one for each component.         *)
(***************************************************************************)
InPlace(e) ==
  /\ \A i \in 1 .. Len(effects) :
       /\ i \in 1 .. Len(Put(e))
       /\ Put(e)[i].comp = effects[i].comp
       /\ effects[i].comp # e.comp => Put(e)[i] = effects[i]
  /\ \A i \in 1 .. Len(Put(e)) :
       \/ Put(e)[i] = e
       \/ i \in 1 .. Len(effects) /\ Put(e)[i] = effects[i]
  /\ \E i \in 1 .. Len(Put(e)) : Put(e)[i] = e
  /\ \A i, j \in 1 .. Len(Put(e)) : Put(e)[i].comp = Put(e)[j].comp => i = j

LEMMA PutFacts ==
  ASSUME effects \in Seq(Effect), OneEach, NEW e \in Effect, Recordable(e)
  PROVE  InPlace(e)
<1> USE DEF Recordable, InPlace
<1> DEFINE n == Len(effects)
<1>1. n \in Nat /\ DOMAIN effects = 1 .. n /\ \A i \in 1 .. n : effects[i] \in Effect
  OBVIOUS
<1>2. CASE \E i \in 1 .. n : effects[i].comp = e.comp
  <2>1. PICK m \in 1 .. n : effects[m].comp = e.comp
    BY <1>2
  <2>2. \A i \in 1 .. n : First(e.comp, i) <=> i = m
    BY <1>1, <2>1 DEF First, OneEach
  <2>3. Put(e) = [i \in 1 .. n |-> IF First(e.comp, i) THEN e ELSE effects[i]]
    BY <1>1, <2>1 DEF Put
  <2>4. Len(Put(e)) = n /\ \A i \in 1 .. n : Put(e)[i] = IF i = m THEN e ELSE effects[i]
    BY <1>1, <2>2, <2>3
  <2>5. \A i \in 1 .. n : Put(e)[i].comp = effects[i].comp
    BY <2>1, <2>4
  <2>6. \A i \in 1 .. n : effects[i].comp # e.comp => Put(e)[i] = effects[i]
    BY <2>1, <2>4
  <2>7. QED
    BY <2>1, <2>4, <2>5, <2>6 DEF OneEach
<1>3. CASE ~ \E i \in 1 .. n : effects[i].comp = e.comp
  <2>1. Put(e) = Append(effects, e)
    BY <1>1, <1>3 DEF Put
  <2>2. /\ Len(Put(e)) = n + 1
        /\ \A i \in 1 .. n : Put(e)[i] = effects[i]
        /\ Put(e)[n + 1] = e
    BY <2>1
  <2>3. \A i \in 1 .. n + 1 : i \in 1 .. n \/ i = n + 1
    BY <1>1
  <2>4. \A i, j \in 1 .. n + 1 : Put(e)[i].comp = Put(e)[j].comp => i = j
    <3>1. SUFFICES ASSUME NEW i \in 1 .. n + 1, NEW j \in 1 .. n + 1,
                          Put(e)[i].comp = Put(e)[j].comp
                   PROVE  i = j
      OBVIOUS
    <3>2. CASE i \in 1 .. n /\ j \in 1 .. n
      BY <2>2, <3>1, <3>2 DEF OneEach
    <3>3. CASE i = n + 1 /\ j \in 1 .. n
      BY <1>3, <2>2, <3>1, <3>3
    <3>4. CASE i \in 1 .. n /\ j = n + 1
      BY <1>3, <2>2, <3>1, <3>4
    <3>5. QED
      BY <2>3, <3>2, <3>3, <3>4
  <2>5. n + 1 \in 1 .. n + 1 /\ \A i \in 1 .. n : i \in 1 .. n + 1
    BY <1>1
  <2>6. QED
    BY <2>2, <2>3, <2>4, <2>5
<1>4. QED
  BY <1>2, <1>3

-----------------------------------------------------------------------------
(***************************************************************************)
(* The inductive invariant: the agents still to be flagged are at risk.    *)
(***************************************************************************)
ExposedAtRisk == phase = "agents" => exposed \subseteq AtRisk(graph, target)

CInv == IInv /\ ChainMatchesWorst /\ ExposedAtRisk

\* While faults propagate, what the chain holds has been recorded.
LEMMA RecordedEffects ==
  ASSUME IInv, ChainMatchesWorst
  PROVE  /\ effects \in Seq(Effect) /\ OneEach
         /\ DOMAIN effects = 1 .. Len(effects)
         /\ phase = "propagate" =>
              \A i \in 1 .. Len(effects) : worst[effects[i].comp] # "healthy"
<1>1. effects \in Seq(Effect) /\ DOMAIN effects = 1 .. Len(effects)
  BY DEF IInv, TypeOK
<1>2. QED
  BY <1>1 DEF ChainMatchesWorst, OneEach

\* Recording what a visit found keeps the chain and worst_health in step.
LEMMA CommitMatches ==
  ASSUME CInv, NEW d \in Component, Visiting(d), Worse(d), Commit(d),
         UNCHANGED <<graph, target, phase>>
  PROVE  ChainMatchesWorst'
<1> DEFINE e == [comp |-> d, health |-> NewHealth(d), at |-> NewElapsed(d)]
<1>1. /\ effects \in Seq(Effect) /\ OneEach /\ phase = "propagate"
      /\ DOMAIN effects = 1 .. Len(effects)
      /\ \A i \in 1 .. Len(effects) : worst[effects[i].comp] # "healthy"
  BY RecordedEffects DEF CInv, Visiting
<1>2. /\ e \in Effect /\ e.comp = d /\ e.health = NewHealth(d)
      /\ NewHealth(d) # "healthy"
  BY VisitTypes DEF Worse, Effect, CInv, IInv
<1>3. /\ effects' = Put(e) /\ worst' = [worst EXCEPT ![d] = NewHealth(d)]
      /\ worst \in [Component -> Health]
  BY DEF Commit, CInv, IInv, TypeOK
<1>4. Put(e) \in Seq(Effect)
  BY <1>1, <1>2, PutType
<1>5. DOMAIN effects' = 1 .. Len(effects')
  BY <1>3, <1>4
<1> HIDE DEF e
<1>6. InPlace(e)
  <2>1. Recordable(e)
    BY <1>1 DEF Recordable
  <2>2. QED
    BY <1>1, <1>2, <2>1, PutFacts
<1> USE DEF InPlace
<1>7. \A i, j \in DOMAIN effects' : effects'[i].comp = effects'[j].comp => i = j
  BY <1>3, <1>5, <1>6
<1>8. ASSUME NEW c \in Component, worst'[c] # "healthy"
      PROVE  \E i \in DOMAIN effects' :
               effects'[i].comp = c /\ effects'[i].health = worst'[c]
  <2>1. CASE c = d
    BY <1>2, <1>3, <1>5, <1>6, <2>1
  <2>2. CASE c # d
    <3>1. worst'[c] = worst[c]
      BY <1>3, <2>2
    <3>2. PICK i \in 1 .. Len(effects) :
            effects[i].comp = c /\ effects[i].health = worst[c]
      BY <1>1, <1>8, <3>1 DEF CInv, ChainMatchesWorst
    <3>3. i \in DOMAIN effects' /\ effects'[i] = effects[i]
      BY <1>2, <1>3, <1>5, <1>6, <2>2, <3>2
    <3>4. QED
      BY <3>1, <3>2, <3>3
  <2>3. QED
    BY <2>1, <2>2
<1>9. \A i \in DOMAIN effects' : worst'[effects'[i].comp] # "healthy"
  <2>1. SUFFICES ASSUME NEW i \in 1 .. Len(Put(e))
                 PROVE  worst'[Put(e)[i].comp] # "healthy"
    BY <1>3, <1>5
  <2>2. CASE Put(e)[i] = e
    BY <1>2, <1>3, <2>2
  <2>3. CASE i \in 1 .. Len(effects) /\ Put(e)[i] = effects[i]
    <3>1. effects[i] \in Effect
      BY <1>1, <2>3
    <3>2. effects[i].comp \in Component /\ worst[effects[i].comp] # "healthy"
      BY <1>1, <2>3, <3>1 DEF Effect
    <3>3. QED
      BY <1>2, <1>3, <2>3, <3>2
  <2>4. QED
    BY <1>6, <2>2, <2>3
<1>10. QED
  BY <1>7, <1>8, <1>9 DEF ChainMatchesWorst

\* Flagging an agent adds it only if the chain does not hold it.
LEMMA FlagMatches ==
  ASSUME CInv, NEW a \in Component, FlagAgent(a)
  PROVE  ChainMatchesWorst'
<1> DEFINE e == [comp |-> a, health |-> "degraded", at |-> 0]
           n == Len(effects)
<1>1. /\ effects \in Seq(Effect) /\ OneEach /\ n \in Nat
      /\ DOMAIN effects = 1 .. n
      /\ UNCHANGED <<graph, target, worst, phase>>
      /\ phase = "agents" /\ a \in AtRisk(graph, target)
  BY RecordedEffects DEF CInv, ExposedAtRisk, FlagAgent
<1>2. CASE \E i \in DOMAIN effects : effects[i].comp = a
  BY <1>1, <1>2 DEF FlagAgent, CInv, ChainMatchesWorst
<1>3. CASE ~ \E i \in DOMAIN effects : effects[i].comp = a
  <2>1. effects' = Append(effects, e)
    BY <1>3 DEF FlagAgent
  <2>2. /\ Len(effects') = n + 1
        /\ DOMAIN effects' = 1 .. n + 1
        /\ \A i \in 1 .. n : effects'[i] = effects[i]
        /\ effects'[n + 1] = e
    BY <1>1, <2>1
  <2>3. \A i \in 1 .. n + 1 : i \in 1 .. n \/ i = n + 1
    BY <1>1
  <2>4. e.comp = a /\ e.health = "degraded"
    OBVIOUS
  <2>5. \A i, j \in DOMAIN effects' : effects'[i].comp = effects'[j].comp => i = j
    <3>1. SUFFICES ASSUME NEW i \in 1 .. n + 1, NEW j \in 1 .. n + 1,
                          effects'[i].comp = effects'[j].comp
                   PROVE  i = j
      BY <2>2
    <3>2. CASE i \in 1 .. n /\ j \in 1 .. n
      BY <1>1, <2>2, <3>1, <3>2 DEF OneEach
    <3>3. CASE i = n + 1 /\ j \in 1 .. n
      BY <1>1, <1>3, <2>2, <2>4, <3>1, <3>3
    <3>4. CASE i \in 1 .. n /\ j = n + 1
      BY <1>1, <1>3, <2>2, <2>4, <3>1, <3>4
    <3>5. QED
      BY <2>3, <3>2, <3>3, <3>4
  <2>6. \A c \in Component : worst'[c] # "healthy" =>
          \E i \in DOMAIN effects' : effects'[i].comp = c /\ effects'[i].health = worst'[c]
    <3>1. SUFFICES ASSUME NEW c \in Component, worst[c] # "healthy"
                   PROVE  \E i \in DOMAIN effects' :
                            effects'[i].comp = c /\ effects'[i].health = worst[c]
      BY <1>1
    <3>2. PICK i \in 1 .. n : effects[i].comp = c /\ effects[i].health = worst[c]
      BY <1>1, <3>1 DEF CInv, ChainMatchesWorst
    <3>3. i \in DOMAIN effects' /\ effects'[i] = effects[i]
      BY <1>1, <2>2, <3>2
    <3>4. QED
      BY <3>2, <3>3
  <2>7. ASSUME NEW i \in DOMAIN effects', worst'[effects'[i].comp] = "healthy"
        PROVE  /\ phase' \in {"agents", "done"}
               /\ effects'[i].health = "degraded"
               /\ effects'[i].comp \in AtRisk(graph', target')
    <3>1. CASE i \in 1 .. n
      <4>1. effects'[i] = effects[i] /\ worst[effects[i].comp] = "healthy"
        BY <1>1, <2>2, <2>7, <3>1
      <4>2. QED
        BY <1>1, <3>1, <4>1 DEF CInv, ChainMatchesWorst
    <3>2. CASE i = n + 1
      BY <1>1, <2>2, <2>4, <3>2
    <3>3. QED
      BY <2>2, <2>3, <3>1, <3>2
  <2>8. QED
    BY <2>5, <2>6, <2>7 DEF ChainMatchesWorst
<1>4. QED
  BY <1>2, <1>3

LEMMA ChainStep ==
  ASSUME CInv, [Next]_vars
  PROVE  ChainMatchesWorst' /\ ExposedAtRisk'
<1> USE DEF ExposedAtRisk
<1>1. ASSUME NEW f \in Faults, Inject(f) PROVE ChainMatchesWorst' /\ ExposedAtRisk'
  <2> DEFINE e == [comp |-> f.target, health |-> DirectHealth(f.type),
                   at |-> DirectTime(f.type)]
  <2>1. /\ f.target \in Component /\ target' = f.target
        /\ worst' = [worst EXCEPT ![f.target] = DirectHealth(f.type)]
        /\ effects' = <<e>>
        /\ phase' = "propagate"
    BY <1>1 DEF Inject
  <2>2. \A c \in Component : worst[c] = "healthy"
    BY <1>1, UnknownAssumption DEF Inject, CInv, IInv, Phases
  <2>3. worst \in [Component -> Health]
    BY DEF CInv, IInv, TypeOK
  <2>4. DOMAIN effects' = {1} /\ effects'[1] = e
    BY <2>1
  <2>5. worst'[f.target] = DirectHealth(f.type) /\ DirectHealth(f.type) # "healthy"
    BY <2>1, <2>3, DirectEffect
  <2>6. \A c \in Component : worst'[c] # "healthy" => c = f.target
    BY <2>1, <2>2, <2>3
  <2>7. QED
    BY <2>1, <2>4, <2>5, <2>6 DEF ChainMatchesWorst
<1>2. ASSUME NEW f \in Faults, InjectUnknown(f) PROVE ChainMatchesWorst' /\ ExposedAtRisk'
  <2>1. effects = << >> /\ \A c \in Component : worst[c] = "healthy"
    BY <1>2, UnknownAssumption DEF InjectUnknown, CInv, IInv, Phases
  <2>2. QED
    BY <1>2, <2>1 DEF InjectUnknown, ChainMatchesWorst
<1>3. ASSUME NEW d \in Component, Skip(d) PROVE ChainMatchesWorst' /\ ExposedAtRisk'
  BY <1>3 DEF Skip, CInv, ChainMatchesWorst
<1>4. ASSUME NEW d \in Component, Attenuate(d) \/ Spread(d) \/ CutOff(d)
      PROVE  ChainMatchesWorst' /\ ExposedAtRisk'
  <2>1. /\ Visiting(d) /\ Worse(d) /\ Commit(d)
        /\ UNCHANGED <<graph, target, phase>>
    BY <1>4 DEF Attenuate, Spread, CutOff
  <2>2. QED
    BY <2>1, CommitMatches DEF Visiting
<1>5. CASE Return
  BY <1>5 DEF Return, CInv, ChainMatchesWorst
<1>6. CASE AssessAgents
  BY <1>6, RecordedEffects DEF AssessAgents, CInv, ChainMatchesWorst
<1>7. ASSUME NEW a \in Component, FlagAgent(a) PROVE ChainMatchesWorst' /\ ExposedAtRisk'
  BY <1>7, FlagMatches DEF FlagAgent, CInv
<1>8. CASE Finish
  BY <1>8 DEF Finish, CInv, ChainMatchesWorst
<1>9. CASE Terminated \/ UNCHANGED vars
  BY <1>9 DEF Terminated, vars, CInv, ChainMatchesWorst
<1>10. QED
  BY <1>1, <1>2, <1>3, <1>4, <1>5, <1>6, <1>7, <1>8, <1>9 DEF Next, Simulate

THEOREM ChainInvariance == Spec => []CInv
<1>1. Init => ChainMatchesWorst /\ ExposedAtRisk
  BY DEF Init, ChainMatchesWorst, ExposedAtRisk
<1>2. CInv /\ [Next]_vars => ChainMatchesWorst' /\ ExposedAtRisk'
  BY ChainStep
<1>3. CInv <=> IInv /\ ChainMatchesWorst /\ ExposedAtRisk
  BY DEF CInv
<1>4. QED
  BY <1>1, <1>2, <1>3, Invariance, PTL DEF Spec

(***************************************************************************)
(* The chain that simulate_fault builds never holds two effects for one    *)
(* component and never disagrees with worst_health.                        *)
(***************************************************************************)
THEOREM AlwaysChainMatchesWorst == Spec => []ChainMatchesWorst
<1>1. CInv => ChainMatchesWorst
  BY DEF CInv
<1>2. QED
  BY <1>1, ChainInvariance, PTL

-----------------------------------------------------------------------------
\* A visit that makes a dependent worse improves nothing and moves nothing.
LEMMA CommitMonotone ==
  ASSUME CInv, NEW d \in Component, Visiting(d), Worse(d), Commit(d)
  PROVE  NeverImproves
<1> DEFINE e == [comp |-> d, health |-> NewHealth(d), at |-> NewElapsed(d)]
<1>1. /\ effects \in Seq(Effect) /\ OneEach
      /\ DOMAIN effects = 1 .. Len(effects)
      /\ \A i \in 1 .. Len(effects) : worst[effects[i].comp] # "healthy"
  BY RecordedEffects DEF CInv, Visiting
<1>2. e \in Effect /\ e.comp = d
  BY VisitTypes DEF Worse, Effect, CInv, IInv
<1>3. /\ effects' = Put(e) /\ worst' = [worst EXCEPT ![d] = NewHealth(d)]
      /\ worst \in [Component -> Health]
      /\ HEALTH_RANK(NewHealth(d)) > HEALTH_RANK(worst[d])
  BY WorseFacts DEF Commit, CInv, IInv, TypeOK
<1>4. Put(e) \in Seq(Effect)
  BY <1>1, <1>2, PutType
<1> HIDE DEF e
<1>5. \A i \in 1 .. Len(effects) : i \in 1 .. Len(Put(e)) /\ Put(e)[i].comp = effects[i].comp
  <2>1. Recordable(e)
    BY <1>1 DEF Recordable
  <2>2. InPlace(e)
    BY <1>1, <1>2, <2>1, PutFacts
  <2>3. QED
    BY <2>2 DEF InPlace
<1>6. \A c \in Component : HEALTH_RANK(worst'[c]) >= HEALTH_RANK(worst[c])
  <2>1. NewHealth(d) \in Health
    BY WorseFacts DEF CInv
  <2>2. QED
    BY <1>3, <2>1, RankOrder DEF Health
<1>7. QED
  BY <1>1, <1>3, <1>4, <1>5, <1>6 DEF NeverImproves

LEMMA StepMonotone ==
  ASSUME CInv, [Next]_vars
  PROVE  [NeverImproves]_vars
<1>1. /\ worst \in [Component -> Health]
      /\ effects \in Seq(Effect) /\ DOMAIN effects = 1 .. Len(effects)
      /\ Len(effects) \in Nat
  BY DEF CInv, IInv, TypeOK
<1>2. \A c \in Component : HEALTH_RANK(worst[c]) \in 0 .. 3
  BY <1>1, RankOrder DEF Health
<1>3. ASSUME UNCHANGED <<worst, effects>> PROVE NeverImproves
  BY <1>2, <1>3 DEF NeverImproves
<1>4. ASSUME NEW f \in Faults, Inject(f) PROVE NeverImproves
  <2>1. effects = << >> /\ \A c \in Component : worst[c] = "healthy"
    BY <1>4, UnknownAssumption DEF Inject, CInv, IInv, Phases
  <2>2. worst' = [worst EXCEPT ![f.target] = DirectHealth(f.type)]
    BY <1>4 DEF Inject
  <2>3. DirectHealth(f.type) \in Health
    BY DirectEffect
  <2>4. DOMAIN effects = {}
    BY <2>1
  <2>5. QED
    BY <1>1, <2>1, <2>2, <2>3, <2>4, RankOrder DEF NeverImproves, Health
<1>5. ASSUME NEW d \in Component, Attenuate(d) \/ Spread(d) \/ CutOff(d)
      PROVE  NeverImproves
  BY <1>5, CommitMonotone DEF Attenuate, Spread, CutOff
<1>6. ASSUME NEW a \in Component, FlagAgent(a) PROVE NeverImproves
  <2>1. worst' = worst
    BY <1>6 DEF FlagAgent
  <2>2. CASE effects' = effects
    BY <1>3, <2>1, <2>2
  <2>3. CASE effects' = Append(effects, [comp |-> a, health |-> "degraded", at |-> 0])
    <3>1. \A i \in 1 .. Len(effects) : i \in DOMAIN effects' /\ effects'[i] = effects[i]
      BY <1>1, <2>3
    <3>2. QED
      BY <1>1, <1>2, <2>1, <3>1 DEF NeverImproves
  <2>4. QED
    BY <1>6, <2>2, <2>3 DEF FlagAgent
<1>7. ASSUME NEW f \in Faults, InjectUnknown(f) PROVE NeverImproves
  BY <1>3, <1>7 DEF InjectUnknown
<1>8. ASSUME NEW d \in Component, Skip(d) PROVE NeverImproves
  BY <1>3, <1>8 DEF Skip
<1>9. CASE Return \/ AssessAgents \/ Finish
  BY <1>3, <1>9 DEF Return, AssessAgents, Finish
<1>10. QED
  BY <1>4, <1>5, <1>6, <1>7, <1>8, <1>9 DEF Next, Simulate, Terminated

(***************************************************************************)
(* Nothing that simulate_fault records ever improves, moves or disappears. *)
(***************************************************************************)
THEOREM AlwaysMonotone == Spec => Monotone
<1>1. CInv /\ [Next]_vars => [NeverImproves]_vars
  BY StepMonotone
<1>2. QED
  BY <1>1, ChainInvariance, PTL DEF Spec, Monotone

-----------------------------------------------------------------------------
(***************************************************************************)
(* The pass over the agents: an agent at risk is still to be assessed or   *)
(* in the chain.                                                           *)
(***************************************************************************)
AgentPass ==
  phase \in {"agents", "done"} /\ target \in Component =>
    \A a \in AtRisk(graph, target) :
      \/ phase = "agents" /\ a \in exposed
      \/ \E i \in DOMAIN effects : effects[i].comp = a

LEMMA AgentPassStep ==
  ASSUME CInv, AgentPass, [Next]_vars
  PROVE  AgentPass'
<1>1. effects \in Seq(Effect) /\ DOMAIN effects = 1 .. Len(effects) /\ Len(effects) \in Nat
  BY RecordedEffects DEF CInv
<1>2. ASSUME NEW a \in Component, FlagAgent(a) PROVE AgentPass'
  <2>1. \A i \in DOMAIN effects : i \in DOMAIN effects' /\ effects'[i] = effects[i]
    BY <1>1, <1>2 DEF FlagAgent
  <2>2. \E i \in DOMAIN effects' : effects'[i].comp = a
    <3>1. CASE \E i \in DOMAIN effects : effects[i].comp = a
      BY <2>1, <3>1
    <3>2. CASE ~ \E i \in DOMAIN effects : effects[i].comp = a
      BY <1>1, <1>2, <3>2 DEF FlagAgent
    <3>3. QED
      BY <3>1, <3>2
  <2>3. QED
    BY <1>2, <2>1, <2>2 DEF FlagAgent, AgentPass
<1>3. ASSUME NEW f \in Faults, Inject(f) \/ InjectUnknown(f) PROVE AgentPass'
  BY <1>3, UnknownAssumption DEF Inject, InjectUnknown, AgentPass, CInv, IInv, Phases
<1>4. ASSUME NEW d \in Component, Skip(d) \/ Attenuate(d) \/ Spread(d) \/ CutOff(d)
      PROVE  AgentPass'
  BY <1>4 DEF Skip, Attenuate, Spread, CutOff, Visiting, AgentPass
<1>5. CASE Return \/ AssessAgents \/ Finish
  BY <1>5 DEF Return, AssessAgents, Finish, AgentPass
<1>6. CASE Terminated \/ UNCHANGED vars
  BY <1>6 DEF Terminated, vars, AgentPass
<1>7. QED
  BY <1>2, <1>3, <1>4, <1>5, <1>6 DEF Next, Simulate

(***************************************************************************)
(* When simulate_fault returns, no agent at risk is missing from the chain *)
(* and none was improved by the pass over the agents.                      *)
(***************************************************************************)
THEOREM AlwaysAgentsFlagged == Spec => []AgentsFlagged
<1>1. Init => AgentPass
  BY DEF Init, AgentPass
<1>2. CInv /\ AgentPass /\ [Next]_vars => AgentPass'
  BY AgentPassStep
<1>3. CInv /\ AgentPass => AgentsFlagged
  <2>1. SUFFICES ASSUME CInv, AgentPass, phase = "done", target \in Component,
                        NEW a \in AtRisk(graph, target)
                 PROVE  \E i \in DOMAIN effects :
                          /\ effects[i].comp = a
                          /\ HEALTH_RANK(effects[i].health) >= 1
                          /\ HEALTH_RANK(effects[i].health) >= HEALTH_RANK(worst[a])
    BY DEF AgentsFlagged
  <2>2. /\ a \in Component
        /\ worst[a] \in Health
        /\ \A i \in DOMAIN effects : effects[i].health \in Health \ {"healthy"}
    <3>1. a \in Component /\ worst[a] \in Health
      BY <2>1 DEF AtRisk, AllAffected, CInv, IInv, TypeOK
    <3>2. ASSUME NEW i \in DOMAIN effects PROVE effects[i] \in Effect
      BY <2>1, RecordedEffects DEF CInv
    <3>3. QED
      BY <3>1, <3>2 DEF Effect
  <2>3. CASE worst[a] # "healthy"
    <3>1. PICK i \in DOMAIN effects : effects[i].comp = a /\ effects[i].health = worst[a]
      BY <2>1, <2>2, <2>3 DEF CInv, ChainMatchesWorst
    <3>2. QED
      BY <2>2, <2>3, <3>1, RankOrder DEF Health
  <2>4. CASE worst[a] = "healthy"
    <3>1. PICK i \in DOMAIN effects : effects[i].comp = a
      BY <2>1 DEF AgentPass
    <3>2. QED
      BY <2>2, <2>4, <3>1, RankOrder DEF Health
  <2>5. QED
    BY <2>3, <2>4
<1>4. QED
  BY <1>1, <1>2, <1>3, ChainInvariance, PTL DEF Spec

-----------------------------------------------------------------------------
(***************************************************************************)
(* The times in the chain: every call in progress started at the time at   *)
(* which the failure of its component was felt.                            *)
(***************************************************************************)
Timely == \A k \in 1 .. Len(stack) : FeltAt(stack[k].comp, stack[k].elapsed)

TInv == CInv /\ Causality /\ Timely

\* The step leaves alone every failure that was felt, and when it was.
KeepsFelt ==
  /\ graph' = graph
  /\ target' = target
  /\ \A u \in Component, t \in Nat :
       FeltAt(u, t) => worst'[u] = worst[u] /\ FeltAt(u, t)'

\* An effect that had a cause has the same cause after such a step.
LEMMA CausedKept ==
  ASSUME CInv, KeepsFelt, NEW e \in Effect, Caused(e)
  PROVE  Caused(e)'
<1>1. ASSUME NEW j \in DOMAIN effects PROVE effects[j].at \in Nat
  <2>1. effects[j] \in Effect
    BY RecordedEffects DEF CInv
  <2>2. QED
    BY <2>1 DEF Effect
<1>2. PICK u \in Component, t \in {effects[j].at : j \in DOMAIN effects} \cup {0} :
        /\ FeltAt(u, t)
        /\ e.health = CascadeHealth(graph, e.comp, u, worst[u])
        /\ e.at = t + CascadeDelay(graph, e.comp, u, worst[u], Timeout[e.comp], Tau)
  BY DEF Caused
<1>3. t \in Nat
  BY <1>1, <1>2
<1>4. graph' = graph /\ worst'[u] = worst[u] /\ FeltAt(u, t)'
  BY <1>2, <1>3 DEF KeepsFelt
<1>5. t \in {effects'[j].at : j \in DOMAIN effects'} \cup {0}
  BY <1>4 DEF FeltAt
<1>6. QED
  BY <1>2, <1>4, <1>5 DEF Caused

\* A dependent made worse had not failed hard: nothing was caused by it yet.
LEMMA CommitKeepsFelt ==
  ASSUME CInv, NEW d \in Component, Visiting(d), Worse(d), Commit(d),
         UNCHANGED <<graph, target, phase>>
  PROVE  KeepsFelt
<1> DEFINE e == [comp |-> d, health |-> NewHealth(d), at |-> NewElapsed(d)]
<1>1. /\ effects \in Seq(Effect) /\ OneEach /\ DOMAIN effects = 1 .. Len(effects)
      /\ \A i \in 1 .. Len(effects) : worst[effects[i].comp] # "healthy"
      /\ worst \in [Component -> Health]
      /\ target \in Component
  BY RecordedEffects DEF CInv, Visiting, IInv, TypeOK, Phases
<1>2. e \in Effect /\ e.comp = d
  BY VisitTypes DEF Worse, Effect, CInv, IInv
<1>3. effects' = Put(e) /\ worst' = [worst EXCEPT ![d] = NewHealth(d)]
  BY DEF Commit
<1>4. Put(e) \in Seq(Effect)
  BY <1>1, <1>2, PutType
<1>5. /\ d # target
      /\ NewHealth(d) \in {"degraded", worst[target]}
      /\ HEALTH_RANK(NewHealth(d)) > HEALTH_RANK(worst[d])
  BY WorseFacts DEF CInv
<1>6. worst[d] \in {"healthy", "degraded", worst[target]}
  BY <1>1 DEF CInv, IInv, TwoLevels
<1>7. worst[d] \notin HardHealth
  BY <1>1, <1>5, <1>6, RankOrder DEF HardHealth, Health
<1> HIDE DEF e
<1>8. InPlace(e)
  BY <1>1, <1>2, PutFacts DEF Recordable
<1>9. \A i \in DOMAIN effects :
        effects[i].comp # d => i \in DOMAIN effects' /\ effects'[i] = effects[i]
  BY <1>1, <1>2, <1>3, <1>4, <1>8 DEF InPlace
<1>10. ASSUME NEW u \in Component, NEW t \in Nat, FeltAt(u, t)
       PROVE  worst'[u] = worst[u] /\ FeltAt(u, t)'
  <2>1. u # d /\ worst'[u] = worst[u] /\ target' = target
    BY <1>1, <1>3, <1>5, <1>7, <1>10 DEF FeltAt
  <2>2. QED
    BY <1>9, <1>10, <2>1 DEF FeltAt
<1>11. QED
  BY <1>10 DEF KeepsFelt

\* The effect recorded by a visit is caused by the innermost call.
LEMMA CommitCaused ==
  ASSUME TInv, NEW d \in Component, Visiting(d), Worse(d), Commit(d),
         UNCHANGED <<graph, target, phase>>
  PROVE  /\ Causality'
         /\ \A t \in Nat :
              t = NewElapsed(d) /\ NewHealth(d) \in HardHealth => FeltAt(d, t)'
<1> DEFINE e == [comp |-> d, health |-> NewHealth(d), at |-> NewElapsed(d)]
<1>1. /\ effects \in Seq(Effect) /\ OneEach /\ DOMAIN effects = 1 .. Len(effects)
      /\ \A i \in 1 .. Len(effects) : worst[effects[i].comp] # "healthy"
      /\ stack \in Seq(Frame) /\ stack # << >>
      /\ worst \in [Component -> Health]
  BY RecordedEffects DEF TInv, CInv, Visiting, IInv, TypeOK
<1>2. /\ e \in Effect /\ e.comp = d
      /\ e.health = NewHealth(d) /\ e.at = NewElapsed(d)
  BY VisitTypes DEF Worse, Effect, TInv, CInv, IInv
<1>3. effects' = Put(e) /\ worst' = [worst EXCEPT ![d] = NewHealth(d)]
  BY DEF Commit
<1>4. effects' \in Seq(Effect) /\ DOMAIN effects' = 1 .. Len(effects')
  BY <1>1, <1>2, <1>3, PutType
<1>5. KeepsFelt
  BY CommitKeepsFelt DEF TInv
<1>6. /\ Len(stack) \in 1 .. Len(stack) /\ Top = stack[Len(stack)] /\ Top \in Frame
      /\ Top.comp \in Component /\ Top.elapsed \in Nat
  <2>1. Len(stack) \in 1 .. Len(stack) /\ Top \in Frame /\ Top = stack[Len(stack)]
    BY <1>1, RestFrames DEF Top
  <2>2. QED
    BY <2>1 DEF Frame
<1>7. FeltAt(Top.comp, Top.elapsed) /\ Top.health = worst[Top.comp]
  BY <1>6 DEF TInv, CInv, IInv, Timely, Calls
<1>8. worst'[Top.comp] = worst[Top.comp] /\ graph' = graph
  BY <1>5, <1>6, <1>7 DEF KeepsFelt
<1>9. PICK u \in Component, t \in Nat : u = Top.comp /\ t = Top.elapsed
  BY <1>6
<1>10. FeltAt(u, t)' /\ t \in {effects'[j].at : j \in DOMAIN effects'} \cup {0}
  <2>1. FeltAt(u, t)'
    BY <1>5, <1>7, <1>9 DEF KeepsFelt
  <2>2. QED
    BY <2>1 DEF FeltAt
<1>11. /\ NewHealth(d) = CascadeHealth(graph', d, u, worst'[u])
       /\ NewElapsed(d) =
            t + CascadeDelay(graph', d, u, worst'[u], Timeout[d], Tau)
  BY <1>7, <1>8, <1>9 DEF NewHealth, NewElapsed
<1> HIDE DEF e
<1>12. InPlace(e)
  BY <1>1, <1>2, PutFacts DEF Recordable
<1>13. ASSUME NEW i \in DOMAIN effects'
       PROVE  \/ effects'[i].comp = target'
              \/ Caused(effects[i])'
  <2>1. PICK x \in Effect : x = effects'[i]
    BY <1>4
  <2>2. CASE x = e
    BY <1>2, <1>10, <1>11, <2>1, <2>2 DEF Caused
  <2>3. CASE i \in DOMAIN effects /\ x = effects[i]
    <3>1. x.comp = target \/ Caused(x)
      BY <1>1, <2>3 DEF TInv, Causality
    <3>2. Caused(x) => Caused(x)'
      BY <1>5, CausedKept DEF TInv
    <3>3. Caused(x)' => Caused(effects[i])'
      BY <2>1 DEF Caused
    <3>4. QED
      BY <2>1, <3>1, <3>2, <3>3
  <2>4. QED
    BY <1>1, <1>3, <1>4, <1>12, <2>1, <2>2, <2>3 DEF InPlace
<1>14. Causality'
  BY <1>13 DEF Causality
<1>15. ASSUME NEW s \in Nat, s = NewElapsed(d), NewHealth(d) \in HardHealth
       PROVE  FeltAt(d, s)'
  <2>1. d # target' /\ worst'[d] \in HardHealth
    BY <1>1, <1>3, <1>15, WorseFacts DEF TInv, CInv
  <2>2. PICK i \in 1 .. Len(effects') : effects'[i] = e
    BY <1>3, <1>12 DEF InPlace
  <2>3. effects'[i].comp = d /\ effects'[i].at = s
    BY <1>2, <1>15, <2>2
  <2>4. QED
    BY <1>4, <2>1, <2>3 DEF FeltAt
<1>16. QED
  BY <1>14, <1>15

LEMMA TimesStep ==
  ASSUME TInv, [Next]_vars
  PROVE  Causality' /\ Timely'
<1>1. /\ stack \in Seq(Frame) /\ Len(stack) \in Nat
      /\ \A k \in 1 .. Len(stack) : stack[k].comp \in Component /\ stack[k].elapsed \in Nat
  <2>1. stack \in Seq(Frame)
    BY DEF TInv, CInv, IInv, TypeOK
  <2>2. ASSUME NEW k \in 1 .. Len(stack) PROVE stack[k] \in Frame
    BY <2>1
  <2>3. QED
    BY <2>1, <2>2 DEF Frame
<1>2. /\ effects \in Seq(Effect) /\ Len(effects) \in Nat
      /\ DOMAIN effects = 1 .. Len(effects)
  BY RecordedEffects DEF TInv, CInv
\* A call in progress stays as timely as it was.
<1>3. ASSUME KeepsFelt,
             \A k \in 1 .. Len(stack') :
               \E j \in 1 .. Len(stack) : /\ stack'[k].comp = stack[j].comp
                                          /\ stack'[k].elapsed = stack[j].elapsed
      PROVE  Timely'
  <2>1. SUFFICES ASSUME NEW k \in 1 .. Len(stack')
                 PROVE  FeltAt(stack[k].comp, stack[k].elapsed)'
    BY DEF Timely
  <2>2. PICK j \in 1 .. Len(stack) : /\ stack'[k].comp = stack[j].comp
                                     /\ stack'[k].elapsed = stack[j].elapsed
    BY <1>3
  <2>3. PICK u \in Component, t \in Nat : u = stack[j].comp /\ t = stack[j].elapsed
    BY <1>1
  <2>4. FeltAt(u, t)'
    BY <1>3, <2>3 DEF TInv, Timely, KeepsFelt
  <2>5. QED
    BY <2>2, <2>3, <2>4 DEF FeltAt
<1>4. ASSUME UNCHANGED <<graph, target, worst, effects>>
      PROVE  KeepsFelt /\ Causality'
  BY <1>4 DEF KeepsFelt, FeltAt, TInv, Causality, Caused
<1>5. ASSUME NEW d, stack # << >>, stack' = Rest(d)
      PROVE  \A k \in 1 .. Len(stack') :
               /\ k \in 1 .. Len(stack)
               /\ stack'[k].comp = stack[k].comp
               /\ stack'[k].elapsed = stack[k].elapsed
  <2>1. /\ Len(Rest(d)) = Len(stack)
        /\ \A k \in 1 .. Len(stack) : /\ Rest(d)[k].comp = stack[k].comp
                                      /\ Rest(d)[k].elapsed = stack[k].elapsed
    BY <1>1, <1>5, RestFrames
  <2>2. QED
    BY <1>5, <2>1
<1>6. ASSUME NEW f \in Faults, Inject(f) PROVE Causality' /\ Timely'
  <2>1. /\ f.target \in Component /\ target' = f.target
        /\ effects' = <<[comp |-> f.target, health |-> DirectHealth(f.type),
                         at |-> DirectTime(f.type)]>>
        /\ stack' = <<Call(f.target, DirectHealth(f.type), 0)>>
    BY <1>6 DEF Inject
  <2>2. /\ Call(f.target, DirectHealth(f.type), 0).comp = f.target
        /\ Call(f.target, DirectHealth(f.type), 0).elapsed = 0
    BY <2>1, CallFrame, DirectEffect
  <2>3. Timely'
    BY <2>1, <2>2 DEF Timely, FeltAt
  <2>4. Causality'
    BY <2>1 DEF Causality
  <2>5. QED
    BY <2>3, <2>4
<1>7. ASSUME NEW f \in Faults, InjectUnknown(f) PROVE Causality' /\ Timely'
  BY <1>3, <1>4, <1>7 DEF InjectUnknown
<1>8. ASSUME NEW d \in Component, Skip(d) PROVE Causality' /\ Timely'
  BY <1>3, <1>4, <1>5, <1>8 DEF Skip, Visiting
<1>9. ASSUME NEW d \in Component, Attenuate(d) \/ CutOff(d) PROVE Causality' /\ Timely'
  <2>1. /\ Visiting(d) /\ Worse(d) /\ Commit(d) /\ stack # << >>
        /\ UNCHANGED <<graph, target, phase>> /\ stack' = Rest(d)
    BY <1>9 DEF Attenuate, CutOff, Visiting
  <2>2. KeepsFelt /\ Causality'
    BY <2>1, CommitKeepsFelt, CommitCaused DEF TInv
  <2>3. QED
    BY <1>3, <1>5, <2>1, <2>2
<1>10. ASSUME NEW d \in Component, Spread(d) PROVE Causality' /\ Timely'
  <2>1. /\ Visiting(d) /\ Worse(d) /\ Commit(d) /\ stack # << >>
        /\ UNCHANGED <<graph, target, phase>>
        /\ NewHealth(d) \in HardHealth
        /\ stack' = Append(Rest(d), Call(d, NewHealth(d), NewElapsed(d)))
    BY <1>10 DEF Spread, Visiting
  <2>2. KeepsFelt /\ Causality'
    BY <2>1, CommitKeepsFelt, CommitCaused DEF TInv
  <2>3. PICK s \in Nat : s = NewElapsed(d)
    BY <2>1, VisitTypes DEF TInv, CInv, IInv
  <2>4. FeltAt(d, s)'
    BY <2>1, <2>3, CommitCaused
  <2>5. /\ Call(d, NewHealth(d), NewElapsed(d)).comp = d
        /\ Call(d, NewHealth(d), NewElapsed(d)).elapsed = s
    BY <2>1, <2>3, VisitTypes, CallFrame DEF TInv, CInv, IInv
  <2>6. /\ Rest(d) \in Seq(Frame) /\ Len(Rest(d)) = Len(stack)
        /\ \A k \in 1 .. Len(stack) : /\ Rest(d)[k].comp = stack[k].comp
                                      /\ Rest(d)[k].elapsed = stack[k].elapsed
    BY <1>1, <2>1, RestFrames
  <2>7. /\ Len(stack') = Len(stack) + 1
        /\ \A k \in 1 .. Len(stack) : stack'[k] = Rest(d)[k]
        /\ stack'[Len(stack) + 1] = Call(d, NewHealth(d), NewElapsed(d))
    BY <2>1, <2>6
  <2>8. SUFFICES ASSUME NEW k \in 1 .. Len(stack')
                 PROVE  FeltAt(stack[k].comp, stack[k].elapsed)'
    BY <2>2 DEF Timely
  <2>9. CASE k \in 1 .. Len(stack)
    <3>1. PICK u \in Component, t \in Nat : u = stack[k].comp /\ t = stack[k].elapsed
      BY <1>1, <2>9
    <3>2. FeltAt(u, t)'
      BY <2>2, <2>9, <3>1 DEF TInv, Timely, KeepsFelt
    <3>3. stack'[k].comp = u /\ stack'[k].elapsed = t
      BY <2>6, <2>7, <2>9, <3>1
    <3>4. QED
      BY <3>2, <3>3 DEF FeltAt
  <2>10. CASE k = Len(stack) + 1
    <3>1. stack'[k].comp = d /\ stack'[k].elapsed = s
      BY <2>5, <2>7, <2>10
    <3>2. QED
      BY <2>4, <3>1 DEF FeltAt
  <2>11. QED
    BY <1>1, <2>7, <2>9, <2>10
<1>11. CASE Return
  <2>1. /\ stack # << >> /\ stack' = SubSeq(stack, 1, Len(stack) - 1)
        /\ UNCHANGED <<graph, target, worst, effects>>
    BY <1>11 DEF Return
  <2>2. \A k \in 1 .. Len(stack') : stack'[k] = stack[k] /\ k \in 1 .. Len(stack)
    BY <1>1, <2>1, PoppedStack
  <2>3. QED
    BY <1>3, <1>4, <2>1, <2>2
<1>12. CASE AssessAgents \/ Finish \/ Terminated \/ UNCHANGED vars
  BY <1>3, <1>4, <1>12 DEF AssessAgents, Finish, Terminated, vars
<1>13. ASSUME NEW a \in Component, FlagAgent(a) PROVE Causality' /\ Timely'
  <2>1. /\ UNCHANGED <<graph, target, worst, stack>>
        /\ \A i \in DOMAIN effects : i \in DOMAIN effects' /\ effects'[i] = effects[i]
        /\ \A i \in DOMAIN effects' :
             i \notin DOMAIN effects =>
               /\ effects'[i].comp = a
               /\ \A j \in DOMAIN effects : effects[j].comp # a
    BY <1>2, <1>13 DEF FlagAgent
  <2>2. KeepsFelt
    BY <2>1 DEF KeepsFelt, FeltAt
  <2>3. Timely'
    BY <1>3, <2>1, <2>2
  <2>4. SUFFICES ASSUME NEW i \in DOMAIN effects'
                 PROVE  \/ effects'[i].comp = target
                        \/ worst[effects'[i].comp] = "healthy"
                        \/ Caused(effects[i])'
    BY <2>1, <2>3 DEF Causality
  <2>5. CASE i \in DOMAIN effects
    <3>1. PICK x \in Effect : x = effects[i]
      BY <1>2, <2>5
    <3>2. x.comp = target \/ worst[x.comp] = "healthy" \/ Caused(x)
      BY <2>5, <3>1 DEF TInv, Causality
    <3>3. Caused(x) => Caused(x)'
      BY <2>2, CausedKept DEF TInv
    <3>4. effects'[i] = x
      BY <2>1, <2>5, <3>1
    <3>5. Caused(x)' => Caused(effects[i])'
      BY <3>4 DEF Caused
    <3>6. QED
      BY <3>2, <3>3, <3>4, <3>5
  <2>6. CASE i \notin DOMAIN effects
    <3>1. worst[a] = "healthy"
      BY <2>1, <2>6 DEF TInv, CInv, ChainMatchesWorst
    <3>2. QED
      BY <2>1, <2>6, <3>1
  <2>7. QED
    BY <2>5, <2>6
<1>14. QED
  BY <1>6, <1>7, <1>8, <1>9, <1>10, <1>11, <1>12, <1>13 DEF Next, Simulate

(***************************************************************************)
(* Every effect in the chain, other than the direct one and the agents     *)
(* flagged at the end, carries the health and the time of one and the same *)
(* path: no effect keeps the health of one path and the time of another.   *)
(***************************************************************************)
THEOREM AlwaysCausality == Spec => []Causality
<1>1. Init => Causality /\ Timely
  BY DEF Init, Causality, Timely
<1>2. CInv /\ Causality /\ Timely /\ [Next]_vars => Causality' /\ Timely'
  BY TimesStep DEF TInv
<1>3. QED
  BY <1>1, <1>2, ChainInvariance, PTL DEF Spec

-----------------------------------------------------------------------------
(***************************************************************************)
(* The depth-first cascade engine implements the Cascade Propagation       *)
(* Semantics when the depth limit cannot bite, and so ends in the outcome  *)
(* that the graph and the fault determine.                                 *)
(***************************************************************************)

\* The condition Worsening of the semantics, in the engine's own terms.
Cascading(u) == u = target \/ worst[u] \in HardHealth

CanWorsen(u, d) ==
  /\ Cascading(u)
  /\ HEALTH_RANK(CascadeHealth(graph, d, u, worst[u])) > HEALTH_RANK(worst[d])

\* The rules are the same operators on both sides of the refinement.
LEMMA SameRules ==
  /\ \A h : Semantics!HEALTH_RANK(h) = HEALTH_RANK(h)
  /\ \A g, d, u, h : Semantics!CascadeHealth(g, d, u, h) = CascadeHealth(g, d, u, h)
  /\ \A type : Semantics!DirectHealth(type) = DirectHealth(type)
  /\ Semantics!HardHealth = HardHealth
BY DEF Semantics!HEALTH_RANK, HEALTH_RANK, Semantics!CascadeHealth, CascadeHealth,
       Semantics!DirectHealth, DirectHealth, Semantics!HardHealth, HardHealth,
       Semantics!FaultsDown, FaultsDown, Semantics!FaultsOverloaded, FaultsOverloaded

LEMMA SameWorsening ==
  ASSUME NEW u, NEW d
  PROVE  Semantics!Worsening(u, d) <=> CanWorsen(u, d)
BY SameRules DEF Semantics!Worsening, Semantics!Cascades, CanWorsen, Cascading

(***************************************************************************)
(* Nothing is forgotten: as long as the engine propagates, an edge whose   *)
(* rule would still worsen something is in the loop of a call in progress. *)
(***************************************************************************)
Pending ==
  phase = "propagate" =>
    \A u, d \in Component : CanWorsen(u, d) =>
      \E k \in 1 .. Len(stack) : stack[k].comp = u /\ d \in stack[k].todo

RInv == IInv /\ Pending

\* An edge that cascades is an edge.
LEMMA CascadingEdge ==
  ASSUME NEW g, NEW d \in Component, NEW u, NEW h,
         CascadeHealth(g, d, u, h) # "healthy"
  PROVE  d \in Dependents(g, u)
BY DEF CascadeHealth, Dependents

\* The edges considered have the rank of what they give and of what there is.
LEMMA WorseningRanks ==
  ASSUME worst \in [Component -> Health], NEW u \in Component, NEW d \in Component,
         CanWorsen(u, d)
  PROVE  CascadeHealth(graph, d, u, worst[u]) # "healthy"
BY RankOrder DEF CanWorsen, Health

(***************************************************************************)
(* With a limit of at least one less than the number of components the     *)
(* recursive call on a component that is on no call is within the limit.   *)
(***************************************************************************)
LEMMA NoCutOff ==
  ASSUME DeepEnough, IInv, NEW d \in Component,
         \A k \in 1 .. Len(stack) : stack[k].comp # d
  PROVE  Len(stack) <= MaxDepth
<1> DEFINE n == Len(stack)
           f == [k \in 1 .. n |-> stack[k].comp]
<1>1. stack \in Seq(Frame) /\ n \in Nat
  BY DEF IInv, TypeOK
<1>2. \A k \in 1 .. n : stack[k] \in Frame
  BY <1>1
<1>3. f \in [1 .. n -> Component \ {d}]
  BY <1>2 DEF Frame
<1>4. IsFiniteSet(1 .. n) /\ Cardinality(1 .. n) = n
  <2>1. n \in Int /\ 1 \in Int
    BY <1>1
  <2> HIDE DEF n
  <2>2. /\ IsFiniteSet(1 .. n)
        /\ Cardinality(1 .. n) = IF 1 > n THEN 0 ELSE n - 1 + 1
    BY ONLY <2>1, FS_Interval
  <2>3. QED
    BY ONLY <1>1, <2>2
<1>5. /\ IsFiniteSet(Component \ {d})
      /\ Cardinality(Component \ {d}) = Cardinality(Component) - 1
      /\ Cardinality(Component) \in Nat
  BY FS_RemoveElement, FS_CardinalityType DEF DeepEnough
<1>6. ~ \E x, y \in 1 .. n : x # y /\ f[x] = f[y]
  BY DEF IInv, Distinct
<1>7. ~ (Cardinality(Component \ {d}) < Cardinality(1 .. n))
  <2> DEFINE S == 1 .. n
             T == Component \ {d}
  <2>1. f \in [S -> T] /\ IsFiniteSet(S) /\ IsFiniteSet(T)
    BY <1>3, <1>4, <1>5
  <2>2. ~ \E x, y \in S : x # y /\ f[x] = f[y]
    BY <1>6
  <2> HIDE DEF S, T, f
  <2>3. ~ (Cardinality(T) < Cardinality(S))
    BY ONLY <2>1, <2>2, FS_PigeonHole
  <2>4. QED
    BY <2>3 DEF S, T
<1>8. QED
  BY <1>1, <1>4, <1>5, <1>7, MaxDepthAssumption DEF DeepEnough

\* What a visit to d makes of worst_health.
Visited(d) == \/ ~Worse(d) /\ worst' = worst
              \/ Worse(d) /\ worst' = [worst EXCEPT ![d] = NewHealth(d)]

(***************************************************************************)
(* Once a dependent is done with, the edges that could still worsen        *)
(* something are those of before, short of the one just followed.          *)
(***************************************************************************)
LEMMA PendingAfterVisit ==
  ASSUME RInv, NEW d \in Component, Visiting(d), graph' = graph, target' = target,
         Visited(d),
         NEW u \in Component, NEW e \in Component,
         CanWorsen(u, e)',
         u = d => ~(worst'[d] \in HardHealth /\ Worse(d))
  PROVE  \E k \in 1 .. Len(stack) : Rest(d)[k].comp = u /\ e \in Rest(d)[k].todo
<1> USE DEF Visited
<1> DEFINE n == Len(stack)
<1>1. /\ stack \in Seq(Frame) /\ stack # << >>
      /\ worst \in [Component -> Health]
      /\ phase = "propagate"
      /\ target \in Component
  BY DEF RInv, IInv, TypeOK, Visiting, Phases
<1>2. /\ n \in Nat \ {0}
      /\ Top \in Frame
      /\ \A k \in 1 .. n :
           /\ Rest(d)[k].comp = stack[k].comp
           /\ Rest(d)[k].todo =
                IF k = n THEN stack[k].todo \ {d} ELSE stack[k].todo
  BY <1>1, RestFrames
<1>3. /\ Top.comp \in Component
      /\ worst[Top.comp] = Top.health
      /\ NewHealth(d) = CascadeHealth(graph, d, Top.comp, worst[Top.comp])
  BY <1>2 DEF Frame, RInv, IInv, Calls, Top, NewHealth
<1>4. ASSUME Worse(d)
      PROVE  /\ d # target /\ Top.comp # d
             /\ NewHealth(d) \in Health
             /\ HEALTH_RANK(NewHealth(d)) > HEALTH_RANK(worst[d])
             /\ worst' = [worst EXCEPT ![d] = NewHealth(d)]
  BY <1>1, <1>2, <1>4, WorseFacts DEF RInv, Top
<1>5. worst'[u] = worst[u] /\ Cascading(u)
  <2>1. CASE ~Worse(d)
    BY <2>1 DEF CanWorsen, Cascading
  <2>2. CASE Worse(d) /\ u # d
    BY <1>1, <1>4, <2>2 DEF CanWorsen, Cascading
  <2>3. CASE Worse(d) /\ u = d
    BY <1>4, <2>3 DEF CanWorsen, Cascading
  <2>4. QED
    BY <2>1, <2>2, <2>3
<1>6. HEALTH_RANK(CascadeHealth(graph, e, u, worst[u])) > HEALTH_RANK(worst'[e])
  BY <1>5 DEF CanWorsen
<1>7. HEALTH_RANK(worst'[e]) >= HEALTH_RANK(worst[e])
  BY <1>1, <1>4, RankOrder DEF Health
<1>8. CascadeHealth(graph, e, u, worst[u]) \in Health
  BY <1>1, CascadeHealthCases DEF Health
<1>9. CanWorsen(u, e)
  <2>1. worst'[e] \in Health
    BY <1>1, <1>4
  <2>2. HEALTH_RANK(CascadeHealth(graph, e, u, worst[u])) > HEALTH_RANK(worst[e])
    BY <1>1, <1>6, <1>7, <1>8, <2>1, RankOrder DEF Health
  <2>3. QED
    BY <1>5, <2>2 DEF CanWorsen
<1>10. PICK k \in 1 .. n : stack[k].comp = u /\ e \in stack[k].todo
  BY <1>1, <1>9 DEF RInv, Pending
<1>11. ~(k = n /\ e = d)
  <2>1. SUFFICES ASSUME k = n, e = d PROVE FALSE
    OBVIOUS
  <2>2. u = Top.comp
    BY <1>10, <2>1 DEF Top
  <2>3. CASE Worse(d)
    <3>1. worst'[e] = NewHealth(d)
      BY <1>1, <1>4, <2>1, <2>3
    <3>2. CascadeHealth(graph, e, u, worst[u]) = NewHealth(d)
      BY <1>3, <2>1, <2>2
    <3>3. HEALTH_RANK(NewHealth(d)) > HEALTH_RANK(NewHealth(d))
      BY <1>6, <3>1, <3>2
    <3>4. QED
      BY <1>4, <2>3, <3>3, RankOrder DEF Health
  <2>4. CASE ~Worse(d)
    <3>1. NewHealth(d) # "healthy"
      BY <1>1, <1>3, <1>9, <2>1, <2>2, WorseningRanks
    <3>2. HEALTH_RANK(NewHealth(d)) > HEALTH_RANK(worst[d])
      BY <1>3, <1>9, <2>1, <2>2 DEF CanWorsen
    <3>3. QED
      BY <2>4, <3>1, <3>2 DEF Worse
  <2>5. QED
    BY <2>3, <2>4
<1>12. QED
  BY <1>2, <1>10, <1>11

-----------------------------------------------------------------------------
\* Nothing is forgotten: Pending is preserved by every step of the engine.
LEMMA PendingStep ==
  ASSUME DeepEnough, RInv, IInv', [Next]_vars
  PROVE  Pending'
<1> stack \in Seq(Frame) /\ worst \in [Component -> Health]
  BY DEF RInv, IInv, TypeOK
<1>1. ASSUME NEW f \in Faults, Inject(f) PROVE Pending'
  <2> SUFFICES ASSUME NEW u \in Component, NEW d \in Component, CanWorsen(u, d)'
               PROVE  \E k \in 1 .. Len(stack') :
                        stack'[k].comp = u /\ d \in stack'[k].todo
    BY DEF Pending
  <2>1. /\ f.target \in Component
        /\ target' = f.target
        /\ graph' = graph
        /\ worst' = [worst EXCEPT ![f.target] = DirectHealth(f.type)]
        /\ stack' = <<Call(f.target, DirectHealth(f.type), 0)>>
    BY <1>1 DEF Inject
  <2>2. \A c \in Component : worst[c] = "healthy"
    BY <1>1, UnknownAssumption DEF Inject, RInv, IInv, Phases
  <2>3. u = f.target
    BY <2>1, <2>2 DEF CanWorsen, Cascading, HardHealth
  <2>4. CascadeHealth(graph, d, u, worst'[u]) # "healthy"
    <3>1. worst'[d] \in Health
      BY DEF IInv, TypeOK
    <3>2. QED
      BY <2>1, <3>1, RankOrder DEF CanWorsen, Health
  <2>5. d \in Dependents(graph, f.target)
    BY <2>3, <2>4, CascadingEdge
  <2>6. Len(stack') = 1 /\ stack'[1] = Call(f.target, DirectHealth(f.type), 0)
    BY <2>1
  <2>7. stack'[1].comp = u /\ d \in stack'[1].todo
    BY <2>1, <2>3, <2>5, <2>6, DirectEffect, CallFrame
  <2>8. QED
    BY <2>6, <2>7
<1>2. ASSUME NEW f \in Faults, InjectUnknown(f) PROVE Pending'
  BY <1>2 DEF InjectUnknown, Pending
<1>3. ASSUME NEW d \in Component, Skip(d) PROVE Pending'
  <2>1. /\ Visiting(d) /\ ~Worse(d) /\ worst' = worst
        /\ graph' = graph /\ target' = target
        /\ stack' = Rest(d) /\ stack # << >>
    BY <1>3 DEF Skip, Visiting
  <2>2. Len(stack') = Len(stack)
    BY <2>1, RestFrames
  <2>3. Visited(d)
    BY <2>1 DEF Visited
  <2>4. QED
    BY <2>1, <2>2, <2>3, PendingAfterVisit DEF Pending
<1>4. ASSUME NEW d \in Component, Attenuate(d) PROVE Pending'
  <2>1. /\ Visiting(d) /\ Worse(d) /\ worst' = [worst EXCEPT ![d] = NewHealth(d)]
        /\ NewHealth(d) \notin HardHealth
        /\ graph' = graph /\ target' = target
        /\ stack' = Rest(d) /\ stack # << >>
    BY <1>4 DEF Attenuate, Visiting, Commit
  <2>2. Len(stack') = Len(stack)
    BY <2>1, RestFrames
  <2>3. ASSUME NEW u \in Component, NEW e \in Component, CanWorsen(u, e)'
        PROVE  \E k \in 1 .. Len(stack) : Rest(d)[k].comp = u /\ e \in Rest(d)[k].todo
    <3>1. worst'[d] \notin HardHealth
      BY <2>1
    <3>2. Visited(d)
      BY <2>1 DEF Visited
    <3>3. QED
      BY <2>1, <2>3, <3>1, <3>2, PendingAfterVisit
  <2>4. QED
    BY <2>1, <2>2, <2>3 DEF Pending
<1>5. ASSUME NEW d \in Component, Spread(d) PROVE Pending'
  <2> SUFFICES ASSUME NEW u \in Component, NEW e \in Component, CanWorsen(u, e)'
               PROVE  \E k \in 1 .. Len(stack') :
                        stack'[k].comp = u /\ e \in stack'[k].todo
    BY DEF Pending
  <2> DEFINE n == Len(stack)
             call == Call(d, NewHealth(d), NewElapsed(d))
  <2>1. /\ Visiting(d) /\ Worse(d) /\ worst' = [worst EXCEPT ![d] = NewHealth(d)]
        /\ graph' = graph /\ target' = target
        /\ stack' = Append(Rest(d), call) /\ stack # << >>
    BY <1>5 DEF Spread, Visiting, Commit
  <2>2. call \in Frame /\ call.comp = d /\ call.todo = Dependents(graph, d)
    BY <2>1, VisitTypes, CallFrame DEF RInv, IInv
  <2>3. Rest(d) \in Seq(Frame) /\ Len(Rest(d)) = n /\ n \in Nat
    BY <2>1, RestFrames
  <2>4. /\ Len(stack') = n + 1
        /\ \A k \in 1 .. n : stack'[k] = Rest(d)[k]
        /\ stack'[n + 1] = call
    BY <2>1, <2>2, <2>3
  <2>5. CASE u = d
    <3>1. CascadeHealth(graph, e, d, worst'[d]) # "healthy"
      <4>1. worst'[e] \in Health
        BY DEF IInv, TypeOK
      <4>2. QED
        BY <2>1, <2>5, <4>1, RankOrder DEF CanWorsen, Health
    <3>2. e \in Dependents(graph, d)
      BY <3>1, CascadingEdge
    <3>3. n + 1 \in 1 .. Len(stack')
      BY <2>3, <2>4
    <3>4. QED
      BY <2>2, <2>4, <2>5, <3>2, <3>3
  <2>6. CASE u # d
    <3>1. PICK k \in 1 .. n : Rest(d)[k].comp = u /\ e \in Rest(d)[k].todo
      <4>1. Visited(d)
        BY <2>1 DEF Visited
      <4>2. QED
        BY <2>1, <2>6, <4>1, PendingAfterVisit
    <3>2. k \in 1 .. Len(stack') /\ stack'[k] = Rest(d)[k]
      BY <2>3, <2>4
    <3>3. QED
      BY <3>1, <3>2
  <2>7. QED
    BY <2>5, <2>6
<1>6. ASSUME NEW d \in Component, CutOff(d) PROVE Pending'
  <2>1. Len(stack) <= MaxDepth
    BY <1>6, WorseFacts, NoCutOff DEF RInv, CutOff
  <2>2. QED
    BY <1>6, <2>1, MaxDepthAssumption DEF CutOff
<1>7. CASE Return
  <2>1. /\ stack # << >> /\ phase = "propagate" /\ Top.todo = {}
        /\ stack' = SubSeq(stack, 1, Len(stack) - 1)
        /\ UNCHANGED <<graph, target, worst>>
    BY <1>7 DEF Return
  <2>2. /\ Len(stack) \in Nat \ {0}
        /\ Len(stack') = Len(stack) - 1
        /\ \A k \in 1 .. Len(stack') : stack'[k] = stack[k]
    BY <2>1, PoppedStack
  <2>3. ASSUME NEW u \in Component, NEW d \in Component, CanWorsen(u, d)'
        PROVE  \E k \in 1 .. Len(stack') : stack'[k].comp = u /\ d \in stack'[k].todo
    <3>1. CanWorsen(u, d)
      BY <2>1, <2>3 DEF CanWorsen, Cascading
    <3>2. PICK k \in 1 .. Len(stack) : stack[k].comp = u /\ d \in stack[k].todo
      BY <2>1, <3>1 DEF RInv, Pending
    <3>3. k # Len(stack)
      BY <2>1, <3>2 DEF Top
    <3>4. k \in 1 .. Len(stack')
      BY <2>2, <3>3
    <3>5. QED
      BY <2>2, <3>2, <3>4
  <2>4. QED
    BY <2>3 DEF Pending
<1>8. CASE AssessAgents
  BY <1>8 DEF AssessAgents, Pending
<1>9. ASSUME NEW a \in Component, FlagAgent(a) PROVE Pending'
  BY <1>9 DEF FlagAgent, Pending
<1>10. CASE Finish
  BY <1>10 DEF Finish, Pending
<1>11. CASE Terminated
  BY <1>11 DEF Terminated, vars, RInv, Pending, CanWorsen, Cascading
<1>12. CASE UNCHANGED vars
  BY <1>12 DEF vars, RInv, Pending, CanWorsen, Cascading
<1>13. QED
  BY <1>1, <1>2, <1>3, <1>4, <1>5, <1>6, <1>7, <1>8, <1>9, <1>10, <1>11, <1>12
  DEF Next, Simulate

(***************************************************************************)
(* Every step of the engine is a step of the semantics or a stutter: a     *)
(* dependent made worse is one rule applied, and the return of the         *)
(* outermost call is the run settling, which it may because nothing is     *)
(* pending on an empty stack.                                              *)
(***************************************************************************)
LEMMA StepSimulation ==
  ASSUME DeepEnough, RInv, [Next]_vars
  PROVE  [Semantics!Next]_(Semantics!vars)
<1> USE DEF Semantics!vars
<1> stack \in Seq(Frame) /\ worst \in [Component -> Health]
  BY DEF RInv, IInv, TypeOK
<1>1. ASSUME NEW f \in Faults, Inject(f) PROVE Semantics!Inject(f)
  BY <1>1, SameRules DEF Inject, Semantics!Inject, CPSStatus
<1>2. ASSUME NEW f \in Faults, InjectUnknown(f) PROVE Semantics!Ignore(f)
  BY <1>2 DEF InjectUnknown, Semantics!Ignore, CPSStatus
<1>3. ASSUME NEW d \in Component, Visiting(d), Worse(d), Commit(d),
             UNCHANGED <<graph, target, phase>>
      PROVE  Semantics!Worsen(Top.comp, d) /\ Top.comp \in Component
  <2>1. stack # << >> /\ phase = "propagate"
    BY <1>3 DEF Visiting
  <2>2. Len(stack) \in 1 .. Len(stack) /\ Top \in Frame
    BY <2>1, RestFrames
  <2>3. /\ Top.comp \in Component
        /\ worst[Top.comp] = Top.health
        /\ Cascading(Top.comp)
    BY <2>2 DEF Frame, RInv, IInv, Calls, Top, Cascading
  <2>4. HEALTH_RANK(NewHealth(d)) > HEALTH_RANK(worst[d])
    BY <1>3, WorseFacts DEF RInv
  <2>5. CanWorsen(Top.comp, d)
    BY <2>3, <2>4 DEF CanWorsen, NewHealth
  <2>6. worst' = [worst EXCEPT ![d] =
                    Semantics!CascadeHealth(graph, d, Top.comp, worst[Top.comp])]
    BY <1>3, <2>3, SameRules DEF Commit, NewHealth
  <2>7. QED
    BY <1>3, <2>1, <2>3, <2>5, <2>6, SameWorsening DEF Semantics!Worsen, CPSStatus
<1>4. ASSUME NEW d \in Component, Skip(d) PROVE UNCHANGED Semantics!vars
  BY <1>4 DEF Skip, CPSStatus
<1>5. ASSUME NEW d \in Component, Attenuate(d) \/ Spread(d) \/ CutOff(d)
      PROVE  \E u \in Component : Semantics!Worsen(u, d)
  BY <1>3, <1>5 DEF Attenuate, Spread, CutOff
<1>6. CASE Return
  BY <1>6 DEF Return, CPSStatus
<1>7. CASE AssessAgents
  <2>1. stack = << >> /\ phase = "propagate"
    BY <1>7 DEF AssessAgents
  <2>2. \A u, d \in Component : ~CanWorsen(u, d)
    BY <2>1 DEF RInv, Pending
  <2>3. Semantics!Closed
    BY <2>2, SameWorsening DEF Semantics!Closed
  <2>4. Semantics!Settle
    BY <1>7, <2>3 DEF AssessAgents, Semantics!Settle, CPSStatus
  <2>5. QED
    BY <2>4 DEF Semantics!Next, Semantics!Run
<1>8. ASSUME NEW a \in Component, FlagAgent(a) PROVE UNCHANGED Semantics!vars
  BY <1>8 DEF FlagAgent, CPSStatus
<1>9. CASE Finish
  BY <1>9 DEF Finish, CPSStatus
<1>10. CASE Terminated \/ UNCHANGED vars
  BY <1>10 DEF Terminated, vars, CPSStatus
<1>11. QED
  BY <1>1, <1>2, <1>4, <1>5, <1>6, <1>7, <1>8, <1>9, <1>10
  DEF Next, Simulate, Semantics!Next, Semantics!Run

(***************************************************************************)
(* The engine implements the order-free semantics.                         *)
(***************************************************************************)
THEOREM RInvariance == ASSUME DeepEnough PROVE Spec => []RInv
<1>1. Init => Pending
  BY DEF Init, Pending
<1>2. RInv /\ IInv' /\ [Next]_vars => Pending'
  BY PendingStep
<1>3. Init /\ IInv => RInv
  BY <1>1 DEF RInv
<1>4. RInv /\ IInv' /\ [Next]_vars => RInv'
  BY <1>2 DEF RInv
<1>5. QED
  BY <1>3, <1>4, Invariance, PTL DEF Spec

THEOREM Refinement == ASSUME DeepEnough PROVE Spec => ImplementsCPS
<1>1. Init => Semantics!Init
  BY DEF Init, Semantics!Init, CPSStatus
<1>2. RInv /\ [Next]_vars => [Semantics!Next]_(Semantics!vars)
  BY StepSimulation
<1>3. QED
  BY <1>1, <1>2, RInvariance, PTL DEF Spec, ImplementsCPS, Semantics!Spec

-----------------------------------------------------------------------------
(***************************************************************************)
(* OrderIndependent, and what makes it inductive: worst_health holds       *)
(* nothing that the graph and the fault do not account for.                *)
(***************************************************************************)
TargetExplained ==
  target \in Component =>
    worst[target] # "healthy" /\ Explained(graph, target, worst)

OInv == TargetExplained /\ OrderIndependent

LEMMA VisitExplained ==
  ASSUME IInv, OInv, NEW d \in Component, Visiting(d), Worse(d), Commit(d),
         UNCHANGED <<graph, target, phase>>
  PROVE  OInv'
<1>1. stack # << >> /\ phase = "propagate" /\ target \in Component
  BY DEF Visiting, IInv, Phases
<1>2. Len(stack) \in 1 .. Len(stack) /\ Top \in Frame
  BY <1>1, RestFrames DEF IInv, TypeOK
<1>3. /\ Top.comp \in Component
      /\ worst[Top.comp] = Top.health
      /\ Top.comp = target \/ worst[Top.comp] \in HardHealth
  BY <1>2 DEF Frame, IInv, Calls, Top
<1>4. HEALTH_RANK(CascadeHealth(graph, d, Top.comp, worst[Top.comp]))
        > HEALTH_RANK(worst[d])
  BY <1>3, WorseFacts DEF NewHealth
<1>5. worst' = Worsened(graph, worst, Top.comp, d)
  BY <1>3 DEF Commit, NewHealth, Worsened
<1>6. /\ worst \in [Component -> Health]
      /\ worst[target] # "healthy"
      /\ Explained(graph, target, worst)
  BY <1>1 DEF IInv, TypeOK, OInv, TargetExplained
<1>7. worst'[target] = worst[target] /\ Explained(graph, target, worst')
  BY <1>1, <1>3, <1>4, <1>5, <1>6, WorseningExplained
<1>8. QED
  BY <1>1, <1>6, <1>7 DEF OInv, TargetExplained, OrderIndependent

LEMMA OrderStep ==
  ASSUME RInv, OInv, [Next]_vars
  PROVE  OInv'
<1> USE DEF OInv, TargetExplained, OrderIndependent
<1>1. IInv /\ worst \in [Component -> Health]
  BY DEF RInv, IInv, TypeOK
<1>2. ASSUME NEW f \in Faults, Inject(f) PROVE OInv'
  <2>1. /\ f.target \in Component
        /\ target' = f.target
        /\ graph' = graph
        /\ worst' = [worst EXCEPT ![f.target] = DirectHealth(f.type)]
        /\ phase' = "propagate"
    BY <1>2 DEF Inject
  <2>2. \A c \in Component : worst[c] = "healthy"
    BY <1>1, <1>2, UnknownAssumption DEF Inject, IInv, Phases
  <2>3. worst'[f.target] # "healthy"
    BY <1>1, <2>1 DEF DirectHealth
  <2>4. \A c \in Component : c # f.target => worst'[c] = "healthy"
    BY <1>1, <2>1, <2>2
  <2>5. f.target \in HardFailures(graph, f.target, worst'[f.target])
    BY <2>1, HardFailuresOrigin
  <2>6. Explained(graph, f.target, worst')
    BY <2>4, <2>5 DEF Explained
  <2>7. QED
    BY <2>1, <2>3, <2>6
<1>3. ASSUME NEW f \in Faults, InjectUnknown(f) PROVE OInv'
  BY <1>1, <1>3, UnknownAssumption DEF InjectUnknown, IInv, Phases
<1>4. ASSUME NEW d \in Component, Skip(d) PROVE OInv'
  BY <1>4 DEF Skip
<1>5. ASSUME NEW d \in Component, Attenuate(d) \/ Spread(d) \/ CutOff(d) PROVE OInv'
  BY <1>1, <1>5, VisitExplained DEF Attenuate, Spread, CutOff
<1>6. CASE Return
  BY <1>6 DEF Return
<1>7. CASE AssessAgents
  <2>1. stack = << >> /\ phase = "propagate" /\ UNCHANGED <<graph, target, worst>>
    BY <1>7 DEF AssessAgents
  <2>2. target \in Component
    BY <1>1, <2>1 DEF IInv, Phases
  <2>3. \A u, d \in Component : ~CanWorsen(u, d)
    BY <2>1 DEF RInv, Pending
  <2>4. Stable(graph, target, worst)
    BY <2>3 DEF Stable, CanWorsen, Cascading
  <2>5. worst = Outcome(graph, target, worst[target])
    BY <1>1, <2>2, <2>4, StableIsOutcome
  <2>6. QED
    BY <2>1, <2>5
<1>8. ASSUME NEW a \in Component, FlagAgent(a) PROVE OInv'
  BY <1>8 DEF FlagAgent
<1>9. CASE Finish
  BY <1>9 DEF Finish
<1>10. CASE Terminated \/ UNCHANGED vars
  BY <1>10 DEF Terminated, vars
<1>11. QED
  BY <1>2, <1>3, <1>4, <1>5, <1>6, <1>7, <1>8, <1>9, <1>10 DEF Next, Simulate

(***************************************************************************)
(* Whatever order simulate_fault visits the dependents in, it records the  *)
(* health map that the graph and the fault determine.                      *)
(***************************************************************************)
THEOREM OrderIndependence == ASSUME DeepEnough PROVE Spec => []OrderIndependent
<1>1. Init => OInv
  BY UnknownAssumption DEF Init, OInv, TargetExplained, OrderIndependent
<1>2. RInv /\ OInv /\ [Next]_vars => OInv'
  BY OrderStep
<1>3. OInv => OrderIndependent
  BY DEF OInv
<1>4. QED
  BY <1>1, <1>2, <1>3, RInvariance, PTL DEF Spec

-----------------------------------------------------------------------------
(***************************************************************************)
(* The components within n edges of the target are those within n - 1 and  *)
(* their dependents: the recursion that defines them is well founded.      *)
(***************************************************************************)
LEMMA BallFacts ==
  /\ Ball[0] = {target} \cap Component
  /\ \A n \in Nat : Ball[n + 1] = Ball[n] \cup UNION {Dependents(graph, u) : u \in Ball[n]}
<1> DEFINE X == SUBSET Component
           base == {target} \cap Component
           wider == [B \in X |-> B \cup UNION {Dependents(graph, u) : u \in B}]
           step == [n \in Nat |-> wider]
<1>1. base \in X /\ step \in [Nat -> [X -> X]]
  <2>1. \A B \in X : B \cup UNION {Dependents(graph, u) : u \in B} \in X
    BY DEF Dependents
  <2>2. QED
    BY <2>1
<1>2. \A n \in Nat, B \in X : step[n][B] = B \cup UNION {Dependents(graph, u) : u \in B}
  OBVIOUS
<1> HIDE DEF step, X, base
<1>3. PICK f : Recurs(f, X, base, step)
  BY <1>1, RecursionExists DEF Steps
<1>4. ASSUME NEW n \in Nat
      PROVE  f[n] = IF n = 0 THEN base
                    ELSE f[n - 1] \cup UNION {Dependents(graph, u) : u \in f[n - 1]}
  <2>1. n # 0 => n - 1 \in Nat
    OBVIOUS
  <2>2. QED
    BY <1>2, <1>3, <2>1 DEF Recurs
<1>5. f = [n \in Nat |-> IF n = 0 THEN {target} \cap Component
                         ELSE f[n - 1] \cup UNION {Dependents(graph, u) : u \in f[n - 1]}]
  BY <1>3, <1>4 DEF base, Recurs
<1>6. Ball = [n \in Nat |-> IF n = 0 THEN {target} \cap Component
                            ELSE Ball[n - 1] \cup UNION {Dependents(graph, u) : u \in Ball[n - 1]}]
  BY <1>5 DEF Ball
<1>7. Ball[0] = {target} \cap Component
  BY <1>6
<1>8. ASSUME NEW n \in Nat
      PROVE  Ball[n + 1] = Ball[n] \cup UNION {Dependents(graph, u) : u \in Ball[n]}
  <2>1. n + 1 \in Nat /\ n + 1 # 0 /\ (n + 1) - 1 = n
    OBVIOUS
  <2>2. QED
    BY <1>6, <2>1
<1>9. QED
  BY <1>7, <1>8

\* What is within m edges is within n edges, when m is at most n.
LEMMA BallGrows == \A m, n \in Nat : m <= n => Ball[m] \subseteq Ball[n]
<1> SUFFICES ASSUME NEW m \in Nat, NEW n \in Nat, m <= n
             PROVE  Ball[m] \subseteq Ball[n]
  OBVIOUS
<1> DEFINE S == {k \in Nat : k >= m => Ball[m] \subseteq Ball[k]}
<1>1. 0 \in S
  OBVIOUS
<1>2. ASSUME NEW k \in S PROVE k + 1 \in S
  <2>1. Ball[k] \subseteq Ball[k + 1]
    BY BallFacts
  <2>2. CASE k >= m
    BY <2>1, <2>2
  <2>3. CASE ~(k >= m)
    <3>1. k + 1 >= m => k + 1 = m
      BY <2>3
    <3>2. QED
      BY <3>1
  <2>4. QED
    BY <2>2, <2>3
<1> HIDE DEF S
<1>3. S = Nat
  <2>1. S \in SUBSET Nat
    BY DEF S
  <2>2. QED
    BY <1>1, <1>2, <2>1, SetInduction
<1>4. QED
  BY <1>3 DEF S

(***************************************************************************)
(* The invariant of the depth limit: the call at position k of the stack,  *)
(* which the code runs at depth k - 1, is on a component within k - 1      *)
(* edges of the target and loops over dependents of that component, and    *)
(* no call is deeper than the limit.                                       *)
(***************************************************************************)
Shallow ==
  /\ Len(stack) <= MaxDepth + 1
  /\ \A k \in 1 .. Len(stack) : /\ stack[k].comp \in Ball[k - 1]
                                /\ stack[k].todo \subseteq Dependents(graph, stack[k].comp)

DInv == Shallow /\ WithinDepth

\* A dependent in the loop of the innermost call is within the limit plus one.
LEMMA VisitWithin ==
  ASSUME TypeOK, Shallow, NEW d \in Component, Visiting(d)
  PROVE  d \in Ball[Len(stack)] /\ d \in Ball[MaxDepth + 1]
<1>1. stack \in Seq(Frame) /\ stack # << >> /\ d \in Top.todo
  BY DEF TypeOK, Visiting
<1> DEFINE n == Len(stack)
<1>2. n \in Nat \ {0} /\ n \in 1 .. n /\ n - 1 \in Nat /\ (n - 1) + 1 = n
  BY <1>1
<1>3. Top.comp \in Ball[n - 1] /\ d \in Dependents(graph, Top.comp)
  BY <1>1, <1>2 DEF Shallow, Top
<1>4. Ball[n] = Ball[n - 1] \cup UNION {Dependents(graph, u) : u \in Ball[n - 1]}
  <2>1. Ball[(n - 1) + 1] = Ball[n - 1] \cup UNION {Dependents(graph, u) : u \in Ball[n - 1]}
    BY <1>2, BallFacts
  <2>2. QED
    BY <1>2, <2>1
<1>5. d \in Ball[n]
  BY <1>3, <1>4
<1>6. n <= MaxDepth + 1
  BY DEF Shallow
<1>7. Ball[n] \subseteq Ball[MaxDepth + 1]
  BY <1>2, <1>6, MaxDepthAssumption, BallGrows
<1>8. QED
  BY <1>5, <1>7

\* Committing the effect of a dependent keeps the effects within the limit.
LEMMA CommitWithin ==
  ASSUME TypeOK, DInv, NEW d \in Component, Visiting(d), Commit(d),
         UNCHANGED <<graph, target>>
  PROVE  WithinDepth'
<1>1. Ball' = Ball
  BY DEF Ball, Dependents
<1>2. worst' = [worst EXCEPT ![d] = NewHealth(d)] /\ worst \in [Component -> Health]
  BY DEF Commit, TypeOK
<1>3. d \in Ball[MaxDepth + 1]
  BY VisitWithin DEF DInv
<1>4. ASSUME NEW c \in Component, worst'[c] # "healthy" PROVE c \in Ball[MaxDepth + 1]
  BY <1>2, <1>3, <1>4 DEF DInv, WithinDepth
<1>5. QED
  BY <1>1, <1>4 DEF WithinDepth

\* Taking a dependent off the innermost loop keeps the calls within the limit.
LEMMA RestShallow ==
  ASSUME TypeOK, Shallow, stack # << >>, NEW d
  PROVE  /\ Len(Rest(d)) = Len(stack)
         /\ \A k \in 1 .. Len(stack) :
              /\ Rest(d)[k].comp \in Ball[k - 1]
              /\ Rest(d)[k].todo \subseteq Dependents(graph, Rest(d)[k].comp)
<1>1. stack \in Seq(Frame)
  BY DEF TypeOK
<1>2. QED
  BY <1>1, RestFrames DEF Shallow

\* Every step keeps the calls and the effects within the limit.
LEMMA DepthStep == IInv /\ DInv /\ [Next]_vars => DInv'
<1> SUFFICES ASSUME IInv, DInv, [Next]_vars PROVE DInv'
  OBVIOUS
<1> TypeOK
  BY DEF IInv
<1> USE DEF DInv
<1>1. stack \in Seq(Frame)
  BY DEF TypeOK
<1>2. UNCHANGED <<graph, target>> => Ball' = Ball
  BY DEF Ball, Dependents
<1>3. ASSUME NEW f \in Faults, Inject(f) PROVE DInv'
  <2>1. /\ f.target \in Component
        /\ target' = f.target
        /\ worst' = [worst EXCEPT ![f.target] = DirectHealth(f.type)]
        /\ stack' = <<Call(f.target, DirectHealth(f.type), 0)>>
        /\ graph' = graph /\ phase = "inject"
    BY <1>3 DEF Inject
  <2>2. worst \in [Component -> Health] /\ \A c \in Component : worst[c] = "healthy"
    BY <2>1, UnknownAssumption DEF IInv, TypeOK, Phases
  <2>3. (Ball[0] = {target} \cap Component)'
    BY BallFacts, PTL
  <2>4. (\A m, n \in Nat : m <= n => Ball[m] \subseteq Ball[n])'
    BY BallGrows, PTL
  <2>5. target' \in Ball'[0] /\ target' \in Ball'[MaxDepth + 1]
    BY <2>1, <2>3, <2>4, MaxDepthAssumption
  <2>6. WithinDepth'
    BY <2>1, <2>2, <2>5 DEF WithinDepth
  <2>7. /\ Len(stack') = 1 /\ stack'[1].comp = target'
        /\ stack'[1].todo = Dependents(graph', target')
    BY <2>1 DEF Call
  <2>8. Shallow'
    BY <2>5, <2>7, MaxDepthAssumption DEF Shallow
  <2>9. QED
    BY <2>6, <2>8
<1>4. ASSUME NEW d \in Component, Skip(d) PROVE DInv'
  <2>1. Visiting(d) /\ stack' = Rest(d) /\ UNCHANGED <<graph, target, worst>> /\ stack # << >>
    BY <1>4 DEF Skip, Visiting
  <2>2. Ball' = Ball
    BY <1>2, <2>1
  <2>3. Shallow'
    BY <2>1, <2>2, RestShallow DEF Shallow
  <2>4. WithinDepth'
    BY <2>1, <2>2 DEF WithinDepth
  <2>5. QED
    BY <2>3, <2>4
<1>5. ASSUME NEW d \in Component, Attenuate(d) \/ CutOff(d) PROVE DInv'
  <2>1. /\ Visiting(d) /\ Commit(d) /\ stack' = Rest(d) /\ stack # << >>
        /\ UNCHANGED <<graph, target>>
    BY <1>5 DEF Attenuate, CutOff, Visiting
  <2>2. Ball' = Ball
    BY <1>2, <2>1
  <2>3. Shallow'
    BY <2>1, <2>2, RestShallow DEF Shallow
  <2>4. QED
    BY <2>1, <2>3, CommitWithin
<1>6. ASSUME NEW d \in Component, Spread(d) PROVE DInv'
  <2> DEFINE n == Len(stack)
             call == Call(d, NewHealth(d), NewElapsed(d))
  <2>1. /\ Visiting(d) /\ Commit(d) /\ stack' = Append(Rest(d), call) /\ stack # << >>
        /\ UNCHANGED <<graph, target>> /\ n <= MaxDepth
    BY <1>6 DEF Spread, Visiting
  <2>2. Ball' = Ball
    BY <1>2, <2>1
  <2>3. Rest(d) \in Seq(Frame) /\ Len(Rest(d)) = n /\ n \in Nat
    BY <1>1, <2>1, RestFrames
  <2>4. call.comp = d /\ call.todo = Dependents(graph, d)
    BY DEF Call
  <2> HIDE DEF call, n
  <2>5. /\ Len(stack') = n + 1 /\ stack'[n + 1] = call
        /\ \A k \in 1 .. n : stack'[k] = Rest(d)[k]
    BY <2>1, <2>3
  <2>6. d \in Ball[n]
    BY <2>1, VisitWithin DEF n
  <2>7. ASSUME NEW k \in 1 .. n + 1
        PROVE  /\ stack'[k].comp \in Ball[k - 1]
               /\ stack'[k].todo \subseteq Dependents(graph, stack'[k].comp)
    <3>1. CASE k = n + 1
      BY <2>3, <2>4, <2>5, <2>6, <3>1
    <3>2. CASE k # n + 1
      <4>1. k \in 1 .. n
        BY <2>3, <3>2
      <4>2. QED
        BY <2>1, <2>5, <4>1, RestShallow DEF n
    <3>3. QED
      BY <3>1, <3>2
  <2>8. n + 1 <= MaxDepth + 1
    BY <2>1, <2>3, MaxDepthAssumption
  <2>9. Shallow'
    BY <2>1, <2>2, <2>5, <2>7, <2>8 DEF Shallow
  <2>10. QED
    BY <2>1, <2>9, CommitWithin
<1>7. CASE Return
  <2> DEFINE s == SubSeq(stack, 1, Len(stack) - 1)
  <2>1. stack' = s /\ stack # << >> /\ UNCHANGED <<graph, target, worst>>
    BY <1>7 DEF Return
  <2>2. Ball' = Ball
    BY <1>2, <2>1
  <2>3. /\ Len(s) = Len(stack) - 1 /\ Len(stack) \in Nat
        /\ \A k \in 1 .. Len(s) : s[k] = stack[k] /\ k \in 1 .. Len(stack)
    BY <1>1, <2>1, PoppedStack
  <2> HIDE DEF s
  <2>4. Len(s) <= MaxDepth + 1
    BY <2>3, MaxDepthAssumption DEF Shallow
  <2>5. Shallow'
    BY <2>1, <2>2, <2>3, <2>4 DEF Shallow
  <2>6. QED
    BY <2>1, <2>2, <2>5 DEF WithinDepth
<1>8. ASSUME UNCHANGED <<graph, target, worst, stack>> PROVE DInv'
  BY <1>8, <1>2 DEF Shallow, WithinDepth
<1>9. QED
  BY <1>3, <1>4, <1>5, <1>6, <1>7, <1>8
  DEF Next, Simulate, InjectUnknown, AssessAgents, FlagAgent, Finish, Terminated, vars

(***************************************************************************)
(* The depth limit holds: nothing further than MaxDepth + 1 edges from the *)
(* target is affected by the propagation, the property WithinDepth.        *)
(***************************************************************************)
THEOREM AlwaysWithinDepth == Spec => []WithinDepth
<1>1. Init => DInv
  BY MaxDepthAssumption DEF Init, DInv, Shallow, WithinDepth
<1>2. DInv => WithinDepth
  BY DEF DInv
<1>3. QED
  BY <1>1, <1>2, DepthStep, Invariance, PTL DEF Spec

-----------------------------------------------------------------------------
(***************************************************************************)
(* The recursion that defines the components which a chain of at most n    *)
(* edges makes fail like the target is well founded too.                   *)
(***************************************************************************)
Harmed(u) ==
  {d \in Component : CascadeHealth(graph, d, u, worst[target]) \in HardHealth}

LEMMA HardBallFacts ==
  /\ HardBall[0] = {target} \cap Component
  /\ \A n \in Nat : HardBall[n + 1] = HardBall[n] \cup UNION {Harmed(u) : u \in HardBall[n]}
<1> DEFINE X == SUBSET Component
           base == {target} \cap Component
           wider == [B \in X |-> B \cup UNION {Harmed(u) : u \in B}]
           step == [n \in Nat |-> wider]
<1>1. base \in X /\ step \in [Nat -> [X -> X]]
  <2>1. \A B \in X : B \cup UNION {Harmed(u) : u \in B} \in X
    BY DEF Harmed
  <2>2. QED
    BY <2>1
<1>2. \A n \in Nat, B \in X : step[n][B] = B \cup UNION {Harmed(u) : u \in B}
  OBVIOUS
<1> HIDE DEF step, X, base
<1>3. PICK f : Recurs(f, X, base, step)
  BY <1>1, RecursionExists DEF Steps
<1>4. \A B : UNION {Harmed(u) : u \in B} =
             {d \in Component :
                \E u \in B : CascadeHealth(graph, d, u, worst[target]) \in HardHealth}
  BY DEF Harmed
<1>5. ASSUME NEW n \in Nat
      PROVE  f[n] = IF n = 0 THEN base
                    ELSE f[n - 1] \cup UNION {Harmed(u) : u \in f[n - 1]}
  <2>1. n # 0 => n - 1 \in Nat
    OBVIOUS
  <2>2. QED
    BY <1>2, <1>3, <2>1 DEF Recurs
<1> DEFINE Wider(B) == B \cup {d \in Component : \E u \in B :
                                  CascadeHealth(graph, d, u, worst[target]) \in HardHealth}
<1>6. ASSUME NEW n \in Nat PROVE f[n] = IF n = 0 THEN base ELSE Wider(f[n - 1])
  BY <1>4, <1>5
<1>7. f = [n \in Nat |-> IF n = 0 THEN {target} \cap Component ELSE Wider(f[n - 1])]
  <2> HIDE DEF Wider
  <2>1. QED
    BY <1>3, <1>6 DEF base, Recurs
<1>8. HardBall = [n \in Nat |->
             IF n = 0 THEN {target} \cap Component
             ELSE HardBall[n - 1] \cup
                  {d \in Component : \E u \in HardBall[n - 1] :
                     CascadeHealth(graph, d, u, worst[target]) \in HardHealth}]
  BY <1>7 DEF HardBall
<1>9. HardBall[0] = {target} \cap Component
  BY <1>8
<1>10. ASSUME NEW n \in Nat
       PROVE  HardBall[n + 1] = HardBall[n] \cup UNION {Harmed(u) : u \in HardBall[n]}
  <2>1. n + 1 \in Nat /\ n + 1 # 0 /\ (n + 1) - 1 = n
    OBVIOUS
  <2>2. HardBall[n + 1] = HardBall[n] \cup
          {d \in Component : \E u \in HardBall[n] :
             CascadeHealth(graph, d, u, worst[target]) \in HardHealth}
    BY <1>8, <2>1
  <2>3. QED
    BY <1>4, <2>2
<1>11. QED
  BY <1>9, <1>10

\* A chain of any length leads to nothing but the hard failures of the graph and the fault.
LEMMA ChainsFailHard ==
  ASSUME target \in Component
  PROVE  \A n \in Nat : HardBall[n] \subseteq HardFailures(graph, target, worst[target])
<1> DEFINE HF == HardFailures(graph, target, worst[target])
           S == {n \in Nat : HardBall[n] \subseteq HF}
<1>1. 0 \in S
  BY HardBallFacts, HardFailuresOrigin
<1>2. ASSUME NEW n \in S PROVE n + 1 \in S
  <2>1. n \in Nat /\ HardBall[n] \subseteq HF
    OBVIOUS
  <2>2. ASSUME NEW u \in HF, NEW d \in Harmed(u) PROVE d \in HF
    BY HardFailuresStep DEF Harmed
  <2>3. HardBall[n + 1] \subseteq HF
    <3> HIDE DEF HF
    <3>1. QED
      BY <2>1, <2>2, HardBallFacts
  <2>4. QED
    BY <2>1, <2>3
<1>3. S \in SUBSET Nat
  OBVIOUS
<1> HIDE DEF S
<1>4. S = Nat
  BY <1>1, <1>2, <1>3, SetInduction
<1>5. QED
  BY <1>4 DEF S

(***************************************************************************)
(* The outcome gives each component at least the health that the rule of   *)
(* an edge to a hard failure gives it.                                     *)
(***************************************************************************)
LEMMA OutcomeCounts ==
  ASSUME NEW g, NEW o \in Component, NEW h \in Health, h # "healthy",
         NEW u \in HardFailures(g, o, h), NEW d \in Component
  PROVE  HEALTH_RANK(Outcome(g, o, h)[d]) >= HEALTH_RANK(CascadeHealth(g, d, u, h))
<1> DEFINE ch == CascadeHealth(g, d, u, h)
<1>1. ch \in {"healthy", "degraded", h}
  BY CascadeHealthCases
<1>2. CASE d \in HardFailures(g, o, h)
  <2>1. Outcome(g, o, h)[d] = h
    BY <1>2 DEF Outcome
  <2> HIDE DEF ch
  <2>2. HEALTH_RANK(h) >= HEALTH_RANK(ch)
    BY <1>1, RankOrder DEF Health
  <2>3. QED
    BY <2>1, <2>2 DEF ch
<1>3. CASE d \notin HardFailures(g, o, h)
  <2>1. ch \notin HardHealth
    BY <1>3, HardFailuresStep, u \in Component DEF HardFailures
  <2>2. ch \in {"healthy", "degraded"}
    BY <1>1, <2>1 DEF Health, HardHealth
  <2>3. ch # "healthy" => Outcome(g, o, h)[d] = "degraded"
    BY <1>3 DEF Outcome
  <2>4. Outcome(g, o, h)[d] \in {"healthy", "degraded"}
    BY <1>3 DEF Outcome
  <2> HIDE DEF ch
  <2>5. HEALTH_RANK(Outcome(g, o, h)[d]) >= HEALTH_RANK(ch)
    BY <2>2, <2>3, <2>4, RankOrder
  <2>6. QED
    BY <2>5 DEF ch
<1>4. QED
  BY <1>2, <1>3

(***************************************************************************)
(* WorstPathWins fails only by the depth limit: where that cannot bite,    *)
(* the worst path wins in every run, on every graph and in every order.    *)
(***************************************************************************)
THEOREM WorstPathWinsWhenDeep == ASSUME DeepEnough PROVE Spec => []WorstPathWins
<1>1. IInv /\ OrderIndependent => WorstPathWins
  <2> SUFFICES ASSUME IInv, OrderIndependent, phase = "done",
                      NEW u \in HardBall[MaxDepth], NEW d \in Component
               PROVE  HEALTH_RANK(worst[d])
                        >= HEALTH_RANK(CascadeHealth(graph, d, u, worst[target]))
    BY DEF WorstPathWins
  <2>1. MaxDepth \in Nat
    BY MaxDepthAssumption
  <2>2. target \in Component
    <3>1. SUFFICES ASSUME target \notin Component PROVE FALSE
      OBVIOUS
    <3> DEFINE S == {n \in Nat : HardBall[n] = {}}
    <3>2. 0 \in S
      BY <3>1, HardBallFacts
    <3>3. \A n \in S : n + 1 \in S
      BY HardBallFacts
    <3>4. S \in SUBSET Nat
      OBVIOUS
    <3> HIDE DEF S
    <3>5. S = Nat
      BY <3>2, <3>3, <3>4, SetInduction
    <3>6. QED
      BY <2>1, <3>5 DEF S
  <2>3. u \in HardFailures(graph, target, worst[target])
    BY <2>1, <2>2, ChainsFailHard
  <2>4. worst[target] \in Health /\ worst[target] # "healthy"
    BY <2>2 DEF IInv, TypeOK, Phases
  <2>5. worst[d] = Outcome(graph, target, worst[target])[d]
    BY <2>2 DEF OrderIndependent
  <2>6. QED
    BY <2>2, <2>3, <2>4, <2>5, OutcomeCounts
<1>2. QED
  BY <1>1, Invariance, OrderIndependence, PTL

-----------------------------------------------------------------------------
(***************************************************************************)
(* What bounds a run, on cyclic graphs too, in the order in which it       *)
(* counts: the phases to come; the worsenings that are left; the calls in  *)
(* progress; the dependents that the innermost call has yet to visit; the  *)
(* agents yet to be assessed.                                              *)
(***************************************************************************)
Stage == IF phase = "inject" THEN 0 ELSE IF phase = "propagate" THEN 1
         ELSE IF phase = "agents" THEN 2 ELSE 3

Headroom == {w \in Component \X (1 .. 3) : HEALTH_RANK(worst[w[1]]) < w[2]}

Shrinks(S, T) == T \subseteq S /\ T # S

StackShrinks ==
  \/ Len(stack') < Len(stack)
  \/ /\ Len(stack') = Len(stack) /\ stack # << >>
     /\ Shrinks(Top.todo, Top.todo')

Advances ==
  \/ Stage' > Stage
  \/ Stage' = Stage /\ Shrinks(Headroom, Headroom')
  \/ Stage' = Stage /\ Headroom' = Headroom /\ StackShrinks
  \/ Stage' = Stage /\ Headroom' = Headroom /\ stack' = stack /\ Shrinks(exposed, exposed')

\* A component that is made worse leaves fewer worsenings for later.
LEMMA WorseShrinks ==
  ASSUME IInv, NEW d \in Component, Visiting(d), Worse(d), Commit(d)
  PROVE  Shrinks(Headroom, Headroom')
<1>1. /\ worst \in [Component -> Health]
      /\ worst' = [worst EXCEPT ![d] = NewHealth(d)]
      /\ NewHealth(d) \in Health
      /\ HEALTH_RANK(NewHealth(d)) > HEALTH_RANK(worst[d])
  BY WorseFacts DEF Commit, IInv, TypeOK
<1>2. /\ HEALTH_RANK(NewHealth(d)) \in 1 .. 3
      /\ \A c \in Component : HEALTH_RANK(worst[c]) \in 0 .. 3
  BY <1>1, RankOrder DEF Health
<1>3. \A c \in Component : /\ HEALTH_RANK(worst'[c]) \in 0 .. 3
                           /\ HEALTH_RANK(worst'[c]) >= HEALTH_RANK(worst[c])
  BY <1>1, <1>2
<1>4. Headroom' \subseteq Headroom
  <2>1. SUFFICES ASSUME NEW c \in Component, NEW r \in 1 .. 3, HEALTH_RANK(worst'[c]) < r
                 PROVE  HEALTH_RANK(worst[c]) < r
    BY DEF Headroom
  <2>2. QED
    BY <1>2, <1>3, <2>1
<1> DEFINE w == <<d, HEALTH_RANK(NewHealth(d))>>
<1>5. w \in Headroom
  BY <1>1, <1>2 DEF Headroom
<1>6. w \notin Headroom'
  <2>1. HEALTH_RANK(worst'[d]) = HEALTH_RANK(NewHealth(d))
    BY <1>1
  <2>2. ~(HEALTH_RANK(worst'[d]) < HEALTH_RANK(NewHealth(d)))
    BY <1>2, <2>1
  <2>3. QED
    BY <2>2 DEF Headroom
<1>7. QED
  BY <1>4, <1>5, <1>6 DEF Shrinks

\* The loop of the innermost call gets shorter with every dependent that it is done with.
LEMMA RestShrinks ==
  ASSUME IInv, NEW d, Visiting(d), stack' = Rest(d)
  PROVE  StackShrinks
<1>1. stack \in Seq(Frame) /\ stack # << >> /\ d \in Top.todo
  BY DEF IInv, TypeOK, Visiting
<1>2. Len(stack) \in 1 .. Len(stack) /\ Len(stack') = Len(stack)
  BY <1>1, RestFrames
<1>3. stack'[Len(stack)].todo = stack[Len(stack)].todo \ {d}
  BY <1>1, <1>2, RestFrames
<1>4. Top'.todo = Top.todo \ {d}
  BY <1>2, <1>3 DEF Top
<1>5. QED
  BY <1>1, <1>2, <1>4 DEF StackShrinks, Shrinks

\* Every step of simulate_fault but the stutter after its return is an advance.
LEMMA StepAdvances == IInv /\ [Next]_vars => [Advances]_vars
<1>1. ASSUME IInv, Simulate PROVE Advances
  <2>1. ASSUME NEW f \in Faults, Inject(f) \/ InjectUnknown(f) PROVE Advances
    BY <2>1 DEF Inject, InjectUnknown, Advances, Stage
  <2>2. ASSUME NEW d \in Component, Skip(d) PROVE Advances
    <3>1. Visiting(d) /\ stack' = Rest(d) /\ UNCHANGED <<worst, phase>>
      BY <2>2 DEF Skip
    <3>2. StackShrinks
      BY <1>1, <3>1, RestShrinks
    <3>3. Stage' = Stage /\ Headroom' = Headroom
      BY <3>1 DEF Stage, Headroom
    <3>4. QED
      BY <3>2, <3>3 DEF Advances
  <2>3. ASSUME NEW d \in Component, Attenuate(d) \/ Spread(d) \/ CutOff(d)
        PROVE  Advances
    <3>1. Visiting(d) /\ Worse(d) /\ Commit(d) /\ UNCHANGED phase
      BY <2>3 DEF Attenuate, Spread, CutOff
    <3>2. Shrinks(Headroom, Headroom')
      BY <1>1, <3>1, WorseShrinks
    <3>3. Stage' = Stage
      BY <3>1 DEF Stage
    <3>4. QED
      BY <3>2, <3>3 DEF Advances
  <2>4. CASE Return
    <3>1. Stage' = Stage /\ Headroom' = Headroom
      BY <2>4 DEF Return, Stage, Headroom
    <3>2. Len(stack') < Len(stack)
      <4>1. /\ stack \in Seq(Frame) /\ stack # << >>
            /\ stack' = SubSeq(stack, 1, Len(stack) - 1)
        BY <1>1, <2>4 DEF Return, IInv, TypeOK
      <4>2. QED
        BY <4>1
    <3>3. QED
      BY <3>1, <3>2 DEF Advances, StackShrinks
  <2>5. CASE AssessAgents \/ Finish
    BY <2>5 DEF AssessAgents, Finish, Advances, Stage
  <2>6. ASSUME NEW a \in Component, FlagAgent(a) PROVE Advances
    <3>1. Stage' = Stage /\ Headroom' = Headroom /\ stack' = stack
      BY <2>6 DEF FlagAgent, Stage, Headroom
    <3>2. Shrinks(exposed, exposed')
      BY <2>6 DEF FlagAgent, Shrinks
    <3>3. QED
      BY <3>1, <3>2 DEF Advances
  <2>7. QED
    BY <1>1, <2>1, <2>2, <2>3, <2>4, <2>5, <2>6 DEF Simulate
<1>2. QED
  BY <1>1 DEF Next, Terminated

(***************************************************************************)
(* The same in numbers, which count in the order in which they are listed. *)
(***************************************************************************)
Measure == [i \in 1 .. 5 |-> CASE i = 1 -> 3 - Stage
                              [] i = 2 -> Cardinality(Headroom)
                              [] i = 3 -> Len(stack)
                              [] i = 4 -> IF stack = << >> THEN 0 ELSE Cardinality(Top.todo)
                              [] i = 5 -> Cardinality(exposed)]

Descends == <<Measure', Measure>> \in Nearer

\* The numbers are natural numbers, and the sets that they count are finite.
Measurable ==
  /\ Measure \in [1 .. 5 -> Nat]
  /\ IsFiniteSet(Headroom) /\ IsFiniteSet(exposed)
  /\ stack # << >> => IsFiniteSet(Top.todo)

LEMMA MeasureType == IsFiniteSet(Component) /\ TypeOK => Measurable
<1> SUFFICES ASSUME IsFiniteSet(Component), TypeOK PROVE Measurable
  OBVIOUS
<1>1. IsFiniteSet(Headroom)
  <2>1. IsFiniteSet(1 .. 3)
    <3>1. 1 \in Int /\ 3 \in Int
      OBVIOUS
    <3>2. QED
      BY <3>1, FS_Interval, Zenon
  <2>2. IsFiniteSet(Component \X (1 .. 3))
    BY <2>1, FS_Product
  <2>3. QED
    BY <2>2, FS_Subset DEF Headroom
<1>2. IsFiniteSet(exposed)
  BY FS_Subset DEF TypeOK
<1>3. stack # << >> => IsFiniteSet(Top.todo)
  <2>1. stack # << >> => Top \in Frame
    BY RestFrames DEF TypeOK
  <2>2. QED
    BY <2>1, FS_Subset DEF Frame
<1>4. /\ 3 - Stage \in Nat /\ Cardinality(Headroom) \in Nat /\ Len(stack) \in Nat
      /\ stack # << >> => Cardinality(Top.todo) \in Nat
      /\ Cardinality(exposed) \in Nat
  BY <1>1, <1>2, <1>3, FS_CardinalityType DEF Stage, TypeOK
<1>5. QED
  BY <1>1, <1>2, <1>3, <1>4 DEF Measure, Measurable

\* A set that shrinks has fewer elements.
LEMMA ShrinksCounts ==
  ASSUME NEW S, NEW T, IsFiniteSet(S), Shrinks(S, T)
  PROVE  Cardinality(T) \in Nat /\ Cardinality(S) \in Nat /\ Cardinality(T) < Cardinality(S)
<1>1. IsFiniteSet(T) /\ Cardinality(T) <= Cardinality(S)
  BY FS_Subset DEF Shrinks
<1>2. Cardinality(T) # Cardinality(S)
  BY FS_Subset DEF Shrinks
<1>3. QED
  BY <1>1, <1>2, FS_CardinalityType

(***************************************************************************)
(* A run is finite, on cyclic graphs too and under any depth limit: every  *)
(* step of simulate_fault takes a measure down in an order that has no     *)
(* infinite descent.  No step repeats work that another has done.          *)
(***************************************************************************)
THEOREM RunsAreFinite ==
  ASSUME IsFiniteSet(Component)
  PROVE  /\ IsWellFoundedOn(Nearer, [1 .. 5 -> Nat])
         /\ Spec => [][Descends]_vars
<1>1. IsWellFoundedOn(Nearer, [1 .. 5 -> Nat])
  BY NearerWellFounded
<1>2. (IsFiniteSet(Component) /\ TypeOK => Measurable)'
  BY MeasureType, PTL
<1>3. ASSUME IInv, IInv', Advances PROVE Descends
  <2>1. /\ Measure \in [1 .. 5 -> Nat] /\ Measure' \in [1 .. 5 -> Nat]
        /\ IsFiniteSet(Headroom) /\ IsFiniteSet(exposed)
        /\ stack # << >> => IsFiniteSet(Top.todo)
    BY <1>2, <1>3, MeasureType DEF IInv, Measurable
  <2>2. CASE Stage' > Stage
    <3>1. Measure'[1] < Measure[1]
      BY <2>2 DEF Measure, Stage
    <3>2. QED
      BY <2>1, <3>1, NearerAt DEF Descends
  <2>3. CASE Stage' = Stage /\ Shrinks(Headroom, Headroom')
    <3>1. Measure'[2] < Measure[2] /\ Measure'[1] = Measure[1]
      BY <2>1, <2>3, ShrinksCounts DEF Measure
    <3>2. QED
      BY <2>1, <3>1, NearerAt DEF Descends
  <2>4. CASE Stage' = Stage /\ Headroom' = Headroom /\ Len(stack') < Len(stack)
    <3>1. /\ Measure'[3] < Measure[3]
          /\ Measure'[1] = Measure[1] /\ Measure'[2] = Measure[2]
      BY <2>4 DEF Measure
    <3>2. QED
      BY <2>1, <3>1, NearerAt DEF Descends
  <2>5. CASE /\ Stage' = Stage /\ Headroom' = Headroom /\ Len(stack') = Len(stack)
             /\ stack # << >> /\ Shrinks(Top.todo, Top.todo')
    <3>1. stack' # << >>
      <4>1. stack \in Seq(Frame) /\ stack' \in Seq(Frame)
        BY <1>3 DEF IInv, TypeOK
      <4>2. QED
        BY <2>5, <4>1
    <3>2. /\ Measure'[4] < Measure[4] /\ Measure'[1] = Measure[1]
          /\ Measure'[2] = Measure[2] /\ Measure'[3] = Measure[3]
      BY <2>1, <2>5, <3>1, ShrinksCounts DEF Measure
    <3>3. QED
      BY <2>1, <3>2, NearerAt DEF Descends
  <2>6. CASE /\ Stage' = Stage /\ Headroom' = Headroom /\ stack' = stack
             /\ Shrinks(exposed, exposed')
    <3>1. /\ Measure'[5] < Measure[5] /\ Measure'[1] = Measure[1]
          /\ Measure'[2] = Measure[2] /\ Measure'[3] = Measure[3] /\ Measure'[4] = Measure[4]
      BY <2>1, <2>6, ShrinksCounts DEF Measure, Top
    <3>2. QED
      BY <2>1, <3>1, NearerAt DEF Descends
  <2>7. QED
    BY <1>3, <2>2, <2>3, <2>4, <2>5, <2>6 DEF Advances, StackShrinks
<1>4. IInv /\ IInv' /\ [Next]_vars => [Descends]_vars
  BY <1>3, StepAdvances
<1>5. Spec => [][Descends]_vars
  BY <1>4, Invariance, PTL DEF Spec
<1>6. QED
  BY <1>1, <1>5

=============================================================================
