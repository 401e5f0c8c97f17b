------------------------------ MODULE Cascade ------------------------------
(***************************************************************************)
(* CascadeEngine.simulate_fault (simulator/cascade.py): the depth-first    *)
(* propagation of one injected fault through the dependency graph, one     *)
(* step per dependent that _propagate looks at, followed by the pass that  *)
(* marks the AI agents exposed to the failed component.                    *)
(*                                                                         *)
(* A call of _propagate is a frame of the variable stack: the component    *)
(* that failed, the health and the elapsed time the caller passed by       *)
(* value, and the dependents its loop has still to visit.  Every component *)
(* is expanded at most once in a run (DistinctFrames and Monotone below),  *)
(* so taking the dependents of a frame in any order is exactly what the    *)
(* insertion order of the edges, which is free, can bring about.           *)
(***************************************************************************)
EXTENDS CascadeRules, Sequences, FiniteSets

CONSTANTS Graphs,    \* the graphs a simulation may be run on
          Faults,    \* the faults it may be given
          MaxDepth,  \* CascadeEngine.max_depth
          Timeout,   \* timeout of each component in whole seconds
          Tau        \* rounded latency of an async edge in seconds

ASSUME GraphsAssumption == Graphs \subseteq Graph

ASSUME FaultsAssumption ==
  Faults \subseteq [target : Component \cup {Unknown}, type : FaultType]

ASSUME MaxDepthAssumption == MaxDepth \in Nat \ {0}

ASSUME DelayAssumption == Timeout \in [Component -> Nat] /\ Tau \in Nat

VARIABLES
  graph,    \* the InfraGraph, chosen once
  target,   \* the target of the injected fault, Unknown before that
  worst,    \* worst_health; "healthy" stands for a missing key
  effects,  \* chain.effects
  stack,    \* the calls of _propagate in progress, the innermost one last
  exposed,  \* agents at risk that simulate_fault has still to look at
  phase     \* "inject", "propagate", "agents" or "done"

vars == <<graph, target, worst, effects, stack, exposed, phase>>

Effect == [comp : Component, health : Health \ {"healthy"}, at : Nat]

Frame == [comp : Component, health : Health, elapsed : Nat, todo : SUBSET Component]

TypeOK == /\ graph \in Graph
          /\ target \in Component \cup {Unknown}
          /\ worst \in [Component -> Health]
          /\ effects \in Seq(Effect)
          /\ stack \in Seq(Frame)
          /\ exposed \in SUBSET Component
          /\ phase \in {"inject", "propagate", "agents", "done"}

Init == /\ graph \in Graphs
        /\ target = Unknown
        /\ worst = [c \in Component |-> "healthy"]
        /\ effects = << >>
        /\ stack = << >>
        /\ exposed = {}
        /\ phase = "inject"

-----------------------------------------------------------------------------

Call(c, h, t) == [comp |-> c, health |-> h, elapsed |-> t,
                  todo |-> Dependents(graph, c)]

\* The fault hits a known component: its direct effect, then propagation.
Inject(f) ==
  /\ phase = "inject"
  /\ f.target \in Component
  /\ target' = f.target
  /\ worst' = [worst EXCEPT ![f.target] = DirectHealth(f.type)]
  /\ effects' = <<[comp |-> f.target, health |-> DirectHealth(f.type),
                   at |-> DirectTime(f.type)]>>
  /\ stack' = <<Call(f.target, DirectHealth(f.type), 0)>>
  /\ phase' = "propagate"
  /\ UNCHANGED <<graph, exposed>>

\* The fault names a component the graph does not have: an empty chain.
InjectUnknown(f) ==
  /\ phase = "inject"
  /\ f.target \notin Component
  /\ phase' = "done"
  /\ UNCHANGED <<graph, target, worst, effects, stack, exposed>>

-----------------------------------------------------------------------------
(***************************************************************************)
(* One iteration of the loop of _propagate, on dependent d of the          *)
(* innermost call.                                                         *)
(***************************************************************************)
Top == stack[Len(stack)]

\* Mutant: the loop of the innermost call is left after its first dependent.
RestLeavesLoop(d) == [stack EXCEPT ![Len(stack)].todo = {}]

\* The calls in progress once the innermost one is done with d.
Rest(d) == [stack EXCEPT ![Len(stack)].todo = @ \ {d}]

Visiting(d) == phase = "propagate" /\ stack # << >> /\ d \in Top.todo

NewHealth(d) == CascadeHealth(graph, d, Top.comp, Top.health)

NewElapsed(d) ==
  Top.elapsed + CascadeDelay(graph, d, Top.comp, Top.health, Timeout[d], Tau)

\* Mutants: HEALTHY outcomes are recorded; an equally bad path counts as
\* worse; the first path locks the outcome in; the last path wins.
WorseKeepsHealthy(d) == \/ HEALTH_RANK(NewHealth(d)) > HEALTH_RANK(worst[d])
                        \/ worst[d] = "healthy"

WorseOrEqual(d) == /\ NewHealth(d) # "healthy"
                   /\ HEALTH_RANK(NewHealth(d)) >= HEALTH_RANK(worst[d])

WorseFirstPath(d) == NewHealth(d) # "healthy" /\ worst[d] = "healthy"

WorseLastPath(d) == NewHealth(d) # "healthy" /\ NewHealth(d) # worst[d]

\* The path being followed makes d strictly worse than any path before it.
Worse(d) == /\ NewHealth(d) # "healthy"
            /\ \/ HEALTH_RANK(NewHealth(d)) > HEALTH_RANK(worst[d])
               \/ worst[d] = "healthy"

First(c, i) == effects[i].comp = c /\ \A j \in 1 .. i - 1 : effects[j].comp # c

\* Mutants: always append; replace the milder effect but keep its time.
PutAppends(e) == Append(effects, e)

PutKeepsTime(e) ==
  IF \E i \in DOMAIN effects : effects[i].comp = e.comp
  THEN [i \in DOMAIN effects |->
          IF First(e.comp, i) THEN [e EXCEPT !.at = effects[i].at] ELSE effects[i]]
  ELSE Append(effects, e)

\* Append the effect, or put it in the place of the milder one.
Put(e) ==
  IF \E i \in DOMAIN effects : effects[i].comp = e.comp /\ worst[e.comp] # "healthy"
  THEN [i \in DOMAIN effects |-> IF First(e.comp, i) THEN e ELSE effects[i]]
  ELSE Append(effects, e)

Commit(d) ==
  /\ worst' = [worst EXCEPT ![d] = NewHealth(d)]
  /\ effects' = Put([comp |-> d, health |-> NewHealth(d), at |-> NewElapsed(d)])

\* Mutant: a dependent that is skipped stays in the loop.
SkipStays(d) ==
  /\ Visiting(d)
  /\ ~Worse(d)
  /\ UNCHANGED vars

\* The edge does not cascade, or d is already as bad.
Skip(d) ==
  /\ Visiting(d)
  /\ ~Worse(d)
  /\ stack' = Rest(d)
  /\ UNCHANGED <<graph, target, worst, effects, exposed, phase>>

\* d is degraded, which propagates no further.
Attenuate(d) ==
  /\ Visiting(d)
  /\ Worse(d)
  /\ NewHealth(d) \notin HardHealth
  /\ Commit(d)
  /\ stack' = Rest(d)
  /\ UNCHANGED <<graph, target, exposed, phase>>

\* Mutant: the depth limit is off by one.
SpreadOneDeeper(d) ==
  /\ Visiting(d)
  /\ Worse(d)
  /\ NewHealth(d) \in HardHealth
  /\ Len(stack) <= MaxDepth + 1
  /\ Commit(d)
  /\ stack' = Append(Rest(d), Call(d, NewHealth(d), NewElapsed(d)))
  /\ UNCHANGED <<graph, target, exposed, phase>>

\* d fails hard and the recursive call on it is within the depth limit.
Spread(d) ==
  /\ Visiting(d)
  /\ Worse(d)
  /\ NewHealth(d) \in HardHealth
  /\ Len(stack) <= MaxDepth
  /\ Commit(d)
  /\ stack' = Append(Rest(d), Call(d, NewHealth(d), NewElapsed(d)))
  /\ UNCHANGED <<graph, target, exposed, phase>>

\* d fails hard but the recursive call on it returns at once.
CutOff(d) ==
  /\ Visiting(d)
  /\ Worse(d)
  /\ NewHealth(d) \in HardHealth
  /\ Len(stack) > MaxDepth
  /\ Commit(d)
  /\ stack' = Rest(d)
  /\ UNCHANGED <<graph, target, exposed, phase>>

\* The innermost call has visited every dependent.
Return ==
  /\ phase = "propagate"
  /\ stack # << >>
  /\ Top.todo = {}
  /\ stack' = SubSeq(stack, 1, Len(stack) - 1)
  /\ UNCHANGED <<graph, target, worst, effects, exposed, phase>>

-----------------------------------------------------------------------------
(***************************************************************************)
(* The cross-layer pass over the AI agents that depend, directly or not,   *)
(* on the failed component.                                                *)
(***************************************************************************)
AtRisk(g, c) ==
  {a \in AllAffected(g, c) :
     \/ g.type[a] = "grounded_agent" /\ g.type[c] \in {"grounding", "external_api"}
     \/ g.type[a] = "agent" /\ g.type[c] = "external_api"}

\* Mutant: only the direct dependents of the failed component are assessed.
AssessDirectAgents ==
  /\ phase = "propagate"
  /\ stack = << >>
  /\ exposed' = AtRisk(graph, target) \cap Dependents(graph, target)
  /\ phase' = "agents"
  /\ UNCHANGED <<graph, target, worst, effects, stack>>

\* The outermost call has returned: compute the agents at risk.
AssessAgents ==
  /\ phase = "propagate"
  /\ stack = << >>
  /\ exposed' = AtRisk(graph, target)
  /\ phase' = "agents"
  /\ UNCHANGED <<graph, target, worst, effects, stack>>

\* Mutant: an agent is flagged whether or not the chain already has it.
FlagAgentAgain(a) ==
  /\ phase = "agents"
  /\ a \in exposed
  /\ exposed' = exposed \ {a}
  /\ effects' = Append(effects, [comp |-> a, health |-> "degraded", at |-> 0])
  /\ UNCHANGED <<graph, target, worst, stack, phase>>

\* An agent the propagation did not reach is degraded; others are left alone.
FlagAgent(a) ==
  /\ phase = "agents"
  /\ a \in exposed
  /\ exposed' = exposed \ {a}
  /\ effects' = IF \E i \in DOMAIN effects : effects[i].comp = a
                THEN effects
                ELSE Append(effects, [comp |-> a, health |-> "degraded", at |-> 0])
  /\ UNCHANGED <<graph, target, worst, stack, phase>>

Finish ==
  /\ phase = "agents"
  /\ exposed = {}
  /\ phase' = "done"
  /\ UNCHANGED <<graph, target, worst, effects, stack, exposed>>

\* simulate_fault has returned.
Terminated == phase = "done" /\ UNCHANGED vars

Simulate == \/ \E f \in Faults : Inject(f) \/ InjectUnknown(f)
            \/ \E d \in Component : Skip(d) \/ Attenuate(d) \/ Spread(d) \/ CutOff(d)
            \/ Return
            \/ AssessAgents
            \/ \E a \in Component : FlagAgent(a)
            \/ Finish

Next == Simulate \/ Terminated

Spec == Init /\ [][Next]_vars

\* simulate_fault is a plain function call: it runs until it returns.
FairSpec == Spec /\ WF_vars(Simulate)

-----------------------------------------------------------------------------
(***************************************************************************)
(* The chain and worst_health are two records of one thing, kept apart by  *)
(* hand: the chain never holds two effects for a component (a duplicate    *)
(* inflates its severity), and until the agents are assessed it holds      *)
(* exactly the components of worst_health at the health recorded there.    *)
(* What the agent pass adds is an exposed agent the propagation missed.    *)
(***************************************************************************)
ChainMatchesWorst ==
  /\ \A i, j \in DOMAIN effects : effects[i].comp = effects[j].comp => i = j
  /\ \A c \in Component : worst[c] # "healthy" =>
       \E i \in DOMAIN effects : effects[i].comp = c /\ effects[i].health = worst[c]
  /\ \A i \in DOMAIN effects : worst[effects[i].comp] = "healthy" =>
       /\ phase \in {"agents", "done"}
       /\ effects[i].health = "degraded"
       /\ effects[i].comp \in AtRisk(graph, target)

(***************************************************************************)
(* No component has two calls in progress, even on a cycle, so the         *)
(* recursion is no deeper than the number of components.                   *)
(***************************************************************************)
DistinctFrames ==
  \A j, k \in DOMAIN stack : stack[j].comp = stack[k].comp => j = k

\* When the failure of u is first felt: the fault hits the target at time 0.
FeltAt(u, t) == \/ u = target /\ t = 0
                \/ /\ u # target
                   /\ worst[u] \in HardHealth
                   /\ \E j \in DOMAIN effects : effects[j].comp = u /\ effects[j].at = t

(***************************************************************************)
(* Causality: a component other than the target is affected only because   *)
(* of a component it depends on that failed hard (or is the target); it    *)
(* carries the health which the rule of that edge gives, at the time that  *)
(* failure was felt plus the delay of the edge.  In particular no effect   *)
(* keeps the health of one path and the time of another.                   *)
(***************************************************************************)
Caused(e) ==
  \E u \in Component : \E t \in {effects[j].at : j \in DOMAIN effects} \cup {0} :
    /\ FeltAt(u, t)
    /\ e.health = CascadeHealth(graph, e.comp, u, worst[u])
    /\ e.at = t + CascadeDelay(graph, e.comp, u, worst[u], Timeout[e.comp], Tau)

Causality ==
  \A i \in DOMAIN effects :
    effects[i].comp = target \/ worst[effects[i].comp] = "healthy" \/ Caused(effects[i])

(***************************************************************************)
(* A run knows two levels of failure: that of the target, and degraded.    *)
(* Whatever fails hard fails like the target does.                         *)
(***************************************************************************)
TwoLevels ==
  \A c \in Component : target \in Component =>
    worst[c] \in {"healthy", "degraded", worst[target]}

(***************************************************************************)
(* Monotonicity: no step improves the recorded health of a component, nor  *)
(* does a component ever leave the chain or move within it.                *)
(***************************************************************************)
NeverImproves ==
  /\ \A c \in Component : HEALTH_RANK(worst'[c]) >= HEALTH_RANK(worst[c])
  /\ \A i \in DOMAIN effects : i \in DOMAIN effects' /\ effects'[i].comp = effects[i].comp

Monotone == [][NeverImproves]_vars

\* simulate_fault returns, on cyclic graphs too.
Returns == <>(phase = "done")

-----------------------------------------------------------------------------
(***************************************************************************)
(* The depth-first engine implements the order-free semantics as long as   *)
(* the depth limit cannot bite, that is when MaxDepth is at least the      *)
(* number of components minus one.                                         *)
(***************************************************************************)
DeepEnough == IsFiniteSet(Component) /\ MaxDepth >= Cardinality(Component) - 1

CPSStatus == IF phase = "inject" THEN "idle"
             ELSE IF phase = "propagate" THEN "running" ELSE "settled"

Semantics == INSTANCE CPS WITH origin <- target, health <- worst, status <- CPSStatus

ImplementsCPS == Semantics!Spec

(***************************************************************************)
(* The result is the one the graph and the fault determine: it does not    *)
(* depend on the order in which the dependents were visited.               *)
(***************************************************************************)
OrderIndependent ==
  phase \in {"agents", "done"} /\ target \in Component =>
    worst = Outcome(graph, target, worst[target])

(***************************************************************************)
(* When the run is over no exposed agent is missing from the chain, and an *)
(* agent the propagation had made worse than degraded was not improved.    *)
(***************************************************************************)
AgentsFlagged ==
  phase = "done" /\ target \in Component =>
    \A a \in AtRisk(graph, target) : \E i \in DOMAIN effects :
      /\ effects[i].comp = a
      /\ HEALTH_RANK(effects[i].health) >= 1
      /\ HEALTH_RANK(effects[i].health) >= HEALTH_RANK(worst[a])

-----------------------------------------------------------------------------
(***************************************************************************)
(* The components within n edges of the target, and those that a chain of  *)
(* at most n edges makes fail like the target.                             *)
(***************************************************************************)
Ball[n \in Nat] == IF n = 0 THEN {target} \cap Component
                   ELSE Ball[n - 1] \cup UNION {Dependents(graph, u) : u \in Ball[n - 1]}

HardBall[n \in Nat] ==
  IF n = 0 THEN {target} \cap Component
  ELSE HardBall[n - 1] \cup
       {d \in Component : \E u \in HardBall[n - 1] :
                            CascadeHealth(graph, d, u, worst[target]) \in HardHealth}

\* The depth limit holds: calls are at depths 0 to MaxDepth, effects one further.
WithinDepth == \A c \in Component : worst[c] # "healthy" => c \in Ball[MaxDepth + 1]

(***************************************************************************)
(* The worst path wins: whatever is within reach of a chain of hard        *)
(* failures no longer than the depth limit carries at least the health     *)
(* that chain gives it.                                                    *)
(***************************************************************************)
WorstPathWins ==
  phase = "done" =>
    \A u \in HardBall[MaxDepth], d \in Component :
      HEALTH_RANK(worst[d]) >= HEALTH_RANK(CascadeHealth(graph, d, u, worst[target]))

=============================================================================
