----------------------------- MODULE CPSProofs -----------------------------
(***************************************************************************)
(* Proofs about the Cascade Propagation Semantics, for every graph, every  *)
(* fault and every number of components.                                   *)
(***************************************************************************)
EXTENDS CPS, CascadeRulesProofs, TLAPS

(***************************************************************************)
(* The inductive invariant: besides the types and Accounted, the origin is *)
(* failing, and nothing is before a fault is injected.                     *)
(***************************************************************************)
OriginFails == IF origin \in Component THEN health[origin] # "healthy"
               ELSE \A c \in Component : health[c] = "healthy"

IdleUnknown == status = "idle" => origin = Unknown

IInv == TypeOK /\ OriginFails /\ IdleUnknown /\ Accounted

\* Type correctness: every variable keeps its type.
THEOREM TypeCorrect == Spec => []TypeOK
<1>1. Init => TypeOK
  BY GraphsAssumption DEF Init, TypeOK, Health
<1>2. TypeOK /\ [Next]_vars => TypeOK'
  <2> SUFFICES ASSUME TypeOK, [Next]_vars PROVE TypeOK'
    OBVIOUS
  <2> USE DEF TypeOK
  <2>1. ASSUME NEW f \in Faults, Inject(f) PROVE TypeOK'
    <3>1. DirectHealth(f.type) \in Health
      BY DEF DirectHealth, Health
    <3>2. QED
      BY <2>1, <3>1 DEF Inject
  <2>2. ASSUME NEW f \in Faults, Ignore(f) PROVE TypeOK'
    BY <2>2 DEF Ignore
  <2>3. ASSUME NEW u \in Component, NEW d \in Component, Worsen(u, d) PROVE TypeOK'
    <3>1. CascadeHealth(graph, d, u, health[u]) \in Health
      BY CascadeHealthCases DEF Health
    <3>2. QED
      BY <2>3, <3>1 DEF Worsen
  <2>4. CASE Settle
    BY <2>4 DEF Settle
  <2>5. CASE Terminated \/ UNCHANGED vars
    BY <2>5 DEF Terminated, vars
  <2>6. QED
    BY <2>1, <2>2, <2>3, <2>4, <2>5 DEF Next, Run
<1>3. QED
  BY <1>1, <1>2, PTL DEF Spec

(***************************************************************************)
(* One application of a rule leaves the origin alone and is accounted for  *)
(* by the outcome.                                                         *)
(***************************************************************************)
LEMMA WorsenAccounted ==
  ASSUME IInv, NEW u \in Component, NEW d \in Component, Worsen(u, d)
  PROVE  OriginFails' /\ Accounted'
<1>1. /\ origin \in Component /\ origin' = origin /\ graph' = graph
      /\ health \in [Component -> Health]
      /\ health[origin] # "healthy"
      /\ Explained(graph, origin, health)
      /\ u = origin \/ health[u] \in HardHealth
      /\ HEALTH_RANK(CascadeHealth(graph, d, u, health[u])) > HEALTH_RANK(health[d])
      /\ health' = Worsened(graph, health, u, d)
  BY DEF IInv, TypeOK, OriginFails, Accounted, Worsen, Worsening, Cascades, Worsened
<1>2. health'[origin] = health[origin] /\ Explained(graph, origin, health')
  BY <1>1, WorseningExplained
<1>3. QED
  BY <1>1, <1>2 DEF OriginFails, Accounted

(***************************************************************************)
(* IInv is an invariant; in particular no run ever gives a component a     *)
(* failure that the graph and the fault do not account for.                *)
(***************************************************************************)
THEOREM Invariance == Spec => []IInv
<1>1. Init => IInv
  BY UnknownAssumption, GraphsAssumption
  DEF Init, IInv, TypeOK, OriginFails, IdleUnknown, Accounted, Health
<1>2. TypeOK /\ IInv /\ TypeOK' /\ [Next]_vars => IInv'
  <2> SUFFICES ASSUME TypeOK, IInv, TypeOK', [Next]_vars PROVE IInv'
    OBVIOUS
  <2>1. ASSUME NEW f \in Faults, Inject(f) PROVE IInv'
    <3>1. /\ f.target \in Component
          /\ origin' = f.target
          /\ graph' = graph
          /\ health' = [health EXCEPT ![f.target] = DirectHealth(f.type)]
          /\ status' = "running"
      BY <2>1 DEF Inject
    <3>2. /\ health \in [Component -> Health]
          /\ \A c \in Component : health[c] = "healthy"
      BY <2>1, UnknownAssumption DEF IInv, TypeOK, OriginFails, IdleUnknown, Inject
    <3>3. health'[f.target] # "healthy"
      BY <3>1, <3>2 DEF DirectHealth
    <3>4. \A c \in Component : c # f.target => health'[c] = "healthy"
      BY <3>1, <3>2
    <3>5. f.target \in HardFailures(graph, f.target, health'[f.target])
      BY <3>1, HardFailuresOrigin
    <3>6. Accounted'
      BY <3>1, <3>4, <3>5 DEF Accounted, Explained
    <3>7. QED
      BY <3>1, <3>3, <3>6 DEF IInv, OriginFails, IdleUnknown
  <2>2. ASSUME NEW f \in Faults, Ignore(f) PROVE IInv'
    BY <2>2 DEF IInv, Ignore, OriginFails, IdleUnknown, Accounted
  <2>3. ASSUME NEW u \in Component, NEW d \in Component, Worsen(u, d) PROVE IInv'
    BY <2>3, WorsenAccounted DEF IInv, Worsen, IdleUnknown
  <2>4. CASE Settle
    BY <2>4 DEF IInv, Settle, OriginFails, IdleUnknown, Accounted
  <2>5. CASE Terminated \/ UNCHANGED vars
    BY <2>5 DEF IInv, Terminated, vars, OriginFails, IdleUnknown, Accounted
  <2>6. QED
    BY <2>1, <2>2, <2>3, <2>4, <2>5 DEF Next, Run
<1>3. QED
  BY <1>1, <1>2, TypeCorrect, PTL DEF Spec

\* No component is ever worse off than the graph and the fault account for.
THEOREM AlwaysAccounted == Spec => []Accounted
<1>1. IInv => Accounted
  BY DEF IInv
<1>2. QED
  BY <1>1, Invariance, PTL

-----------------------------------------------------------------------------
\* When no rule can worsen anything the run has reached its outcome.
LEMMA ClosedIsOutcome ==
  ASSUME IInv, status = "running", Closed
  PROVE  health = Outcome(graph, origin, health[origin])
<1>1. /\ origin \in Component /\ health \in [Component -> Health]
      /\ health[origin] # "healthy"
      /\ Explained(graph, origin, health)
  BY DEF IInv, TypeOK, OriginFails, Accounted
<1>2. Stable(graph, origin, health)
  BY DEF Stable, Closed, Worsening, Cascades
<1>3. QED
  BY <1>1, <1>2, StableIsOutcome

(***************************************************************************)
(* Confluence: a settled run ends in the outcome of its graph and fault,   *)
(* in whatever order the rules were applied.                               *)
(***************************************************************************)
THEOREM Confluence == Spec => []Confluent
<1>1. Init => Confluent
  BY DEF Init, Confluent
<1>2. IInv /\ Confluent /\ [Next]_vars => Confluent'
  <2> SUFFICES ASSUME IInv, Confluent, [Next]_vars PROVE Confluent'
    OBVIOUS
  <2>1. ASSUME NEW f \in Faults, Inject(f) PROVE Confluent'
    BY <2>1 DEF Inject, Confluent
  <2>2. ASSUME NEW f \in Faults, Ignore(f) PROVE Confluent'
    BY <2>2, UnknownAssumption DEF Ignore, Confluent, IInv, IdleUnknown
  <2>3. ASSUME NEW u \in Component, NEW d \in Component, Worsen(u, d) PROVE Confluent'
    BY <2>3 DEF Worsen, Confluent
  <2>4. CASE Settle
    BY <2>4, ClosedIsOutcome DEF Settle, Confluent
  <2>5. CASE Terminated \/ UNCHANGED vars
    BY <2>5 DEF Terminated, vars, Confluent
  <2>6. QED
    BY <2>1, <2>2, <2>3, <2>4, <2>5 DEF Next, Run
<1>3. QED
  BY <1>1, <1>2, Invariance, PTL DEF Spec

=============================================================================
