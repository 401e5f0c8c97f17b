-------------------------------- MODULE CPS --------------------------------
(***************************************************************************)
(* The Cascade Propagation Semantics: what a single-fault simulation       *)
(* promises, whatever order it visits the graph in.  A fault gives one     *)
(* component, the origin, a health; then any component that is failing     *)
(* hard (or is the origin) may worsen a component that depends on it, by   *)
(* the rule of the edge between them; the run settles only when no rule    *)
(* can worsen anything.                                                    *)
(***************************************************************************)
EXTENDS CascadeRules

CONSTANTS Graphs,    \* the graphs a simulation may be run on
          Faults     \* the faults it may be given

ASSUME GraphsAssumption == Graphs \subseteq Graph

ASSUME FaultsAssumption ==
  Faults \subseteq [target : Component \cup {Unknown}, type : FaultType]

VARIABLES graph,   \* the graph, chosen once
          origin,  \* the target of the injected fault, Unknown before that
          health,  \* health of every component in this simulation
          status   \* "idle", "running" or "settled"

vars == <<graph, origin, health, status>>

TypeOK == /\ graph \in Graph
          /\ origin \in Component \cup {Unknown}
          /\ health \in [Component -> Health]
          /\ status \in {"idle", "running", "settled"}
          /\ status = "running" => origin \in Component

Init == /\ graph \in Graphs
        /\ origin = Unknown
        /\ health = [c \in Component |-> "healthy"]
        /\ status = "idle"

-----------------------------------------------------------------------------

Inject(f) == /\ status = "idle"
             /\ f.target \in Component
             /\ origin' = f.target
             /\ health' = [health EXCEPT ![f.target] = DirectHealth(f.type)]
             /\ status' = "running"
             /\ UNCHANGED graph

\* A fault on an unknown component affects nothing.
Ignore(f) == /\ status = "idle"
             /\ f.target \notin Component
             /\ status' = "settled"
             /\ UNCHANGED <<graph, origin, health>>

\* u passes its failure on: the origin always does, others only when hard.
Cascades(u) == u = origin \/ health[u] \in HardHealth

\* Mutant: a component that already carries some failure is not looked at again.
WorseningOnce(u, d) ==
  /\ Cascades(u)
  /\ CascadeHealth(graph, d, u, health[u]) # "healthy"
  /\ health[d] = "healthy"

\* The rule of the edge <<d, u>> would make d worse than it is.
Worsening(u, d) ==
  /\ Cascades(u)
  /\ HEALTH_RANK(CascadeHealth(graph, d, u, health[u])) > HEALTH_RANK(health[d])

Worsen(u, d) ==
  /\ status = "running"
  /\ Worsening(u, d)
  /\ health' = [health EXCEPT ![d] = CascadeHealth(graph, d, u, health[u])]
  /\ UNCHANGED <<graph, origin, status>>

Closed == \A u, d \in Component : ~Worsening(u, d)

Settle == /\ status = "running"
          /\ Closed
          /\ status' = "settled"
          /\ UNCHANGED <<graph, origin, health>>

Run == \/ \E f \in Faults : Inject(f) \/ Ignore(f)
       \/ \E u, d \in Component : Worsen(u, d)
       \/ Settle

\* The chain has been returned.
Terminated == status = "settled" /\ UNCHANGED vars

Next == Run \/ Terminated

Spec == Init /\ [][Next]_vars

-----------------------------------------------------------------------------

(***************************************************************************)
(* Causality of the semantics: at no time is a component worse off than    *)
(* the graph and the fault account for, and what fails hard fails exactly  *)
(* like the origin (_propagate never invents a failure).                   *)
(***************************************************************************)
Accounted == origin \in Component => Explained(graph, origin, health)

(***************************************************************************)
(* Reproducibility: whatever order the rules were applied in, a settled    *)
(* run ends in the outcome that the graph and the fault determine.         *)
(***************************************************************************)
Confluent ==
  status = "settled" /\ origin \in Component =>
    health = Outcome(graph, origin, health[origin])

=============================================================================
