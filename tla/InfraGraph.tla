---------------------------- MODULE InfraGraph ----------------------------
(***************************************************************************)
(* The dependency graph of faultray.model: components, the edges on which  *)
(* one component depends on another, and the questions the simulators ask  *)
(* of it.  A graph is a value, never changed while a simulation reads it.  *)
(*                                                                         *)
(* An edge <<d, u>> says that d depends on u.  Its label abstracts the     *)
(* dependency_type and the weight: "soft" is a required edge of weight at  *)
(* most 0.1, "requires" any other required edge, "none" the absence of an  *)
(* edge.  Self-loops and cycles are legal: only the file loaders refuse    *)
(* them, not InfraGraph.add_dependency.                                    *)
(***************************************************************************)

CONSTANTS Component,  \* the identifiers of the components of a graph
          Unknown     \* an identifier that is in no graph

ASSUME UnknownAssumption == Unknown \notin Component

DependencyType == {"requires", "soft", "optional", "async"}

\* The component types that the cascade tells apart.
ComponentType == {"plain", "grounding", "external_api", "agent", "grounded_agent"}

(***************************************************************************)
(* edge      the label of each ordered pair                                *)
(* redundant the components with more than one replica                     *)
(* busy      the components whose utilization exceeds 70%                  *)
(* type      what kind of component each one is                            *)
(***************************************************************************)
Graph == [edge      : [Component \X Component -> DependencyType \cup {"none"}],
          redundant : SUBSET Component,
          busy      : SUBSET Component,
          type      : [Component -> ComponentType]]

\* The components that depend on u.
Dependents(g, u) == {d \in Component : g.edge[<<d, u>>] # "none"}

\* S contains the dependents of each of its members.
DependentClosed(g, S) == \A u \in S : Dependents(g, u) \subseteq S

(***************************************************************************)
(* The components transitively affected by a failure of c, c itself only   *)
(* when it lies on a cycle: the least set that holds the dependents of c   *)
(* and is closed under Dependents.                                         *)
(***************************************************************************)
AllAffected(g, c) ==
  {d \in Component : \A S \in SUBSET Component :
       Dependents(g, c) \subseteq S /\ DependentClosed(g, S) => d \in S}

=============================================================================
