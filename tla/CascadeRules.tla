--------------------------- MODULE CascadeRules ---------------------------
(***************************************************************************)
(* The health lattice of the cascade engine and the transition functions   *)
(* of its propagation rules (simulator/cascade.py): what a fault does to   *)
(* its target, and what a component that is down, overloaded or degraded   *)
(* does to one that depends on it.                                         *)
(***************************************************************************)
EXTENDS InfraGraph, Integers

Health == {"healthy", "degraded", "overloaded", "down"}

\* The health states whose component is expanded in turn.
HardHealth == {"overloaded", "down"}

HEALTH_RANK(h) == CASE h = "healthy"    -> 0
                    [] h = "degraded"   -> 1
                    [] h = "overloaded" -> 2
                    [] h = "down"       -> 3

FaultsDown == {"component_down", "connection_pool_exhaustion", "disk_full",
               "memory_exhaustion", "network_partition", "context_overflow",
               "token_exhaustion", "agent_loop"}

FaultsOverloaded == {"cpu_saturation", "traffic_spike", "llm_rate_limit"}

\* The last two have no case of their own and fall into the default one.
FaultsDegraded == {"latency_spike", "hallucination", "tool_failure",
                   "prompt_injection", "confidence_miscalibration",
                   "cot_collapse", "output_amplification",
                   "grounding_staleness",
                   "dependency_compromised", "dependency_vulnerable"}

FaultType == FaultsDown \cup FaultsOverloaded \cup FaultsDegraded

\* Rule 1: the health that the direct effect of a fault gives its target.
DirectHealth(type) == IF type \in FaultsDown THEN "down"
                      ELSE IF type \in FaultsOverloaded THEN "overloaded"
                      ELSE "degraded"

\* The time stamped on the direct effect; infrastructure faults have none.
DirectTime(type) == IF type = "context_overflow" THEN 5
                    ELSE IF type = "llm_rate_limit" THEN 60
                    ELSE IF type = "tool_failure" THEN 30
                    ELSE IF type = "grounding_staleness" THEN 300
                    ELSE 0

(***************************************************************************)
(* Rules 2-6: the health that u, failing with health h, gives to its       *)
(* dependent d.  "healthy" means that this edge does not cascade.          *)
(***************************************************************************)
CascadeHealth(g, d, u, h) ==
  LET dependency == g.edge[<<d, u>>]
  IN  IF dependency \in {"none", "optional", "async"}
      THEN IF h = "down" /\ dependency # "none" THEN "degraded" ELSE "healthy"
      ELSE IF h = "down"
           THEN IF dependency = "soft" \/ u \in g.redundant THEN "degraded" ELSE "down"
           ELSE IF h = "overloaded" /\ d \in g.busy THEN "overloaded"
           ELSE IF h = "healthy" THEN "healthy" ELSE "degraded"

(***************************************************************************)
(* The seconds after which that effect is felt: timeout is the dependent's *)
(* timeout in whole seconds, tau the rounded edge latency of an async edge.*)
(***************************************************************************)
CascadeDelay(g, d, u, h, timeout, tau) ==
  LET dependency == g.edge[<<d, u>>]
  IN  IF dependency = "optional" THEN 10
      ELSE IF dependency = "async" THEN 60 + tau
      ELSE IF h = "down"
           THEN IF dependency = "soft" THEN 5
                ELSE IF u \in g.redundant THEN 10 ELSE timeout
           ELSE IF h = "overloaded" THEN IF d \in g.busy THEN 15 ELSE 10
           ELSE 5

-----------------------------------------------------------------------------
(***************************************************************************)
(* The result of a simulation as a function of the graph and the fault     *)
(* alone.  Cuts are the sets that hold the origin and every component that *)
(* a member, failing like the origin, makes fail hard; the hard failures   *)
(* are what all cuts share.  Every other component with an edge to a hard  *)
(* failure, or to the origin, that cascades at all is degraded.            *)
(***************************************************************************)
Cut(g, o, h, S) ==
  /\ o \in S
  /\ \A u \in S, d \in Component : CascadeHealth(g, d, u, h) \in HardHealth => d \in S

HardFailures(g, o, h) ==
  {c \in Component : \A S \in SUBSET Component : Cut(g, o, h, S) => c \in S}

Outcome(g, o, h) ==
  [c \in Component |->
     IF c \in HardFailures(g, o, h) THEN h
     ELSE IF \E u \in HardFailures(g, o, h) : CascadeHealth(g, c, u, h) # "healthy"
          THEN "degraded"
          ELSE "healthy"]

(***************************************************************************)
(* The health map hm of a run with origin o holds nothing that the graph   *)
(* and the fault do not account for.                                       *)
(***************************************************************************)
Explained(g, o, hm) ==
  \A c \in Component :
    \/ hm[c] = "healthy"
    \/ hm[c] = hm[o] /\ c \in HardFailures(g, o, hm[o])
    \/ hm[c] = "degraded" /\ Outcome(g, o, hm[o])[c] # "healthy"

=============================================================================
