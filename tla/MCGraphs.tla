----------------------------- MODULE MCGraphs -----------------------------
(***************************************************************************)
(* The families of small graphs that the model-checking modules share.     *)
(***************************************************************************)
EXTENDS CascadeRules, TLC

CONSTANTS c1, c2, c3

\* Every graph on Component without self-loops whose edges are of the kinds K.
Loopless(K) == {e \in [Component \X Component -> K \cup {"none"}] :
                  \A c \in Component : e[<<c, c>>] = "none"}

Plain == {[c \in Component |-> "plain"]}

\* Three components, cycles included; some redundant, some busy.
MixedGraphs ==
  [edge : Loopless({"requires", "optional"}), redundant : {{}, {c2}},
   busy : {{}, {c2}, {c2, c3}}, type : Plain]
    \cup
  [edge : Loopless({"soft", "async"}), redundant : {{c3}}, busy : {{}}, type : Plain]

MixedFaults == {[target |-> c1, type |-> "component_down"],
                [target |-> c1, type |-> "traffic_spike"],
                [target |-> c1, type |-> "latency_spike"],
                [target |-> c1, type |-> "tool_failure"],
                [target |-> Unknown, type |-> "component_down"]}

\* A source, an ordinary component that may relay, and two agents.
AgentType(s) == [c \in Component |-> CASE c = c1 -> s
                                       [] c = c2 -> "agent"
                                       [] OTHER  -> "grounded_agent"]

AgentGraphs ==
  [edge : Loopless({"requires", "async"}), redundant : {{}}, busy : {{}},
   type : {AgentType(s) : s \in {"plain", "grounding", "external_api"}}]

AllGraphs == MixedGraphs \cup AgentGraphs

AllFaults == MixedFaults \cup {[target |-> c1, type |-> "hallucination"]}

\* Hard edges only: the graphs on which the depth limit can bite.
HardGraphs ==
  [edge : Loopless({"requires"}), redundant : {{}}, busy : {{}}, type : Plain]

HardFaults == {[target |-> c1, type |-> "network_partition"]}

=============================================================================
