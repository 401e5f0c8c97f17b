CONSTANTS
  c1 = c1
  c2 = c2
  c3 = c3
  Component = {c1, c2, c3}
  Unknown = unknown
  Graphs <- MixedGraphs
  Faults <- MixedFaults
SPECIFICATION Spec
INVARIANTS
  Confluent
