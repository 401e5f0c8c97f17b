CONSTANTS
  c1 = c1
  c2 = c2
  c3 = c3
  Component = {c1, c2, c3}
  Unknown = unknown
  Graphs <- AllGraphs
  Faults <- AllFaults
  Timeout <- MCTimeout
  MaxDepth = 2
  Tau = 2
SPECIFICATION Spec
INVARIANTS
  TypeOK
  ChainMatchesWorst
  DistinctFrames
  Causality
  OrderIndependent
  AgentsFlagged
PROPERTIES
  Monotone
  ImplementsCPS
