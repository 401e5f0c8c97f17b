CONSTANTS
  c1 = c1
  c2 = c2
  c3 = c3
  Component = {c1, c2, c3, c4}
  Unknown = unknown
  Graphs <- HardGraphs
  Faults <- HardFaults
  Timeout <- MCTimeout
  MaxDepth = 1
  Tau = 2
SPECIFICATION FairSpec
INVARIANTS
  WithinDepth
PROPERTIES
  Returns
