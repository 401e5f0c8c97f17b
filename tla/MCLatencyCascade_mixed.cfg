CONSTANTS
  c1 = c1
  c2 = c2
  c3 = c3
  Component = {c1, c2, c3}
  Unknown = unknown
  Graphs <- MixedGraphs
  Slow = {c1, unknown}
  Multiplier = 10
  MaxDepth = 3
SPECIFICATION FairSpec
INVARIANTS
  TypeOK
  ReportsJustified
  BreakersContain
  WorstPathWins
PROPERTIES
  Monotone
  Returns
