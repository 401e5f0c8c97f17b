CONSTANTS
  MaxBatches = 4
  MaxFailures = 2
  Environments <- AnyTwo
SPECIFICATION FairSpec
INVARIANTS
  TypeOK
  NothingDiscarded
  AtMostOnce
PROPERTIES
  LatestNeverOlder
  Delivered
  Stops
CHECK_DEADLOCK FALSE
