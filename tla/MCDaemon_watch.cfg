SPECIFICATION FairSpec
CONSTANTS
  clean = clean
  poor = poor
  dbDown = dbDown
  fair = fair
  Result <- MCResult
  Score <- MCScore
  Critical <- MCCritical
  None = None
  MaxFailures = 2
INVARIANTS
  TypeOK
  NoDrift
PROPERTIES
  ImplementsWatch
  CatchesUp
