CONSTANTS
  app = app
  db = db
  batch = batch
  Component = {app, db}
  Unknown = Unknown
  Scenarios <- Settings
  Multipliers = {1, 2, 3}
  Step = 5
  MaxReplicas = 3
SPECIFICATION FairSpec
INVARIANTS
  TypeOK
  TimersAgree
  OpensOnStreak
PROPERTIES
  ComesBack
  BreakerHeals
  ScalingSettles
