CONSTANTS
  app = app
  db = db
  batch = batch
  Component = {app, db, batch}
  Unknown = Unknown
  Scenarios <- Settings
  Multipliers = {1}
  Step = 5
  MaxReplicas = 3
SPECIFICATION Spec
INVARIANT OthersAffected
