CONSTANTS
  replica = replica
  scaler = scaler
  waf = waf
  backup = backup
  dns = dns
  File = {replica, scaler, waf, backup, dns}
  Manifest = {scaler}
  Phase <- FilePhase
  Position <- FilePosition
  Agent = {p1}
  Cycle = {k1}
  Models <- MixedModels
  MaxSteps = 2
  MaxRisk = 1
  Ratchet = TRUE
  ApproveLive = FALSE
  Crashes = FALSE
SPECIFICATION Spec
INVARIANTS
  PlanAsSaved
CHECK_DEADLOCK FALSE
