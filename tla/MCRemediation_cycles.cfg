CONSTANTS
  replica = replica
  scaler = scaler
  waf = waf
  backup = backup
  dns = dns
  File = {scaler, backup, dns}
  Manifest = {scaler}
  Phase <- FilePhase
  Position <- FilePosition
  Agent = {p1}
  Cycle = {k1, k2}
  Models <- LowModels
  MaxSteps = 2
  MaxRisk = 2
  Ratchet = TRUE
  ApproveLive = TRUE
  Crashes = TRUE
SPECIFICATION Spec
INVARIANTS
  HonestRecords
  Targetable
PROPERTIES
  UndoneWhenSaidSo
SYMMETRY Symmetry
CHECK_DEADLOCK FALSE
