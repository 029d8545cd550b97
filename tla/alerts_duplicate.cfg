CONSTANTS
  e1 = e1
  e2 = e2
  c1 = c1
  r1 = r1
  r2 = r2
  NoRule = NoRule
  Rules <- OneRule
  Evaluators <- TwoEvaluators
  Callers <- Nobody
  Cooldown = 1
  Expiry = 1
  TaskLimit = 1
  Limit = 2
  MaxAlerts = 2
  MaxTime = 2
  MaxFaults = 0
SPECIFICATION AlertSpec
INVARIANTS OneOpenPerRule
CHECK_DEADLOCK FALSE
