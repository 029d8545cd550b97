CONSTANTS
  e1 = e1
  e2 = e2
  c1 = c1
  r1 = r1
  r2 = r2
  NoRule = NoRule
  Rules <- OneRule
  Evaluators <- OneEvaluator
  Callers <- OneCaller
  Cooldown = 1
  Expiry = 1
  TaskLimit = 1
  Limit = 1
  MaxAlerts = 2
  MaxTime = 3
  MaxFaults = 1
SPECIFICATION FairAlertSpec
INVARIANTS TypeOK OneOpenPerRule CooldownKept NothingLost AlertInv
PROPERTIES ClearedIsResolved FollowsLifecycle
CHECK_DEADLOCK FALSE
