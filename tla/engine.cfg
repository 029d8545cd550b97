CONSTANTS
  a = a
  b = b
  c = c
  d = d
  e = e
  None = None
  MaxPolls = 2
  NodeIds <- NodeIds5
  Labels <- Labels5
  Workflows <- AllFlows
SPECIFICATION FairEngineSpec
INVARIANTS TypeOK AtMostOnce AuditBracketed Causal TraversalInv ProgressAgrees ClosedWhenDone
PROPERTIES ImplementsRun PercentMonotone Terminates
CHECK_DEADLOCK FALSE
