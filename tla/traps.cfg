CONSTANTS
  d1 = d1
  d2 = d2
  p1 = p1
  a1 = a1
  x = x
  w1 = w1
  w2 = w2
  Absent = Absent
  Sources <- TwoSources
  Objects <- OneObject
  AlarmIds <- OneId
  Texts <- OneText
  Workers <- TwoWorkers
  Traps <- RaiseAndClear
  QueueSize = 2
  MaxTraps = 3
  MaxFaults = 1
  MaxStarts = 2
SPECIFICATION FairTrapSpec
INVARIANTS TypeOK Accounting ReceiptOrder NoDuplicateRaise ReferencesSound StatusConsistent
PROPERTIES Drained
CHECK_DEADLOCK FALSE
