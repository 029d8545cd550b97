CONSTANTS
  d1 = d1
  d2 = d2
  p1 = p1
  a1 = a1
  x = x
  w1 = w1
  w2 = w2
  Absent = Absent
  Sources <- TwoSources
  Objects <- OneObject
  AlarmIds <- OneId
  Texts <- OneText
  Workers <- TwoWorkers
  Traps <- Alarms
  QueueSize = 2
  MaxTraps = 3
  MaxFaults = 0
  MaxStarts = 1
SPECIFICATION TrapSpec
INVARIANT RaisedAgainIsActive
CHECK_DEADLOCK FALSE
