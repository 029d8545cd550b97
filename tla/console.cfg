SPECIFICATION ConsoleSpec
CONSTANTS
  Pages <- AllPages
  Items = {"i1", "i2"}
  MaxActs = 2
  MaxFaults = 1
  MaxChanges = 0
  MaxOverlap = 1
INVARIANTS TypeOK SequentialShown SubmittedOnce
CHECK_DEADLOCK FALSE
