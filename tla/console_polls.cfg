SPECIFICATION ConsoleSpec
CONSTANTS
  Pages <- PollingPages
  Items = {"i1"}
  MaxActs = 2
  MaxFaults = 2
  MaxChanges = 1
  MaxOverlap = 1
PROPERTIES Unlocked EventuallyFresh
CHECK_DEADLOCK FALSE
