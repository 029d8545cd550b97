SPECIFICATION FairPollSpec
CONSTANTS
  k1 = k1  k2 = k2  t1 = t1  t2 = t2  p1 = p1  p2 = p2  Never = Never
  Configs <- OneConfig
  Tickers <- OneTicker
  Pollers <- TwoPollers
  Interval = 1
  Wrap = 2
  Delay = 2
  TickLimit = 1
  MaxTime = 2
  MaxPolls = 5
  MaxFaults = 1
INVARIANTS DeltaTrue
PROPERTIES DueIsPolled
CHECK_DEADLOCK FALSE
