SPECIFICATION PollSpec
CONSTANTS
  k1 = k1  k2 = k2  t1 = t1  t2 = t2  p1 = p1  p2 = p2  Never = Never
  Configs <- OneConfig
  Tickers <- OneTicker
  Pollers <- TwoPollers
  Interval = 2
  Wrap = 1
  Delay = 2
  TickLimit = 1
  MaxTime = 6
  MaxPolls = 5
  MaxFaults = 0
INVARIANTS Spaced
SYMMETRY Symmetric
CHECK_DEADLOCK FALSE
