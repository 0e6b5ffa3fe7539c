SPECIFICATION FairSpec
CONSTANTS
  w = w
  h = h
  Task = {a, b}
  Drainer = {w, h}
  Daily = w
  Limit <- TwoForDaily
  MaxRows = 3
  MaxTime = 2
  MaxFaults = 1
  MaxCrashes = 1
  Base = 2
  Digits = 1
INVARIANT MarkedIsLogged
INVARIANT HistoryInOrder
INVARIANT DuplicatesBounded
PROPERTY EveryEventLogged
