CONSTANTS
  l1 = l1
  l2 = l2
  h1 = h1
  NoCmd = NoCmd
  NumThreads = 2
  Low <- OneLow
  High <- MCHigh
  Throwing <- MCHigh
  FreshState <- Born
  FreshCount <- Counts
  Torn = TRUE
SPECIFICATION FairSpec
INVARIANTS TypeOK InOnePlace CountRight RunsOnce StoppedIsQuiet
PROPERTIES TasksSpec CommandComesBack PoolStops
CHECK_DEADLOCK FALSE
