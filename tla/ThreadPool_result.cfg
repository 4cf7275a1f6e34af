CONSTANTS
  l1 = l1
  l2 = l2
  h1 = h1
  NoCmd = NoCmd
  NumThreads = 1
  Low <- OneLow
  High <- MCHigh
  Throwing <- NoThrow
  FreshState <- Initialized
  FreshCount <- Zero
  Torn = FALSE
SPECIFICATION Spec
INVARIANTS ResultIsReady
CHECK_DEADLOCK FALSE
