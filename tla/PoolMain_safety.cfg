CONSTANTS
  point = point
  point2 = point2
  fib = fib
  primes = primes
  pi = pi
  NoCmd = NoCmd
  NumThreads = 2
  Low <- MCLow
  High <- MCHigh
  Throwing <- NoThrow
  FreshState <- Initialized
  FreshCount <- Zero
  Torn = FALSE
  Pi <- pi
  Argument <- MCArgument
  Primes <- MCPrimes
  LongSleep = TRUE
SPECIFICATION FairMainSpec
INVARIANTS AllFetched PiReturned ResultsRight
PROPERTIES MainFinishes
CHECK_DEADLOCK FALSE
