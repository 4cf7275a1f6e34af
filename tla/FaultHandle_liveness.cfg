CONSTANTS
  Kind <- MCKind
  MaxMsgs = 1
  MaxQuery = 3
  Leftover <- MCLeftover
  NoMsg = NoMsg
  FreshState <- Initialized
SPECIFICATION FairSpec
PROPERTIES QueryReturns ServerStops
CHECK_DEADLOCK FALSE
