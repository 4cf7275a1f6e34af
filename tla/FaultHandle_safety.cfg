CONSTANTS
  Kind <- MCKind
  MaxMsgs = 3
  MaxQuery = 5
  Leftover <- MCLeftover
  NoMsg = NoMsg
  FreshState <- States
SPECIFICATION Spec
INVARIANTS AtMostTwo OneTokenPerQuery
PROPERTIES AnswersInOrder RemoteSpec ChannelSpec
CHECK_DEADLOCK FALSE
