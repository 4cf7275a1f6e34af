SPECIFICATION AFairSpec
CONSTANTS
  Sender = {s1}
  MaxMsgs = 4
  Segments = 1
  SegmentSleep = 1
  JoinRetry = 2
  FirstBeat = 1
  Expired = 11
  MayDo = {"end"}
  CreateSleep = 2
  CreateRetry = 2
  ListenSleep = 5
  Slack = 1
  SendWait = 1
INVARIANT BeatsInOrder DeadWereSuspected AddedInTime
PROPERTY OnlyFailedAreFound FailedIsFound
CHECK_DEADLOCK FALSE
