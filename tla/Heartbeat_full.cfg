SPECIFICATION FairSpec
CONSTANTS
  Sender = {s1}
  MaxMsgs = 1
  Segments = 1
  SegmentSleep = 1
  JoinRetry = 2
  FirstBeat = 1
  Expired = 7
  MayDo = {"pause", "resume", "destroy"}
  CreateSleep = 2
  CreateRetry = 2
  ListenSleep = 1
  Slack = 1
  SendWait = 1
INVARIANT TypeOK
PROPERTY StoppedIsFound SilentIsFound BeatingIsRevived
CHECK_DEADLOCK FALSE
