SPECIFICATION FairSpec
CONSTANTS
  Sender = {s1}
  MaxMsgs = 2
  Segments = 1
  SegmentSleep = 1
  JoinRetry = 2
  FirstBeat = 1
  Expired = 4
  MayDo = {"pause"}
  CreateSleep = 2
  CreateRetry = 2
  ListenSleep = 1
  Slack = 1
  SendWait = 2
PROPERTY PausedIsFound
