SPECIFICATION FairSpec
CONSTANTS
  Object = {"sender", "receiver"}
  MaxMsgs = 2
  SampleSize = 3
  Segments = 1
  FreshSegment <- Fresh
  Header = 1
  MaxBytes = 6
  MaxSamples = 3
INVARIANT TypeOK InOrder CrashOnlyInDestructor
PROPERTY SamplesArrive EndReturns
CHECK_DEADLOCK FALSE
