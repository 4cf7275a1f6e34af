SPECIFICATION FairSpec
CONSTANTS
  Primary = primary
  Secondary = secondary
  SampleSize = 1
  Cycles = 0
  Failing = {primary}
  Sync = FALSE
PROPERTY DeathIsNoticed
CHECK_DEADLOCK FALSE
