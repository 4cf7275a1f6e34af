SPECIFICATION FairSpec
CONSTANTS
  Primary = primary
  Secondary = secondary
  SampleSize = 2
  Cycles = 0
  Failing = {primary}
  Sync = TRUE
INVARIANT TypeOK CountIsSet
PROPERTY NewDeathIsNoticed WokenIsRevived SwitchBack
CHECK_DEADLOCK FALSE
