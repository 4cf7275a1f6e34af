SPECIFICATION Spec
CONSTANTS
  u1 = u1
  u2 = u2
  u3 = u3
  user1 = user1
  user2 = user2
  alice = alice
  bob = bob
  carol = carol
  Uid <- MCUid
  Admin = u1
  Elevated = u2
  PresetLevel <- MCPreset
  Name <- MCName
  None = none
INVARIANT PanelOfUser PointerValid
CHECK_DEADLOCK FALSE
