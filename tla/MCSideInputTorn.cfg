CONSTANTS
  b1 = b1
  b2 = b2
  b3 = b3
  s1 = s1
  s2 = s2
  eof = eof
  none = none
  garbled = garbled
  Batches <- MCBatches
  Side <- MCSide
  SideEof <- eof
  None <- none
  Garbled <- garbled
  MaxCrashes = 1
SPECIFICATION Spec
INVARIANTS
  NothingLost
CHECK_DEADLOCK FALSE
