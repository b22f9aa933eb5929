CONSTANTS
  m1 = m1
  m2 = m2
  m3 = m3
  none = none
  garbled = garbled
  Mids <- MCMids
  NoMid <- none
  Garbled <- garbled
  CompactThreshold = 2
  MaxSends = 2
  MaxCrashes = 2
SPECIFICATION FairSpec
INVARIANTS
  TypeOK
  AppliedAtMostOnce
  FileIsMemory
  AckedIsDurable
  FileParses
  Inductive
PROPERTIES
  FileNeverForgets
  EventuallyAcked
  ImplementsExactlyOnce
CHECK_DEADLOCK FALSE
