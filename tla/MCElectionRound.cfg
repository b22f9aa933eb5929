SPECIFICATION FairSpec
CONSTANTS
  N = 2
  MaxTroubles = 2
  MaxEvents = 2
  Mishaps <- LongRounds

PROPERTIES
  DeadAreRevived
CHECK_DEADLOCK FALSE
