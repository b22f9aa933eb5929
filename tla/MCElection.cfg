SPECIFICATION SettledFairSpec
CONSTANTS
  N = 3
  MaxTroubles = 1
  MaxEvents = 2
  Mishaps <- AnyMishap
INVARIANTS
  TypeOK
  HighestLeadsAtRest
PROPERTIES
  EventuallyRevived
  SettlesOnALeader
CHECK_DEADLOCK FALSE
