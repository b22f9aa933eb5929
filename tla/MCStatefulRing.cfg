CONSTANTS
  d1 = d1
  d2 = d2
  d3 = d3
  eof = eof
  N = 3
  Data <- MCData3
  Eof <- eof
  ShardOf <- MCShards3
  Results <- MCResults
  Modes = {FALSE, TRUE}
  CrashPoints <- SafePoints
  MaxCrashes = 1
  MaxSeq = 3
SPECIFICATION FairSpec
INVARIANTS
  TypeOK
  FlushOnlyWhenComplete
  FinalCountsResults
  TokenCarriesReports
PROPERTIES
  EventuallyClosed
  ImplementsStage
CHECK_DEADLOCK FALSE
