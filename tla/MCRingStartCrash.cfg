CONSTANTS
  d1 = d1
  d2 = d2
  d3 = d3
  eof = eof
  N = 2
  Data <- MCData
  Eof <- eof
  ShardOf <- MCShards
  Results <- MCResults
  Modes = {FALSE}
  CrashPoints <- StartPoints
  MaxCrashes = 1
  MaxSeq = 2
SPECIFICATION Spec
INVARIANTS
  FlushOnlyWhenComplete
CHECK_DEADLOCK FALSE
