CONSTANTS
  d1 = d1
  d2 = d2
  d3 = d3
  eof = eof
  N = 2
  Data <- MCData
  Eof <- eof
  ShardOf <- MCShards
  Results <- MCResults
  Modes = {FALSE}
  CrashPoints <- ForwardPoints
  MaxCrashes = 1
  MaxSeq = 4
SPECIFICATION Spec
INVARIANTS
  TokenCarriesReports
CHECK_DEADLOCK FALSE
