SPECIFICATION FairSpec
CONSTANTS
  Transactions = 1
  Accounts = 0
  Results <- MCResults
  PoolSize = 2
  MayDie = TRUE
  MaxFaults = 1
  MaxRepeats = 1
INVARIANTS
  TypeOK
  PipelineHasPrefix
  NoAnswerLost
PROPERTIES
  ImplementsAnswers
  EventuallyReaped
CHECK_DEADLOCK FALSE
