SPECIFICATION Spec
CONSTANTS
  Transactions = 1
  Accounts = 0
  Results <- MCResults
  PoolSize = 2
  MayDie = FALSE
  MaxFaults = 1
  MaxRepeats = 0
PROPERTIES
  OnlyTheGoneAreReaped
CHECK_DEADLOCK FALSE
