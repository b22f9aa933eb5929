CONSTANTS
  Inputs <- MCInputs
  Accounts <- MCAccounts
  Replicas <- TwoOfEach
  BatchSize = 1
  MinRequired = 2
  Rates <- MCRates
SPECIFICATION FairSpec
INVARIANTS
  TypeOK
  RowsAreTheReference
  EndCountsResults
PROPERTIES
  EventuallyFinalized
CHECK_DEADLOCK FALSE
