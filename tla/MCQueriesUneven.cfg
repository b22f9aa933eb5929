CONSTANTS
  Inputs <- Q2Inputs
  Accounts <- MCAccounts
  Replicas <- OneReducer
  BatchSize = 1
  MinRequired = 2
  Rates <- MCRates
SPECIFICATION Spec
INVARIANTS
  EndCountsResults
CHECK_DEADLOCK FALSE
