SPECIFICATION Spec
CONSTANTS
  NULL = NULL
  Dates <- MCDates
  EvidenceLists <- MCEvidenceLists
  BankLists <- MCBankLists
CHECK_DEADLOCK FALSE
INVARIANT ExactBeforePartial
