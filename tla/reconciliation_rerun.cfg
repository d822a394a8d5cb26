SPECIFICATION Spec
CONSTANTS
  NULL = NULL
  r1 = r1
  r2 = r2
  r3 = r3
  Asks <- OnlyRuns
  Requests = {r1, r2, r3}
  Evidences = {e1}
  Statements = {t1}
  Transactions = {t1}
  StatementOf <- OneEach
CHECK_DEADLOCK FALSE
INVARIANT OneRowPerEvidence
