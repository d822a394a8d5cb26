SPECIFICATION Spec
CONSTANTS
  NULL = NULL
  Requests = {r1, r2, r3}
  Ops <- AllOps
  Verdicts <- ReviewOutcomes
CHECK_DEADLOCK FALSE
SYMMETRY RequestSymmetry
PROPERTY ClosedBooksAreFrozen
