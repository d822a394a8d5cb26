SPECIFICATION Spec
CONSTANTS
  NULL = NULL
  p1 = p1
  p2 = p2
  ann = ann
  bob = bob
  cat = cat
  Requests = {r1, r2, r3}
  Past = {p1, p2}
  Users = {ann, bob, cat}
  Operators = {ann}
  Worlds <- MCWorlds
CHECK_DEADLOCK FALSE
SYMMETRY RequestSymmetry
INVARIANTS
  TypeOK
  OrganizationsAreLed
  HandOverIsComplete
  UsedTwiceOnlyByOverlap
  EveryRightHasItsSource
