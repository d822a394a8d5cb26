SPECIFICATION Spec
CONSTANTS
  ann = ann
  ben = ben
  cho = cho
  dan = dan
  NULL = NULL
  Requests = {r1, r2, r3, r4}
  Users <- MCUsers
  Holders <- MCHolders
  CollegeAuditors <- OneAuditor
  Ops <- AllOps
CHECK_DEADLOCK FALSE
SYMMETRY RequestSymmetry
INVARIANT SettledTwiceOnlyByOverlap
PROPERTY LeavesFlowOnlyByOverlap
