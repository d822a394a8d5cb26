SPECIFICATION Spec
CONSTANTS
  ann = ann
  ben = ben
  cho = cho
  dan = dan
  NULL = NULL
  Requests = {r1, r2, r3, r4}
  Users <- MCUsers
  Holders <- MCHolders
  CollegeAuditors <- MCCollegeAuditors
  Ops <- AuditTrailOps
CHECK_DEADLOCK FALSE
SYMMETRY RequestSymmetry
PROPERTY StatusFollowsStateMachine
