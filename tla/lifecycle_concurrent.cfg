SPECIFICATION FairSpec
CONSTANTS
  ann = ann
  ben = ben
  cho = cho
  dan = dan
  NULL = NULL
  Requests = {r1, r2, r3}
  Users <- MCUsers
  Holders <- MCHolders
  CollegeAuditors <- MCCollegeAuditors
  Ops <- AllOps
CHECK_DEADLOCK FALSE
INVARIANTS
  TypeOK
  StampsMatchStatus
  EveryTransitionHasItsCause
  NewsIsTrue
PROPERTIES
  TransitionIsAnnounced
