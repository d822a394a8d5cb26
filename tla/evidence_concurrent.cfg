SPECIFICATION FairSpec
CONSTANTS
  NULL = NULL
  Requests = {r1, r2, r3}
  Ops <- AllOps
  Verdicts <- ReviewOutcomes
CHECK_DEADLOCK FALSE
INVARIANTS
  TypeOK
  FileBehindEveryRow
  NoStrayFiles
  ExtractingHasWorker
PROPERTIES
  NoResurrection
  EarlierCategoriesStand
  ClosedBooksComeToRest
