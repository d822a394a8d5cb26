SPECIFICATION Spec
CONSTANTS
  NULL = NULL
  Old = Old
  Requests = {r1, r2, r3}
  Plans <- FewGenerations
  Evidences = {e1}
CHECK_DEADLOCK FALSE
SYMMETRY RequestSymmetry
INVARIANTS
  TypeOK
  RivalsOverlapped
  DownloadsAreServed
  PairsReplaceEachOther
  UnfinishedHasGenerator
  PairAgrees
PROPERTY RetiredStaysRetired
