SPECIFICATION Spec
CHECK_DEADLOCK FALSE

CONSTANTS
  NULL = NULL
  o1 = o1
  o2 = o2
  o3 = o3
  pres = pres
  aud = aud
  stu = stu
  far = far
  s1 = s1
  s2 = s2
  s3 = s3
  e1 = e1
  e2 = e2
  e3 = e3
  e4 = e4
  g1 = g1
  g2 = g2
  r1 = r1
  r2 = r2
  r3 = r3
  Users = {pres, aud, stu, far}
  Orgs = {o1, o2, o3}
  Settlements = {s1, s2, s3}
  Evidences = {e1, e2, e3, e4}
  GroupNames = {g1, g2}
  Requests = {r1, r2, r3}
  account <- MCAccount
  organization <- MCOrganization
  seats <- MCSeats
  Worlds <- MCWorlds
  DefaultYear = 2026
  ThisYear = 2026
  RecentLimit = 1
  HeaderScanRows = 3
  HeaderWindow = 3
  CloseWindow = 5

INVARIANTS
  ReadersAgree
  ViewsAreLostOnlyByOverlap
  StatementsAreRead
  LedgerTellsTheMonths
  ReadingsAreEarned
  ReceiptsAreRead
