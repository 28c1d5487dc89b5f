SPECIFICATION Spec
CONSTANTS
  MAX_INFO_REQUESTS = 1
  c1 = c1
  c2 = c2
  t1 = t1
  p1 = p1
  p2 = p2
  l1 = l1
  l2 = l2
  None = None
  Cases = {c1, c2}
  Texts = {t1}
  Posts = {p1, p2}
  Loads = {l1, l2}
  MaxTurns = 1
  MaxTimers = 1
  MaxMoves = 2
CHECK_DEADLOCK FALSE
SYMMETRY CaseSymmetry
INVARIANTS
  TypeOK
  RoomIsHonest
  OwnPostsShow
PROPERTIES
  RefusalsAreExplained
