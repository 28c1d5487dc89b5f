SPECIFICATION FairSpec
CONSTANTS
  c1 = c1
  o1 = o1
  o2 = o2
  l1 = l1
  CaseFiles = {c1}
  OrderFiles = {o1, o2}
  Links = {l1}
  Stores = {"s3", "local"}
  MaxStarted = 2
  MaxRestarts = 1
INVARIANTS
  TypeOK
  RecordsAreHonest
PROPERTIES
  DocumentsKept
  ScreensSettle
CHECK_DEADLOCK FALSE
