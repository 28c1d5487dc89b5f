SPECIFICATION FairSpec
CONSTANTS
  d1 = d1
  d2 = d2
  Drains = {d1, d2}
  Scripts <- Unanswered
  MAX_ATTEMPTS = 3
  MaxFaults = 2
  MayCrash = TRUE
  NoJob = NoJob
INVARIANTS
  TypeOK
  QueueIsHonest
PROPERTIES
  JobsSettle
CHECK_DEADLOCK FALSE
