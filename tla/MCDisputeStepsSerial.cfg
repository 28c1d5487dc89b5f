SPECIFICATION SerialSpec
CONSTANTS
  MAX_INFO_REQUESTS = 2
  p1 = p1
  p2 = p2
  s1 = s1
  Payments = {p1, p2}
  MaxCases = 2
  CaseIds = {1, 2}
  NotANumber = {2}
  NoPayout = NoPayout
  Slots = {s1}
  MaxCalls = 4
  MayCrash = FALSE
PROPERTY
  ImplementsApi
CHECK_DEADLOCK FALSE
