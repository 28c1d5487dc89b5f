SPECIFICATION SpecSteps
CONSTANTS
  MAX_INFO_REQUESTS = 2
  p1 = p1
  s1 = s1
  s2 = s2
  Payments = {p1}
  MaxCases = 1
  CaseIds = {1}
  NotANumber = {}
  NoPayout = NoPayout
  Slots = {s1, s2}
  MaxCalls = 4
  MayCrash = TRUE
SYMMETRY Symmetry
INVARIANTS
  StepsTypeOK
  RecordsKeepUp
CHECK_DEADLOCK FALSE
