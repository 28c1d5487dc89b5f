SPECIFICATION FairSpec
CONSTANTS
  MAX_INFO_REQUESTS = 1
  p1 = p1
  c1 = c1
  c2 = c2
  Payments = {p1}
  CaseIds = {c1, c2}
  NotANumber = {c2}
  NoPayout = NoPayout
INVARIANTS
  TypeOK
  DisputesAndCasesAgree
  DecidedOnce
  RefundsAreFinal
  AnchorScriptInOrder
PROPERTIES
  VerdictIsFinal
  CasesMoveOn
