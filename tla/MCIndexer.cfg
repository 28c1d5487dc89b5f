SPECIFICATION FairSpec
CONSTANTS
  MAX_INFO_REQUESTS = 0
  t1 = t1
  t2 = t2
  Pays = {t1, t2}
  Deal <- Payees
  MaxEvents = 2
  Requests = {"r1"}
  MaxFaults = 1
  NoPay = NoPay
INVARIANTS
  TypeOK
  RowsFollowChain
PROPERTIES
  EventsReachRows
