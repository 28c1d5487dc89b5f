SPECIFICATION FairSpec
CONSTANTS
  s1 = s1
  s2 = s2
  Screens = {s1, s2}
  Details <- Some
  MaxTries = 2
  MaxPayments = 2
  Nobody = Nobody
  NoId = NoId
INVARIANTS
  TypeOK
  RecordsTellTheChain
PROPERTIES
  PayoutsAreForever
  PaymentsComeThrough
CHECK_DEADLOCK FALSE
