SPECIFICATION SpecSeats
CONSTANTS
  w1 = w1
  w2 = w2
  Wallets = {w1, w2}
  e1 = e1
  Emails = {e1}
  Seats = {"arbiter", "platform"}
  t1 = t1
  t2 = t2
  Tabs = {t1, t2}
  None = None
  Old <- OldReviewer
  MaxTokens = 2
  MaxRegister = 1
SYMMETRY TabsAlike
INVARIANTS
  SeatsTypeOK
  
PROPERTIES
  OnlyRejectedTokensAreDropped
CHECK_DEADLOCK FALSE
