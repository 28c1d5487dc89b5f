SPECIFICATION FairSpec
CONSTANTS
  Replies = {m1}
  Uploads = {u1}
  Requests = {q1}
  MaxFaults = 1
  NoRun = NoRun
INVARIANTS
  FramesTypeOK
  NoStuckSpinner
  FramesAreAccounted
PROPERTIES
  RunsComeToAnEnd
CHECK_DEADLOCK FALSE
