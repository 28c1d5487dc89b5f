SPECIFICATION Spec
CONSTANTS
  Grace = 1
  Acceptance = 2
  Deemed = 2
  None = None
  Names = {"A", "B", "C"}
  Concluding = {"C"}
  Amount = 1
  MaxEvidence = 1
  MaxRuns = 2
  Orders <- MCOrders
  Calendars <- MCCalendars
  Allegations <- MCAllegations
INVARIANTS OnlyConclusionsAreRefused DepthIsEven FindingsAreSound
CHECK_DEADLOCK FALSE
