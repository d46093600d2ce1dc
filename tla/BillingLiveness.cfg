CONSTANTS
  p1 = p1
  h1 = h1
  Payment = {p1}
  Cancellation = {}
  Handler = {h1}
  Attempts = 1
  TrialDays = 1
  Month = 1
  GraceDays = 0
  KeyTtl = 1
  MaxCrashes = 1
  MaxEvents = 1
  MaxTime = 1
  None = None
SPECIFICATION LiveSpec
CHECK_DEADLOCK FALSE
PROPERTIES  TrialEnds PastDueBlocks
