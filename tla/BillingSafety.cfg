CONSTANTS
  p1 = p1
  c1 = c1
  h1 = h1
  h2 = h2
  Payment = {p1}
  Cancellation = {c1}
  Handler = {h1, h2}
  Attempts = 2
  TrialDays = 1
  Month = 1
  GraceDays = 1
  KeyTtl = 1
  MaxCrashes = 1
  MaxEvents = 1
  MaxTime = 2
  None = None
SPECIFICATION Spec
SYMMETRY HandlerSymmetry
CHECK_DEADLOCK FALSE
INVARIANTS AppliedOnce  BlockedForCause
