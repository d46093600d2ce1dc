CONSTANTS
  p1 = p1
  c1 = c1
  h1 = h1
  Payment = {p1}
  Cancellation = {c1}
  Handler = {h1}
  Attempts = 2
  TrialDays = 1
  Month = 1
  GraceDays = 1
  KeyTtl = 1
  MaxCrashes = 1
  MaxEvents = 2
  MaxTime = 2
  None = None
SPECIFICATION RenewalSpec
CHECK_DEADLOCK FALSE
INVARIANTS PaymentExtends
