CONSTANTS
  s1 = s1
  r1 = r1
  r2 = r2
  Session = {s1}
  Request = {r1, r2}
  Nobody = Nobody
  MaxConcurrent = 1
  CacheTtl = 1
  ActiveInterval = 2
  IdleTimeout = 5
  Expiry = 8
  MaxDelay = 1
  MaxTime = 9
  LostWrites <- AllButTouch
SYMMETRY RequestSymmetry
SPECIFICATION Spec
CHECK_DEADLOCK FALSE
INVARIANTS RevocationBounded ExpiryHonoured
PROPERTIES IdleHonoured NeverIdledOutEarly
