CONSTANTS
  s1 = s1
  s2 = s2
  r1 = r1
  r2 = r2
  Session = {s1, s2}
  Request = {r1, r2}
  Nobody = Nobody
  MaxConcurrent = 1
  CacheTtl = 1
  ActiveInterval = 1
  IdleTimeout = 2
  Expiry = 3
  MaxDelay = 0
  MaxTime = 1
  LostWrites <- AllButTouch
SYMMETRY RequestSymmetry
SPECIFICATION Spec
CHECK_DEADLOCK FALSE
INVARIANTS SessionCap
