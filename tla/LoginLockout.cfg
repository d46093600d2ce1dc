CONSTANTS
  r1 = r1
  r2 = r2
  p = p
  q = q
  c1 = c1
  k1 = k1
  k2 = k2
  t1 = t1
  Request = {r1, r2}
  Password = {p, q}
  Challenge = {c1}
  Code = {k1, k2}
  Token = {}
  MaxAttempts = 2
  LockTime = 1
  ChallengeTtl = 0
  ResetTtl = 0
  MaxDelay = 0
  MaxTime = 1
  None = None
SPECIFICATION Spec
SYMMETRY LoginSymmetry
INVARIANTS LockEngages BackupBounded ChallengeBurns
