CONSTANTS
  Request = {r1, r2}
  CacheTtl = 2
SPECIFICATION GateSpec
INVARIANT GateBlocks
