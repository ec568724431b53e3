SPECIFICATION Spec
CONSTANTS
  Calls = {c1, c2, c3}
  Levels = {1, 2}
  None = none
  Tiered = TRUE
  Ttl = 2
  FastTtl = 1
  MaxTime = 1
  MaxFaults = 1
INVARIANTS
  FastTierIsDisposable
CHECK_DEADLOCK FALSE
