SPECIFICATION Spec
CONSTANTS
  Calls = {c1, c2, c3}
  Ips = {home, cafe}
  None = none
  Tiered = TRUE
  Ttl = 2
  FastTtl = 1
  MaxTime = 2
  MaxFaults = 1
INVARIANT FastTierIsDisposable
CHECK_DEADLOCK FALSE
