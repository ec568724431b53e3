SPECIFICATION Spec
CONSTANTS
  Calls = {c1, c2, c3}
  Levels = {1, 2}
  None = none
  Tiered = FALSE
  Ttl = 1
  FastTtl = 1
  MaxTime = 0
  MaxFaults = 0
PROPERTIES
  NeverLowered
CHECK_DEADLOCK FALSE
