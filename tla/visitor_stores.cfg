SPECIFICATION Spec
CONSTANTS
  c1 = c1
  c2 = c2
  c3 = c3
  home = home
  cafe = cafe
  p1 = p1
  none = none
  Calls <- ThreeCalls
  Levels <- TwoLevels
  Ips <- TwoIps
  Runs <- ThreeCalls
  Prints <- OnePrint
  None <- none
  Tiered = TRUE
  Ttl = 2
  FastTtl = 1
  MaxTime = 2
  MaxFaults = 1
SYMMETRY CallSymmetry
INVARIANTS
  LevelRemembered
  FastLevelHidesNothing
  TrustIsCurrent
  TrustRemembered
  RefusedOnlyForRecent
PROPERTIES
  ReplayCaught
CHECK_DEADLOCK FALSE
