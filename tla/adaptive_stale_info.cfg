SPECIFICATION Spec
CONSTANTS
  t1 = t1
  t2 = t2
  t3 = t3
  k1 = k1
  r1 = r1
  r2 = r2
  none = none
  clear = clear
  Tokens <- OneToken
  Calls <- ThreeCalls
  Visits <- RiskyVisits
  Replicas <- OneReplica
  None <- none
  NoChallenge <- clear
  Ttl = 1
  Overwrites = FALSE
  Crashes = TRUE
  MaxTime = 0
  MaxFaults = 0
SYMMETRY CallSymmetry
INVARIANTS
  DecisionNeverChanges
CHECK_DEADLOCK FALSE
