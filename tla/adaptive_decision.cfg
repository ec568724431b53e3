SPECIFICATION Spec
CONSTANTS
  t1 = t1
  t2 = t2
  t3 = t3
  k1 = k1
  r1 = r1
  r2 = r2
  none = none
  clear = clear
  Tokens <- OneToken
  Calls <- ThreeCalls
  Visits <- AllVisits
  Replicas <- TwoReplicas
  None <- none
  NoChallenge <- clear
  Ttl = 1
  Overwrites = FALSE
  Crashes = TRUE
  MaxTime = 0
  MaxFaults = 1
SYMMETRY AllSymmetry
INVARIANTS
  ShownIsCurrent
  EscalationIsFinal
  IssuedOncePerReplica
  TwoCallsPublishOnce
CHECK_DEADLOCK FALSE
