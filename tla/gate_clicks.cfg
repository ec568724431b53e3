SPECIFICATION Spec
CONSTANTS
  t1 = t1
  t2 = t2
  t3 = t3
  k1 = k1
  r1 = r1
  r2 = r2
  none = none
  Tokens <- OneToken
  Calls <- ThreeCalls
  Visits <- Clicks
  Replicas <- TwoReplicas
  None <- none
  Ttl = 1
  RequireCaptcha = FALSE
  MaxTime = 1
  MaxFaults = 1
INVARIANTS
  AckedStaysVerified
  PublishOncePerReplica
SYMMETRY ClickSymmetry
CHECK_DEADLOCK FALSE
