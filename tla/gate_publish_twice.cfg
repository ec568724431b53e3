SPECIFICATION Spec
CONSTANTS
  t1 = t1
  t2 = t2
  t3 = t3
  k1 = k1
  r1 = r1
  r2 = r2
  none = none
  Tokens <- OneToken
  Calls <- ThreeCalls
  Visits <- Tries
  Replicas <- OneReplica
  None <- none
  Ttl = 1
  RequireCaptcha = FALSE
  MaxTime = 0
  MaxFaults = 0
INVARIANTS
  PublishedAtMostOnce
CHECK_DEADLOCK FALSE
