SPECIFICATION FairSpec
CONSTANTS
  t1 = t1
  t2 = t2
  t3 = t3
  k1 = k1
  r1 = r1
  r2 = r2
  none = none
  Tokens <- OneToken
  Calls <- TwoCalls
  Visits <- Tries
  Replicas <- OneReplica
  None <- none
  Ttl = 1
  RequireCaptcha = FALSE
  MaxTime = 0
  MaxFaults = 1
PROPERTIES
  SuccessIsAlwaysAnnounced
CHECK_DEADLOCK FALSE
