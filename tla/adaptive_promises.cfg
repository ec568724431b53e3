SPECIFICATION FairSpec
CONSTANTS
  t1 = t1
  t2 = t2
  t3 = t3
  k1 = k1
  r1 = r1
  r2 = r2
  none = none
  clear = clear
  Tokens <- OneToken
  Calls <- TwoCalls
  Visits <- RiskyOrWrong
  Replicas <- TwoReplicas
  None <- none
  NoChallenge <- clear
  Ttl = 1
  Overwrites = FALSE
  Crashes = TRUE
  MaxTime = 2
  MaxFaults = 1
PROPERTIES
  KeepsLinkPromise
  EveryCallReturns
CHECK_DEADLOCK FALSE
