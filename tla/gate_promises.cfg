SPECIFICATION FairSpec
CONSTANTS
  t1 = t1
  t2 = t2
  t3 = t3
  k1 = k1
  r1 = r1
  r2 = r2
  none = none
  Tokens <- OneToken
  Calls <- TwoCalls
  Visits <- Answered
  Replicas <- OneReplica
  None <- none
  Ttl = 1
  RequireCaptcha = TRUE
  MaxTime = 2
  MaxFaults = 1
INVARIANTS
  TypeOK
  LateCallNeverVerifies
  RejectedCallSparesAnswer
PROPERTIES
  KeepsLinkPromise
  EveryCallReturns
  SuccessIsAnnounced
  SolvedAnswerCounts
CHECK_DEADLOCK FALSE
