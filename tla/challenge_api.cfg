SPECIFICATION Spec
CONSTANTS
  c1 = c1
  c2 = c2
  c3 = c3
  math = math
  text = text
  fallback = fallback
  none = none
  Clients <- TwoClients
  Deployments <- DropsMath
  Direct <- OnlyText
  Fallback <- fallback
  None <- none
  SharedStore = TRUE
  MaxAttempts = 1
  IssueCalls = 2
  VerifyCalls = 1
  Period = 2
  MaxTrackedKeys = 1
  MaxIds = 2
  MaxGets = 3
  MaxPosts = 2
  MaxTime = 2
SYMMETRY ClientSymmetry
INVARIANTS
  BudgetsAreExact
  TablesForgetTheIdle
PROPERTIES
  RightAnswerCounts
CHECK_DEADLOCK FALSE
