SPECIFICATION Spec
CONSTANTS
  Pages = {p1}
  Handlers = {dm, log}
  Standing = {dm}
  Kinds = {"panel", "pow"}
  MaxTrajectory = 3
  MaxInputs = 3
  MaxKeyed = 1
  MinPoints = 1
  MaxPoints = 2
  MaxAttempts = 1
  MaxReloads = 1
  MaxFaults = 1
INVARIANTS
  GreenIsVerified
  RepeatedIsFullOrStill
PROPERTIES
  GreenStaysGreen
  CheckingEnds
  BotIsTold
CHECK_DEADLOCK FALSE
