SPECIFICATION Spec
CONSTANTS
  Runs = {c1, c2, c3, c4}
  Prints = {p1}
  None = none
  Ttl = 1
  MaxTime = 1
  MaxFaults = 0
PROPERTIES
  ConflictMeansRow
CHECK_DEADLOCK FALSE
