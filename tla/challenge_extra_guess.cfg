SPECIFICATION Spec
CONSTANTS
  g1 = g1
  g2 = g2
  g3 = g3
  c1 = c1
  none = none
  Challenges <- OneChallenge
  Guesses <- ThreeGuesses
  None <- none
  Ttl = 1
  MaxAttempts = 1
  MaxTime = 0
  MaxFaults = 0
SYMMETRY GuessSymmetry
INVARIANTS
  WrongGuessesBounded
CHECK_DEADLOCK FALSE
