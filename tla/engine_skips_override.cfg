SPECIFICATION Spec
CONSTANTS
  corroborated = corroborated
  conditional = conditional
  custom = custom
  reputation = reputation
  behavior = behavior
  none = none
  Signals <- ThreeSignals
  Weight <- Weights
  Unit = 4
  Thresholds <- Quarters
  Opinions <- Repertoire
  Children <- TwoChildren
  ChildOpinions <- ChildRepertoire
  Corroborating <- corroborated
  Chained <- conditional
  When <- reputation
  Then <- behavior
  SuspicionThreshold = 2
  MinAgreements <- none
  OverrideLevel = 3
  None = none
  MaxEdits = 1
INVARIANTS
  OverrideWins
CHECK_DEADLOCK FALSE
