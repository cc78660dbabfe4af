SPECIFICATION Spec
CONSTANTS
  None = None  Part = Part
  Wanted <- WantedRules
  Faults <- HonestStops
INVARIANTS NeverMixed OldSurvives NothingOrphaned
PROPERTY KeepsContract
CHECK_DEADLOCK FALSE
