SPECIFICATION Spec
CONSTANTS
  None = None  Part = Part
  Wanted <- WantedRules
  Faults <- AllFaults
INVARIANT PreviousIsWhole
CHECK_DEADLOCK FALSE
