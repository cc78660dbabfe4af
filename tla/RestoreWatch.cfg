SPECIFICATION Spec
CONSTANTS
  None = None  Part = Part
  Wanted <- WantedRules
  Faults <- Watches
INVARIANT EveryRuleHasRow
CHECK_DEADLOCK FALSE
