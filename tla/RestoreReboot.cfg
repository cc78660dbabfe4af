SPECIFICATION Spec
CONSTANTS
  None = None  Part = Part
  Wanted <- WantedRules
  Faults <- Reboots
INVARIANT OldSurvivesReboot
CHECK_DEADLOCK FALSE
