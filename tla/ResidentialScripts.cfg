SPECIFICATION FairSpec
CONSTANTS
    N = 3
    Before = Before
    None = None
    MaxExits = 2
    MaxScripts = 2
    MaxFaults = 1
INVARIANTS KindsAgree LeavesNothing LastTurnsOff
PROPERTIES JobsEnd TunnelsHeal
CHECK_DEADLOCK FALSE
