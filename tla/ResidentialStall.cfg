SPECIFICATION FairSpec
CONSTANTS
    N = 3
    Before = Before
    None = None
    MaxExits = 2
    MaxScripts = 2
    MaxFaults = 1
PROPERTY EveryJobEnds
CHECK_DEADLOCK FALSE
