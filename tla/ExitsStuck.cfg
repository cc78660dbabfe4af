SPECIFICATION FairSpec
CONSTANTS
  MaxExits = 2
  Cands = {c1, c2}
  Down = Down
  NoExit = NoExit
  Policies = {"block"}
  Lives = {"ahead"}
  Stuck = {1}
  Requests = {"create"}
  Failures = FALSE
  Crashes = FALSE
PROPERTY ExpiredStops
