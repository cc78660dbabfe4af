SPECIFICATION FairSpec
CONSTANTS
  MaxExits = 2
  Cands = {c1, c2}
  Down = Down
  NoExit = NoExit
  Policies = {"auto_swap"}
  Lives = {"ahead"}
  Stuck = {}
  Requests = {"create", "swap"}
  Failures = FALSE
  Crashes = FALSE
INVARIANT DistinctTunnels
PROPERTIES Heals ExpiredStops
