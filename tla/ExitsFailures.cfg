SPECIFICATION Spec
CONSTANTS
  MaxExits = 1
  Cands = {c1, c2, c3}
  Down = Down
  NoExit = NoExit
  Policies = {"block", "auto_swap"}
  Lives = {"never", "ahead"}
  Stuck = {}
  Requests = {"create", "swap", "extend", "delete"}
  Failures = TRUE
  Crashes = TRUE
INVARIANTS TypeOK NoOrphanTunnel RunningIsRecorded
