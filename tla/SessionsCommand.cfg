SPECIFICATION Spec
CONSTANTS
  Attempts = {a1, a2}
  Sources = {s1, s2}
  Streams = {e1}
  Limit = 2
  MaxActive = 2
  MaxSources = 1
  SweepInterval = 2
  Window = 2
  TTL = 2
  MaxTime = 3
  MaxGen = 1
  MaxToken = 1
  None = None
INVARIANT CommandRevokes
