SPECIFICATION Spec
CONSTANTS
  Attempts = {a1, a2}
  Sources = {s1, s2}
  Streams = {e1}
  Limit = 2
  MaxActive = 2
  MaxSources = 1
  SweepInterval = 2
  Window = 1
  TTL = 1
  MaxTime = 1
  MaxGen = 1
  MaxToken = 2
  None = None
INVARIANTS Accounted GuessesBounded PanelRevokes
PROPERTY StreamsEnd
