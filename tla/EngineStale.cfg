SPECIFICATION FairSpec
CONSTANTS
  c1 = c1  c2 = c2  c3 = c3  bad = bad  p1 = p1  p2 = p2
  None = None
  Configs <- MCConfigs
  Refused <- MCRefused
  Sockets <- MCSockets
  ListenersOf <- MCListenersOf
  Units = {"main"}
  Crashes = TRUE
PROPERTY SuccessMeansLoaded
