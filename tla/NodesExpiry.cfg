SPECIFICATION FairSpec
CONSTANTS
  server = server  cli = cli
  MaxId = 2
  Revs = {r1}
  Landings = {l1}
  Outbounds = {o1}
  MaxTime = 1
  Procs <- OneProcess
  Server = server
  NoNode = NoNode
  Never = Never
  Failures = FALSE
  Crashes = FALSE
PROPERTIES ExpiredGoes StartCompletes
