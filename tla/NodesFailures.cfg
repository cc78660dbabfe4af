SPECIFICATION Spec
CONSTANTS
  server = server  cli = cli
  MaxId = 2
  Revs = {r1}
  Landings = {l1}
  Outbounds = {o1}
  MaxTime = 0
  Procs <- OneProcess
  Server = server
  NoNode = NoNode
  Never = Never
  Failures = TRUE
  Crashes = TRUE
INVARIANTS TypeOK Settled
PROPERTY FailureRestores
