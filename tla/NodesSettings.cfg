SPECIFICATION Spec
CONSTANTS
  server = server  cli = cli
  MaxId = 1
  Revs = {r1}
  Landings = {l1, l2}
  Outbounds = {o1}
  MaxTime = 1
  Procs <- OneProcess
  Server = server
  NoNode = NoNode
  Never = Never
  Failures = TRUE
  Crashes = TRUE
INVARIANTS TypeOK Settled
PROPERTY FailureRestores
