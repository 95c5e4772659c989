CONSTANTS
  Cmds = {c1, c2}
  Detached = {c2}
  Polls = {p1, p2}
  MaxFaults = 1
SPECIFICATION JobsFairSpec
INVARIANTS
  JobsTypeOK
  DoneHasResult
  RunningWasHandedOut
PROPERTIES
  ImplementsDurableJobs
  JobsSettle
