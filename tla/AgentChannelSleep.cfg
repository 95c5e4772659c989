CONSTANTS
  Cmds = {c1}
  Detached = {}
  Polls = {p1, p2}
  MaxFaults = 0
SPECIFICATION Spec
INVARIANT NoSleepOnStoredResult
