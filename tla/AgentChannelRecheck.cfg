CONSTANTS
  Cmds = {c1, c2}
  Detached = {c2}
  Polls = {p1, p2}
  MaxFaults = 0
SPECIFICATION Spec
PROPERTY TimeoutRechecks
