CONSTANTS
  Cmds = {c1, c2}
  Detached = {c2}
  Polls = {p1, p2, p3}
  MaxFaults = 2
SPECIFICATION Spec
SYMMETRY Symmetry
INVARIANTS
  TypeOK
  BoundedRedelivery
  AnswerIsARun
  HookedIsRegistered
  LeaksAreLostRaces
PROPERTIES
  ImplementsDurableCommands
