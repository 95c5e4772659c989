CONSTANTS
  Keys = {k1}
  MaxSev = 2
  Threshold = 1
  Lengths = {0, 1, 3}
  Runs = {r1, r2}
  MaxEvents = 2
  MaxFaults = 1
SPECIFICATION Spec
SYMMETRY Symmetry
INVARIANTS
  TypeOK
  NoSeverityForgotten
  NoStepSkipped
  EscalationNotForgotten
  DuplicatesAreBounded
