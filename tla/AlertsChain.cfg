CONSTANTS
  Keys = {k1}
  MaxSev = 1
  Threshold = 1
  Lengths = {1, 2}
  Runs = {r1}
  MaxEvents = 1
  MaxFaults = 0
SPECIFICATION Spec
SYMMETRY Symmetry
INVARIANT ChainIsNotified
