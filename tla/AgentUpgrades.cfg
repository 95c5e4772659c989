CONSTANTS
  MaxRotations = 3
  MaxFaults = 2
  Rows = {r1, r2, r3, r4, r5}
  Evals = {e1, e2}
  MaxFailures = 1
  None = None
  MaxUpgradingRotations = 0
SPECIFICATION Spec
SYMMETRY Symmetry
INVARIANTS
  TypeOK
  
  
  AttemptsAreBounded
  UpgradesAtOnce
