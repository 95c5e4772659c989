CONSTANTS
  Checks = {k1}
  Engines = {e1, e2}
  MaxManual = 1
SPECIFICATION Spec
SYMMETRY EngineSymmetry
INVARIANTS
  TypeOK
  DuplicatesAreBounded
  NumbersInOrder
  ReportedHasTicket
  ClearedIsClosed
PROPERTIES
  SeverityOnlyRises
  FollowsLifecycle
