SPECIFICATION Spec
CONSTANTS
  Executions = {e1, e2, e3}
  Roots = {s1, s2}
  NotBefore = 1
  Deadline = 2
  MaxTime = 3
  None = None
SYMMETRY InstanceSymmetry
INVARIANTS
  TypeOK
  RecordBacked
  DecisionInWindow
  ManifestRestorable
  DeliveredAtLeastOnce
  RestoredExactly
PROPERTY ImplementsSession
CHECK_DEADLOCK FALSE
