SPECIFICATION Spec
CONSTANTS
  NumRequests = 4
  v1 = v1
  v2 = v2
  Versions <- TwoVersions
  Limits <- NoneOrTwo
  Ceiling = 3
  MaxAsks = 2
  MaxFaults = 2
  None = None
INVARIANTS
  BackfillTypeOK
  AskedOnce
  PilotIsExact
SYMMETRY VersionSymmetry
PROPERTY ImplementsCollection
