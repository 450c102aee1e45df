SPECIFICATION PreparedSpec
CONSTANTS
  Invocations = {i1, i2, i3}
  Digests = {d1}
  NumActions = 4
  NumWindows = 3
  WindowOf <- LongWindowOf
  CatalogWindows <- LongCatalog
  Opens <- LongOpens
  Closes <- LongCloses
  MaxTime = 4
  Ceiling = 2
  None = None
SYMMETRY InvocationSymmetry
INVARIANT NeverAdvancesPastUnsealed
CHECK_DEADLOCK FALSE
