SPECIFICATION EitherSpec
CONSTANTS
  Invocations = {i1, i2, i3}
  Digests = {d1}
  NumActions = 3
  NumWindows = 2
  WindowOf <- ShortWindowOf
  CatalogWindows <- ShortCatalog
  Opens <- ShortOpens
  Closes <- ShortCloses
  MaxTime = 4
  Ceiling = 2
  None = None
SYMMETRY InvocationSymmetry
INVARIANT DueReachedByCampaign
CHECK_DEADLOCK FALSE
