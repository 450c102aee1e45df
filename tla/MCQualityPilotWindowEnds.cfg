SPECIFICATION FairSpec
CONSTANTS
  Invocations = {i1, i2, i3}
  Digests = {d1, d2}
  NumActions = 3
  NumWindows = 2
  WindowOf <- ShortWindowOf
  CatalogWindows <- ShortCatalog
  Opens <- ShortOpens
  Closes <- ShortCloses
  MaxTime = 3
  Ceiling = 2
  None = None
PROPERTY ExecutionsEnd
CHECK_DEADLOCK FALSE
