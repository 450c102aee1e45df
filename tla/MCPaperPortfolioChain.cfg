SPECIFICATION Spec
CONSTANTS
  Workers = {w1}
  Batches = {b1, b2, b3}
  Lineages = {l1}
  l1 = l1
  l2 = l2
  l3 = l3
  NumRegistrations = 2
  DecidedAt <- TwoDecided
  Market <- OneLineage
  MaxTime = 2
  None = None
SYMMETRY WorkerSymmetry
INVARIANTS
  CountedOnce
  PositionsKept
CHECK_DEADLOCK FALSE
