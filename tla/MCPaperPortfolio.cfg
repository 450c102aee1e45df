SPECIFICATION Spec
CONSTANTS
  Workers = {w1, w2}
  Batches = {b1, b2}
  Lineages = {l1, l2, l3}
  l1 = l1
  l2 = l2
  l3 = l3
  NumRegistrations = 1
  DecidedAt <- OneDecided
  Market <- ThreeLineages
  MaxTime = 2
  None = None
SYMMETRY WorkerSymmetry
INVARIANTS
  TypeOK
  OneChain
  ChainsLegal
  RecordsStand
PROPERTY ImplementsPosition
CHECK_DEADLOCK FALSE
