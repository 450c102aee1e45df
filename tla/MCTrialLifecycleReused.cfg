SPECIFICATION Spec
CONSTANTS
  root = root
  child = child
  grand = grand
  h = h
  runRoot = runRoot
  runChild = runChild
  rerunChild = rerunChild
  b = b
  None = None
  Trials = {root, child, grand}
  ParentOf <- Line
  Confirmatory = {root, child}
  HoldoutOf <- OneHoldout
  Comparisons = {runRoot, runChild, rerunChild}
  TrialOf <- RunsOf
  BatchOf <- Batches
  EvidenceOf <- Evidences
  Passing = {runRoot, runChild, rerunChild}
  IdOrder <- Ids
  AlphaParts = 20
  Offers = {"STARTED", "UNSEALED", "RESULTS_ACCESSED", "COMPLETED", "FAILED", "PROMOTED", "INVALIDATED"}
  MaxEvents <- Events
  MaxAccesses = 1
  MaxFaults = 1
CHECK_DEADLOCK FALSE
PROPERTY SpentHoldoutsStaySpent
