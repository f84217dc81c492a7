SPECIFICATION Spec
CONSTANTS
  Transfers = {t1}
  Workers = {w1, w2}
  MaxRetries = 0
  RecheckKeys = {1}
  ReconKeys = {}
  MaxTries = 1
  Faults = {"throw", "lapse"}
  Toggled = {}
  NoJob = NoJob
SYMMETRY WorkerSymmetry
INVARIANTS BackedByPartner
CHECK_DEADLOCK FALSE
