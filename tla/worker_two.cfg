SPECIFICATION Spec
CONSTANTS
  Transfers = {t1}
  Workers = {w1, w2}
  MaxRetries = 1
  RecheckKeys = {1}
  ReconKeys = {0}
  MaxTries = 2
  Faults = {"error"}
  Toggled = {}
  NoJob = NoJob
SYMMETRY WorkerSymmetry
INVARIANTS ExclusiveClaim SettledBooks
CHECK_DEADLOCK FALSE
