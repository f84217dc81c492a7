SPECIFICATION Spec
CONSTANTS
  Transfers = {t1}
  Workers = {w1}
  MaxRetries = 1
  RecheckKeys = {1}
  ReconKeys = {0}
  MaxTries = 2
  Faults = {"crash", "error", "lost"}
  Toggled = {"GLOBAL"}
  NoJob = NoJob
INVARIANTS TypeOK CollectedBeforePayout ToldTruth
PROPERTIES KeepsPromise
CHECK_DEADLOCK FALSE
