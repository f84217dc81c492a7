SPECIFICATION FairSpec
CONSTANTS
  Transfers = {t1}
  Workers = {w1}
  MaxRetries = 1
  RecheckKeys = {1, 2}
  ReconKeys = {1}
  MaxTries = 2
  Faults = {"lost"}
  Toggled = {}
  NoJob = NoJob
INVARIANTS NoFalseAlarm
PROPERTIES EventuallyClosed
CHECK_DEADLOCK FALSE
