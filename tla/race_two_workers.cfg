SPECIFICATION Spec
CONSTANTS
  Transfers = {t1}
  Workers = {w1, w2}
  MaxRetries = 0
  RecheckKeys = {1}
  ReconKeys = {}
  MaxTries = 1
  Faults = {}
  Toggled = {}
  NoJob = NoJob
PROPERTIES SuccessIsFinal
CHECK_DEADLOCK FALSE
