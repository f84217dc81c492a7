SPECIFICATION DeliveriesSpec
CONSTANTS
  Alerts = {a1, a2}
  Dispatchers = {d1, d2}
  Routed = {a1}
  Page = 2
  MaxAttempts = 6
  Faults = {"crash", "throw"}
  MaxNotes = 2
  Unreadable = {1}
  Couriers = {k1, k2}
  NotePage = 2
  NoteFaults = {"crash", "throw", "lapse"}
  r1 = r1
  r2 = r2
  r3 = r3
  Records = {r1, r2, r3}
  NTables = 2
  TableOf <- RecordTable
  KindOf <- SealThenIndex
  BatchSize = 2
  Blank = {r2}
INVARIANTS
  DeliveriesTypeOK EscalatedOnce ExhaustedIsEscalated DeliveredWasReceived
  ClosedWasSent ResentForAReason NothingLost
PROPERTIES EventuallyHandled  ScriptSeals
CHECK_DEADLOCK FALSE
