SPECIFICATION FairSpec
CONSTANTS
  Keys = {"INITIATION", "CORRIDOR_PROVIDER"}
  Roles = {"ENGINEERING", "OPERATIONS", "RISK"}
  Metrics = {"pending"}
  Requests = {q1}
  Monitors = {w1, w2}
  MaxRevisions = 1
  MaxRecords = 1
INVARIANTS EnabledWasReleased  UrgentStaysPaused
PROPERTIES BreachIsSignalled
CHECK_DEADLOCK FALSE
