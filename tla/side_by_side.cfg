SPECIFICATION SideSpec
CONSTANTS
  f1 = f1
  f2 = f2
  t1 = t1
  v1 = v1
  v2 = v2
  alert = alert
  case = case
  transfer = transfer
  Families = {f1, f2}
  MaxVersion = 2
  Owner <- FamilyOwner
  Payer <- TransferPayer
  Foreign <- OtherCurrency
  Payments = {t1}
  Editors = {e1, e2}
  Deliveries = {d1, d2, d3, d4}
  Forged = {d4}
  Limit = 2
  Window = 2
  MaxClock = 4
  Staff = {"admin", "ops"}
  Admins = {"admin"}
  Keyed = {"ops"}
  Handlers = {h1, h2}
  MaxSessions = 2
  MaxChallenges = 2
  Tabs = {v1, v2}
  Visits <- TabVisits
  Items = {alert, case, transfer}
  PageOf <- PageOfItem
  Clicks = {k1, k2}
  MaxLogins = 2
SYMMETRY SideSymmetry
INVARIANTS
  SideTypeOK OneCurrentRevision  WithinLimit
  OneLoginPerAnswer ClosedOutStaysOut 
CHECK_DEADLOCK FALSE
