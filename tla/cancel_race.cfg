SPECIFICATION Spec
CONSTANTS
  c1 = c1
  c2 = c2
  r1 = r1
  r2 = r2
  r3 = r3
  m1 = m1
  m2 = m2
  m3 = m3
  m4 = m4
  Chats = {c1}
  Requests = {r1, r2}
  Messages = {m1, m2, m3, m4}
  Callers = {p1, p2}
  SenderOf <- OneSender
  RequestChat <- OneChat
  KeyOf <- OwnKeys
  SendMinor <- Six
  PayoutMinor <- Six
  MessageChat <- OneChatMessages
  IntentOf <- OpenConsentCancel
  DailyLimit = 12
  GlobalDaily = 20
  MaxPending = 2
  MaxWaiting = 2
  MaxRecovery = 2
  MaxSettlement = 12
  MaxSessions = 2
  Operations = {}
SYMMETRY CallerSymmetry
INVARIANTS OneTransferPerChat
CHECK_DEADLOCK FALSE
