SPECIFICATION Spec
CONSTANTS
  c1 = c1
  c2 = c2
  r1 = r1
  r2 = r2
  r3 = r3
  m1 = m1
  m2 = m2
  m3 = m3
  m4 = m4
  Chats = {c1, c2}
  Requests = {r1, r2, r3}
  Messages = {m1, m2, m3}
  Callers = {p1, p2}
  SenderOf <- TwoSenders
  RequestChat <- TwoChats
  KeyOf <- SharedKey
  SendMinor <- Uneven
  PayoutMinor <- Uneven
  MessageChat <- TwoChatMessages
  IntentOf <- Consents
  DailyLimit = 10
  GlobalDaily = 10
  MaxPending = 2
  MaxWaiting = 2
  MaxRecovery = 2
  MaxSettlement = 12
  MaxSessions = 3
  Operations = {"pause"}
SYMMETRY CallerSymmetry
INVARIANTS OneTransferPerChat SenderWithinLimit KeyUsedOnce
CHECK_DEADLOCK FALSE
