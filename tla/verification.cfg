SPECIFICATION Spec
CONSTANTS
  s1 = s1
  s2 = s2
  c1 = c1
  c2 = c2
  c3 = c3
  ann = ann
  ben = ben
  Profiles = {s1, s2}
  Cases = {c1, c2, c3}
  Callers = {p1, p2}
  Identities = {ann, ben}
  Phones = {"old", "new", "other"}
  ProfileOf <- CaseProfile
  PhoneOf <- CasePhone
  CollectorOf <- CaseCollector
  FirstPhone <- OwnPhone
SYMMETRY CallerSymmetry
INVARIANTS  FailedChecksStayFailed ReplacementIsOnRecord
CHECK_DEADLOCK FALSE
