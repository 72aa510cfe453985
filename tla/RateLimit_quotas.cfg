\* Three calls of one owner, of one kind of route, limits of one call.
CONSTANTS
  c1 = c1
  c2 = c2
  c3 = c3
  ann = ann
  Calls = {c1, c2, c3}
  Owners = {ann}
  Owner <- MCOwner
  Limit <- MCLimit
  Window <- MCWindow
  DayLength = 2
  AllowedTiers = {"free", "pro"}
  Tiers = {"free", "pro"}
  Traffic <- MCTraffic
  Faults = {"auth", "profile", "redis", "resend"}
SPECIFICATION Spec
SYMMETRY CallSymmetry
INVARIANTS
  TypeOK
  AdmissionsAreBounded
  AnsweredCallsLeaveExpiry
  AdmissionIsCounted
