SPECIFICATION Spec
CONSTANTS
  c1 = c1
  c2 = c2
  a1 = a1
  a2 = a2
  NoCaller = NoCaller
  Callers <- TwoCallers
  Admins <- TwoAdmins
  Life = 2
  MaxTime = 1
  MaxIssued = 2
CHECK_DEADLOCK FALSE
INVARIANT DeletedIsFinal
