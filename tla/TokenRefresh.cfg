SPECIFICATION FairSpec
CONSTANTS
  c1 = c1
  c2 = c2
  a1 = a1
  a2 = a2
  NoCaller = NoCaller
  Callers <- TwoCallers
  Admins <- OneAdmin
  Life = 2
  MaxTime = 3
  MaxIssued = 3
CHECK_DEADLOCK FALSE
INVARIANTS AnswerPersisted
PROPERTIES NoRollback DisabledOnlyIfRejected Answered
