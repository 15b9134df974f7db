CONSTANTS
  Flows = {f1}
  Callers = {c1,c2}
  NoFlow = NoFlow
  Calls <- LifeCalls
SPECIFICATION FairSpec
INVARIANT OutcomeKept
PROPERTIES SlotFreed CancelAnswered
CHECK_DEADLOCK FALSE
