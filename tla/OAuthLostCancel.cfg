CONSTANTS
  Flows = {f1}
  Callers = {c1,c2}
  NoFlow = NoFlow
  Calls <- CancelPollCalls
SPECIFICATION Spec
SYMMETRY Symmetry
INVARIANT EveryOutcomeKept
