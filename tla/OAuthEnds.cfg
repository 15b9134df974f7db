CONSTANTS
  Flows = {f1,f2}
  Callers = {c1,c2}
  NoFlow = NoFlow
  Calls <- EndCalls
SPECIFICATION Spec
SYMMETRY Symmetry
INVARIANTS OutcomeTruthful LoserToldWhy SlotHeldUntilTerminal
PROPERTIES TerminalIsFinal FlowsTakeTurns
