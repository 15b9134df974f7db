\* Two flows, the first by browser or device, two concurrent handlers.
SPECIFICATION Spec
CONSTANTS
  Flows = {1, 2}
  Handlers = {c1, c2}
  DeviceAnswers <- MCDeviceAnswers
  WaitAnswers <- MCWaitAnswers
  FaultAnswers <- MCFaultAnswers
  TokenAnswers <- MCTokenAnswers
  BrowserTTL = 2
  DeviceFlows = {1}
  MaxCalls = 3
SYMMETRY Symmetry
VIEW View
INVARIANTS EndsForCause AnswersTruthful
PROPERTY PollsPaced
