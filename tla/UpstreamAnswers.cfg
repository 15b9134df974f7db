\* One request: its conversion, the provider's answer and the answer's conversion.
SPECIFICATION AnswerSpec
CONSTANTS
  Calls <- MCRequests
  Answers <- MCAnswers
  ShortLimit = 1
  PromptLimit = 1
  MaxOutputTokens = 2
INVARIANTS RequestFaithful CutNeverSucceeds AnswerFaithful PlaygroundTruthful
\* A request that was answered is over.
CHECK_DEADLOCK FALSE
